SPECIFICATION Spec
CONSTANTS
  MaxSessions = 2
  MaxRuns = 2
  MaxTexts = 2
  MaxCalls = 3
  MaxFaults = 1
  MaxStalls = 1
  None = None
INVARIANTS TypeOK FinalsAreSaved TextsInOrder OneProjection NoHiddenCapture
CHECK_DEADLOCK FALSE
