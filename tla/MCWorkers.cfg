SPECIFICATION FairSpec
CONSTANTS
  None = None
  Tokens = {t, u}
  MaxRequests = 4
  MaxAccountFaults = 3
  Requests = {i, j, k}
  Captures = {c, d, e}
  MaxPending = 2
  Receipts = 1
  Batch = 2
  MaxFailures = 2
  MaxSessions = 1
  MaxRuns = 2
  MaxTexts = 1
  MaxCalls = 2
  MaxFaults = 1
  MaxStalls = 1
  Inputs = {m, n}
  MaxClicks = 3
  MaxRefusals = 1
  Segments = {1, 2}
  MaxVisits = 3
  MaxRetries = 1
  MaxErrors = 2
  MaxNaps = 1
  Windows = {v, w}
  Keys = {p, q}
  Values = {0, 1}
  MaxUpdates = 2
  Contents = {a, b}
  MaxGenerations = 2
  MaxOpenings = 2
  Shortest = 1
  Longest = 4
  Budget = 5
  MaxFrames = 5
INVARIANTS CredentialsAreSafe CapturesAreKept PanelsAreSound SettingsAreSound
PROPERTIES WorkStepsAreSafe WorkEnds
CHECK_DEADLOCK FALSE
