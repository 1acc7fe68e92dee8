SPECIFICATION FairSpec
CONSTANTS
  Paths = {p, q}
  Contents = {a}
  NoFile = NoFile
  AnyRevision = AnyRevision
  Callers = {c1, c2}
  Coordinated = FALSE
  MaxCalls = 2
  MaxForeign = 1
  MaxOutages = 1
INVARIANTS AcknowledgedIsDurable
PROPERTIES OnlyTheWindowIsExposed NewFilesNeverReplace EveryCallReturns
