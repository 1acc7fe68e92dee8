SPECIFICATION FairSpec
CONSTANTS
  Configs = {x, y}
  Stored = {x, y}
  Queries = {q, r}
  Forms = {f, g}
  Memories = {m, n}
  None = None
  MaxActions = 3
  MaxMoves = 1
  MaxFaults = 1
INVARIANTS RetriesKeepIdentifiers

CHECK_DEADLOCK FALSE
