SPECIFICATION FairSpec
CONSTANTS
  Roots = {r}
  Files = {f}
  Untitled = {u}
  Spare = {q}
  Contents = {a, b}
  Empty = a
  NoFile = NoFile
  None = None
  MaxEdits = 2
  MaxForeign = 1
  MaxTasks = 3
INVARIANTS TypeOK QuitKeepsEdits CleanIsSaved
PROPERTIES EditsSurvive SessionSettles
