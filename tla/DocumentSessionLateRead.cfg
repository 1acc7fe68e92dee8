SPECIFICATION Spec
CONSTANTS
  Roots = {r}
  Files = {f}
  Untitled = {u}
  Spare = {q}
  Contents = {a, b}
  Empty = a
  NoFile = NoFile
  None = None
  MaxEdits = 1
  MaxForeign = 1
  MaxTasks = 3
PROPERTIES LateReadsKeepBuffers
