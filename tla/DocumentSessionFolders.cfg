SPECIFICATION Spec
CONSTANTS
  Roots = {r, s}
  Files = {f, g}
  Untitled = {u}
  Spare = {q}
  Contents = {a, b}
  Empty = a
  NoFile = NoFile
  None = None
  MaxEdits = 2
  MaxForeign = 0
  MaxTasks = 3
SYMMETRY Symmetry
INVARIANTS AnswersMatchTabs PathsAreReserved
