SPECIFICATION Spec
CONSTANTS
  Paths = {p, q}
  Contents = {a, b}
  NoFile = NoFile
  AnyRevision = AnyRevision
  Callers = {c1, c2}
  Coordinated = TRUE
  MaxCalls = 2
  MaxForeign = 1
  MaxOutages = 0
SYMMETRY Symmetry
INVARIANTS TypeOK
PROPERTIES WritesAreAtomic
