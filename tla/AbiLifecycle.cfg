SPECIFICATION Spec
CONSTANTS
  Inits = {i1, i2}
  Registers = {r1, r2}
  Uses = {u1}
  Shutdowns = {s1}
  Goroutines = {g1, g2}
  None = None
  Unread = Unread
SYMMETRY Symmetry
INVARIANTS
  TypeOK
  RunsOnNewest
  LockDiscipline
  OneLateCallback
