SPECIFICATION Spec

CONSTANTS
  Cell = {c1, c2}
  Env = {e0}
  Session = e0
  Locals = locals
  Name = {n1, n2}
  Nil = nil
  Mixes <- LeakMixes

SYMMETRY Symmetry

CONSTRAINT SessionLast

INVARIANTS
  TeardownFreesAllCells

\* The session may end and leave nothing to do.
CHECK_DEADLOCK FALSE
