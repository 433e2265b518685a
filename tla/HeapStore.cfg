SPECIFICATION Spec

CONSTANTS
  Cell = {c1, c2, c3, c4}
  Env = {e0, e1}
  Session = e0
  Locals = locals
  Name = {n1, n2}
  Nil = nil
  Mixes <- StoreMixes

SYMMETRY Symmetry

CONSTRAINT FewReferences

INVARIANTS
  RefCountExact
  NoDangling

PROPERTIES
  ImplementsStore
  ReleaseEnds

\* The session may end and leave nothing to do.
CHECK_DEADLOCK FALSE
