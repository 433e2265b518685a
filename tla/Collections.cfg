SPECIFICATION Spec

CONSTANTS
  Elem = {a, b, c}
  MaxItems = 5

SYMMETRY Symmetry

INVARIANTS
  SetsDistinct
  MultisetAlgebra
  ListAlgebra
  EqualAgrees
  AggregateAgrees
