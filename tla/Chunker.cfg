SPECIFICATION Spec

CONSTANTS
  Texts <- TextsOfFive

INVARIANTS
  NothingLost

PROPERTIES
  CutsWithLexer

\* The text is at its end.
CHECK_DEADLOCK FALSE
