SPECIFICATION Spec

CONSTANTS
  MaxInt = 3
  MaxHeight = 8
  Programs <- MCPrograms

INVARIANTS
  MeaningAgrees
  ArithmeticExact
  LocalsClosed
  EnvLostByWalksOnly

CHECK_DEADLOCK FALSE
