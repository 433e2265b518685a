SPECIFICATION Spec

CONSTANTS
  MaxInt = 3
  MaxHeight = 8
  Programs <- MCPrograms

INVARIANT ConstructorsUseEnvironment

CHECK_DEADLOCK FALSE
