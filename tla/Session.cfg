SPECIFICATION FairSpec

CONSTANTS
  File = {f, g}
  Missing = Missing
  Setups <- MCSetups
  MaxLoads = 4

INVARIANTS
  OutcomeAsWritten

PROPERTIES
  ByeIsFinal
  FailureReported
  SessionEnds

\* The process ends.
CHECK_DEADLOCK FALSE
