SPECIFICATION ParserSpec

CONSTANTS
  MaxHeight = 14
  Vocabularies <- MCVocabularies

INVARIANTS
  OwnedOnce
  NothingLost
  ParametersDistinct
  CloneExact

PROPERTIES
  FirstDiagnosticReported

CHECK_DEADLOCK FALSE
