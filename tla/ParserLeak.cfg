SPECIFICATION ParserSpec

CONSTANTS
  MaxHeight = 14
  Vocabularies <- MCVocabularies

INVARIANTS
  FailureFreesTree

CHECK_DEADLOCK FALSE
