SPECIFICATION Spec
CONSTANTS
  Texts <- MCTexts
  Keywords <- MCKeywords
  AddPtr <- MCAddPtr
INVARIANT TokensAreExact
PROPERTY LexingEnds
CHECK_DEADLOCK FALSE
