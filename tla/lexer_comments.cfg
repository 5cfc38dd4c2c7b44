SPECIFICATION Spec
CONSTANTS
  Texts <- MCTexts
  Keywords <- MCKeywords
  AddPtr <- MCAddPtr
INVARIANT CommentsNest
CHECK_DEADLOCK FALSE
