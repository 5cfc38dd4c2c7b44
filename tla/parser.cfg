SPECIFICATION Spec
CONSTANT Texts <- AllTexts
CHECK_DEADLOCK FALSE
INVARIANTS
  ErrorsStayInside
  TreesBind
  PrintedParsesBack
PROPERTY
  ParsingEnds
