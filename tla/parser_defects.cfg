SPECIFICATION Spec
CONSTANT Texts <- FewTexts
CHECK_DEADLOCK FALSE
INVARIANTS
  NothingIsSpoiled
  DocsAreCounted
