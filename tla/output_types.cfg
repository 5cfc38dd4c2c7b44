SPECIFICATION Spec
CONSTANTS
  Programs <- TypePrograms
  First <- Main
  MaxDepth = 6
INVARIANT OutputIsComplete
CHECK_DEADLOCK FALSE
