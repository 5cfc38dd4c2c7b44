SPECIFICATION Spec
CONSTANTS
  Programs <- MCPrograms
  First <- Main
  MaxDepth = 6
INVARIANTS
  NamesAreDistinct
  OutputIsExact
  UnusedIsExact
CHECK_DEADLOCK FALSE
