SPECIFICATION Spec
CONSTANTS
  NBuiltins = 1
  Structs = {"S"}
  Typedefs = {"T"}
  Procs = {"f"}
  ArgNames = {"x"}
  Defaults = {}
  Sizes = {1}
  NoDecl = NoDecl
  NoDefault = NoDefault
  ProcsInside = TRUE
  MaxArgs = 1
  MaxTypes = 4
CHECK_DEADLOCK FALSE
INVARIANT
  EqualTypesAreIdentical
