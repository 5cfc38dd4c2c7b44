SPECIFICATION Spec
CONSTANTS
  NBuiltins = 1
  Structs = {"S"}
  Typedefs = {"T"}
  Procs = {"f"}
  ArgNames = {"x"}
  Defaults = {}
  Sizes = {1, 2}
  NoDecl = NoDecl
  NoDefault = NoDefault
  ProcsInside = FALSE
  MaxArgs = 1
  MaxTypes = 5
CHECK_DEADLOCK FALSE
INVARIANTS
  EqualTypesAreIdentical
  LookupIsSound
