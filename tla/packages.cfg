SPECIFICATION Spec
CONSTANTS
  Paths = {"main", "a", "b", "x/b", "9"}
  Names = {"main", "a", "b", "9"}
  ValidNames = {"main", "a", "b"}
  NameOf <- MCNameOf
  Idents = {"S", "T", "ns"}
  NoName = NoName
  Builtin = Builtin
  BuiltinIdents = {"T"}
  Kinds = {"ok", "illtyped"}
  FileKinds = {"ok", "bad", "none"}
  DirSets = {0, 1, 2}
  DeclSets <- SomeDecls
  Worlds <- AllWorlds
  Generated <- DeclFiles
  SingleFiles = {"b"}
  Roots = {"main", "a"}
  MaxCalls = 3
CHECK_DEADLOCK FALSE
INVARIANTS
  PackagesInOrder
  ImportsAreFollowed
  OutcomeIsExact
  ScopeIsExact
  FailuresAreReported
PROPERTIES
  CompilationEnds
  ImplementsBuildOrder
