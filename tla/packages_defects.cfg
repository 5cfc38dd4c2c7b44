SPECIFICATION Spec
CONSTANTS
  Paths = {"main", "a", "b", "x/b", "9"}
  Names = {"main", "a", "b", "9"}
  ValidNames = {"main", "a", "b"}
  NameOf <- MCNameOf
  Idents = {"S", "T", "ns"}
  NoName = NoName
  Builtin = Builtin
  BuiltinIdents = {}
  Kinds = {"ok"}
  FileKinds = {"ok"}
  DirSets = {0, 1, 2}
  DeclSets <- NoDecls
  Worlds <- DefectWorlds
  Generated <- ImportFiles
  SingleFiles = {}
  Roots = {"main"}
  MaxCalls = 2
CHECK_DEADLOCK FALSE
INVARIANTS
  WrongImportIsSurvived
  ImportsAreLinked
