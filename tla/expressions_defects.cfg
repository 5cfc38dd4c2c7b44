SPECIFICATION CompoSpec
CONSTANTS
  IntTypes = {"char", "bool", "int", "llong", "ullong"}
  Bits <- MCBits
  Unsigned = {"ullong"}
  PointerBits = 5
  Leaves <- MCLeaves
  CastTypes <- MCCastTypes
  BinaryOps = {"+", "-", "*", "/", "%", "<<", ">>", "&", "^", "==", "<", "&&"}
  MaxSize = 2
  DigitBits = 5
  RoomDigits = 3
  FloatBits = 3
  Addresses = {6, 11}
  MaxValue = 45
  Shapes <- MCShapes
  ItemLists <- MCItemLists
  Other <- MCOther
  MaxItems = 3
INVARIANTS
  BoundsAreChecked
  FoldsAreExact
  SignsAreKept
  AssertionsHold
  IndexesInBounds
CHECK_DEADLOCK FALSE
