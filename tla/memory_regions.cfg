SPECIFICATION Spec
CONSTANTS
  Reserve = 36
  Page = 4
  AddSize = 2
  Alignment = 2
  BaseLen = 1
  Sizes = {1, 5}
  Names = {"main", "x", "y", "z"}
  TextSize <- MCTextSize
  InitCap = 4
  VisitsSize = 3
  RoomAtPass = TRUE
  MaxPushes = 3
INVARIANTS
  BlocksAreIntact
  FailsOnlyWhenFull
PROPERTIES
  InternsAreStable
CHECK_DEADLOCK FALSE
