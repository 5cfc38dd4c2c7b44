SPECIFICATION Spec
CONSTANTS
  Files = {"build", "a", "b"}
  Root = "build"
  Projects <- MCProjects
  Disks <- MCDisks
  Worlds <- Orderly
  MaxEdits = 3
  MaxDepth = 6
  EntryCap = 6
INVARIANTS
  RunsCurrent
  OnlyIfChanged
CHECK_DEADLOCK FALSE
