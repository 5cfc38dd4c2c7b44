SPECIFICATION Spec
CONSTANTS
  Files = {"build", "a", "b"}
  Root = "build"
  Projects <- MCProjects
  Disks <- MCDisks
  Worlds <- Interrupted
  MaxEdits = 3
  MaxDepth = 6
  EntryCap = 6
INVARIANT RunsCurrent
CHECK_DEADLOCK FALSE
