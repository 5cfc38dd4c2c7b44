SPECIFICATION GenSpec
CONSTANTS
    Procs <- PrintedOrRun
    Executed <- IsAsWritten
    MaxIter = 2
    MaxDepth = 12
INVARIANTS ExitsAsWritten AllPathsReturn NothingPrintsItself ExitsSeeTheirBlocks
PROPERTY GenerationEnds
\* The procedure stops when it has returned.
CHECK_DEADLOCK FALSE
