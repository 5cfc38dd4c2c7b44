SPECIFICATION GenSpec
CONSTANTS
    Procs <- WithoutLoopReturns
    Executed <- Whatever
    MaxIter = 2
    MaxDepth = 0
INVARIANT AllPathsReturn
\* The procedure stops when it has returned.
CHECK_DEADLOCK FALSE
