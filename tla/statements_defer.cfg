SPECIFICATION GenSpec
CONSTANTS
    Procs <- All
    Executed <- Whatever
    MaxIter = 2
    MaxDepth = 0
INVARIANT ExitsAsWritten
\* The procedure stops when it has returned.
CHECK_DEADLOCK FALSE
