SPECIFICATION Spec
CONSTANTS
    Programs <- DefectPrograms
    Names <- MCNames
    Packages <- MCPackages
INVARIANTS NamesAreLexical GoesForward
\* The compiler stops when the passes are over.
CHECK_DEADLOCK FALSE
