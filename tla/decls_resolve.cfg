SPECIFICATION Spec
CONSTANTS
    Programs <- AllPrograms
    Names <- MCNames
    Packages <- MCPackages
INVARIANTS ErrorsAreExact OrderIsSound LayoutIsC NamesAreLexical
PROPERTY Terminates
\* The compiler stops when the passes are over.
CHECK_DEADLOCK FALSE
