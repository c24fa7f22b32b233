CONSTANTS
    Process = {p1, p2, p3}
    Thumb = {t1, t2}
    MaxOps = 4
    MaxCrashes = 1
SPECIFICATION Spec
SYMMETRY Symmetry
\* A run ends when every process is idle and MaxOps commands were given.
CHECK_DEADLOCK FALSE
INVARIANTS
    TypeOK
    ImportIsUsable
PROPERTIES
    StoreIsSound
    ReadsAreSound
