SPECIFICATION Spec
CONSTANTS
    Procs = {p1, p2, p3}
    NoProc = NoProc
    MaxSlot = 2
SYMMETRY Symmetry
INVARIANTS
    TypeOK
    OwnRecord
    Signalled
PROPERTIES
    ShownOnce
CHECK_DEADLOCK FALSE
