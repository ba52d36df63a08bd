SPECIFICATION Spec
CONSTANTS
    Procs = {p1, p2, p3}
    NoProc = NoProc
    MaxSlot = 2
    MaxMade = 2
    MaxLines = 3
    Lines <- MCLines
    Kinds <- MCKinds
SYMMETRY Symmetry
INVARIANTS
    TypeOK
    SenderAwaited
    RecordsMatch
PROPERTIES
    ReadsWhole
CHECK_DEADLOCK FALSE
