SPECIFICATION FairSpec
CONSTANTS
    MaxHost = 2
    MaxLine = 2
    BufLen = 4
    Room = 2
INVARIANTS
    TypeOK
    InOrder
    LockStep
PROPERTIES
    BatchEnds
CHECK_DEADLOCK FALSE
