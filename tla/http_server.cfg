SPECIFICATION FairSpec
CONSTANTS
    Conns = {c1, c2}
    NoConn = NoConn
    MaxProcs = 3
INVARIANTS
    TypeOK
    OwnConnection
    NoZombies
PROPERTIES
    EveryoneServed
CHECK_DEADLOCK FALSE
