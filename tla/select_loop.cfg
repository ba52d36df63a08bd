SPECIFICATION FairSpec
CONSTANTS
    c1 = c1
    c2 = c2
    Clients <- TwoClients
    Sockets <- TwoSockets
    MaxPieces = 2
INVARIANTS
    TypeOK
    SetsRight
PROPERTIES
    Served
CHECK_DEADLOCK FALSE
