SPECIFICATION FairSpec
CONSTANTS
    c1 = c1
    c2 = c2
    Clients <- OneClient
    Sockets <- TwoSockets
    MaxPieces = 2
PROPERTIES
    DisconnectNoticed
CHECK_DEADLOCK FALSE
