SPECIFICATION FairSpec
CONSTANTS
    Width = 3
    Confs <- MCConfs
    Requests <- MCRequests
    MaxRule = 2
    MaxPiece = 3
    Capacity = 1
INVARIANTS
    TypeOK
PROPERTIES
    GrantsPermitted
    Relayed
    NeverStuck
CHECK_DEADLOCK FALSE
