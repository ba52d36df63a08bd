SPECIFICATION WinSpec
CONSTANTS
    Browsers = {b1, b2, b3}
    NoBody = NoBody
    MaxConn = 2
    MaxCell = 2
    Socks = {n1, n2, n3, n4}
    NULL = NULL
    Queries <- MCQueries
    Kinds = {"waiting", "fresh"}
SYMMETRY Symmetry
INVARIANTS
    WinTypeOK
    OwnPage
    PageEnds
PROPERTIES
    PageWhole
CHECK_DEADLOCK FALSE
