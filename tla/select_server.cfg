SPECIFICATION Spec
CONSTANTS
    Slots <- MCSlots
    Names <- MCNames
    Vars <- MCVars
    NoName = NoName
    Unnamed = Unnamed
    n1 = n1
    n2 = n2
    v1 = v1
    v2 = v2
    MaxSession = 3
    MaxFifo = 4
    MaxBatch = 2
    Mixes <- MCMixes
INVARIANTS
    TypeOK
    RecordsAgree
    NamesDistinct
    ValuesOfServed
PROPERTIES
    OneReader
CHECK_DEADLOCK FALSE
