SPECIFICATION Spec
CONSTANTS
    Variant = "shm"
    FirstLine = 1
    MaxPipe = 3
    MaxNode = 5
INVARIANTS
    TypeOK
    TargetFound
    PipesHeld
PROPERTIES
    Delivers
CHECK_DEADLOCK FALSE
