SPECIFICATION FairCommandSpec
CONSTANTS
    Shells = {"ras", "select", "shm"}
    MaxCmd = 3
    MaxFd = 19
    Capacity = 2
    MaxOut = 1
INVARIANTS
    CommandTypeOK
    EndsRight
    DescriptorsRestored
PROPERTIES
    LineEnds
