CONSTANTS
    None = None
    NotAnInt = NotAnInt
    GIB = 4096
    L1Ways = {0}
    HbmBases = {0}
    MaxExtraHbms = 1

SPECIFICATION MCGenSpec

INVARIANTS
    AttachPointsPartitionGrid
