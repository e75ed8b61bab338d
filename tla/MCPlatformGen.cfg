CONSTANTS
    None = None
    NotAnInt = NotAnInt
    GIB = 4096
    L1Ways = {0}
    HbmBases = {0}
    MaxExtraHbms = 0

SPECIFICATION MCGenSpec

INVARIANTS
    GenTypeOK
    AttachPointsPartitionGrid
    ConnectionsMatchEntities
    MemoriesMatchRanges
    CacheHierarchy
    PlatformFileMatchesExit
