CONSTANTS
    None = None
    NoName = NoName
    Empty = Empty
    t1 = t1
    t2 = t2
    n1 = n1
    n2 = n2
    n3 = n3
    p1 = p1
    p2 = p2
    MaxNodes = 3
    DEFAULT_SRAM_BYTES = 1048576
    NodeNames <- MCNodeNames
    PeNames <- MCPeNames

SPECIFICATION MCSpec

INVARIANTS
    TypeOK
    UniqueIds
    ChunksTileTensor
    EdgesFollowDataflow
    LoweringComplete
    RoundRobinShare
    ChunksFitAssignedPe


PROPERTY
    LoweringRefinement
