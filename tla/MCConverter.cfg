CONSTANTS
    None = None
    Empty = Empty
    NoName = NoName
    HBM0 = HBM0
    a = a
    b = b
    c = c
    d = d
    n1 = n1
    n2 = n2
    h1 = h1
    p1 = p1
    p2 = p2
    Align = 64
    DEFAULT_SRAM_BYTES = 1048576
    NodeNames <- MCNodeNames
    PeNames <- MCPeNames

SPECIFICATION MCConverterSpec

INVARIANTS
    LookupsTotal
    DisjointTransfers
