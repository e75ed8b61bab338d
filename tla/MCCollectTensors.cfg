CONSTANTS
    None = None
    Empty = Empty
    a = a
    b = b
    c = c

SPECIFICATION MCCollectSpec

INVARIANTS
    CollectTypeOK
    ResolverTotal
    InsertionOrder
    RecordsAsResolved
