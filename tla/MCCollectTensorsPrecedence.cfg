CONSTANTS
    None = None
    Empty = Empty
    a = a
    b = b
    c = c

SPECIFICATION MCCollectSpec

INVARIANT
    DeclaredShapeKept
