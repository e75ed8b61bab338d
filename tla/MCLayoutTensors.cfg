CONSTANTS
    None = None
    HBM0 = HBM0
    h1 = h1
    t1 = t1
    t2 = t2
    t3 = t3
    Align = 64
    MaxTensors = 3
    MaxRanges = 2

SPECIFICATION MCLayoutSpec

INVARIANTS
    LayoutTypeOK
    SuccessiveGapsOnDevice
    BadLiteralAbortsLayout

PROPERTY
    Refinement
