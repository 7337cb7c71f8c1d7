SPECIFICATION Spec
SYMMETRY KeySymmetry
CONSTANTS
    Keys = {k1, k2}
    Sizes = {0, 1, 3}
    BufSizes = {1, 2}
    Offsets = {0, 1}
    CacheSize = 2
    MaxPuts = 2
    MaxDepth = 3
    None = None
INVARIANTS
    RequestOfRunningGet
    MissAnswered
