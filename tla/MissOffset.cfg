SPECIFICATION Spec
SYMMETRY KeySymmetry
CONSTANTS
    Keys = {k1, k2}
    Sizes = {0, 1, 2}
    BufSizes = {1, 2}
    Offsets = {0, 1}
    CacheSize = 2
    MaxPuts = 2
    MaxDepth = 2
    None = None
INVARIANT MissHonoursOffset
