\* In units of 16 bytes: extents of 272 bytes, which is legal and not a multiple
\* of 64, and a pool of three of them and 16 bytes.
SPECIFICATION Spec
CONSTANTS
    Values = {v1, v2}
    Sizes = {15, 32}
    Addr = 0
    MapLen = 60
    GUARD_SIZE = 4
    extent_size = 17
    Null = Null
SYMMETRY ValueSymmetry
INVARIANT PopulateAssertHolds
