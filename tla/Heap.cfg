SPECIFICATION Spec
CONSTANTS
    Values = {v1, v2, v3}
    Sizes = {0, 6, 7, 10, 13}
    Addr = 0
    MapLen = 36
    GUARD_SIZE = 4
    extent_size = 8
    Null = Null
SYMMETRY ValueSymmetry
INVARIANTS
    EntriesTilePool
    FreeEntriesMerged
    StatsExact
    AssertsHold
    NoSuperfluousExtent
    ReadsBack
