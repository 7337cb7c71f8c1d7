SPECIFICATION Spec
CONSTANTS
    SLNODES = 4
    SLICES = 2
    BITS = 2
    Null = Null
    Addrs = {a1, a2, a3, a4}
    Threads = {t1}
    Readers = {r1}
    Keys <- SomeKeys
    NSHARDS = 2
    EntrySizes = {1, 2, 3}
    Hash <- ByLength
    MaxPuts = 5
    MaxStatPuts = 1
    MaxGets = 1
SYMMETRY Symmetry
INVARIANTS
    RefusesOnlyPresent
    TreesWellFormed
    DeleteFreesEachOnce
    StatBracketed
    CountersExact
PROPERTY ImplementsKeySet
