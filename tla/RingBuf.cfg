SPECIFICATION FairSpec
CONSTANTS
    Producers = {p1, p2, p3}
    Consumers = {c1}
    Entries = {x1, x2, x3}
    RingLen = 2
    PosMod = 4
    None = None
INVARIANTS StoreNeverWaits
PROPERTIES FifoQueue OperationsEnd
