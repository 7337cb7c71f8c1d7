SPECIFICATION CSpec
CONSTANTS
    k1 = k1
    Threads = {t1, t2}
    Keys = {k1, k2}
    Entries = {e1, e2, e3}
    RingLen = 1
    None = None
    Disciplined = FALSE
    Policies = {"LRU"}
    Pool = 3
    VSize <- TwoValues
    Ops <- AnyOps
    AllocFails = FALSE
INVARIANTS NoFault
