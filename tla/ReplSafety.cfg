SPECIFICATION ReplSpec
CONSTANTS
    Threads = {t1, t2, t3}
    Entries = {e1, e2, e3}
    RingLen = 2
    None = None
    Disciplined = FALSE
SYMMETRY ReplSymmetry
INVARIANTS ReplTypeOK NodeOwnership NoNodeLost ListExact RingAccounting
PROPERTIES EsrchOnlyUnderUse
