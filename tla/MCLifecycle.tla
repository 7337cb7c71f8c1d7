----------------------------- MODULE MCLifecycle -----------------------------
EXTENDS Lifecycle, TLC
CONSTANTS t1, t2

\* t1 tries everything; t2 adds a pool in a directory, with the defaults.
Roles ==
    (t1 :> [policies |-> {"LRU", "NONE"}, sizes |-> {3, 5, 7}, extents |-> {0, 6},
            paths |-> Paths, mayFail |-> TRUE, keeps |-> FALSE])
    @@ (t2 :> [policies |-> {}, sizes |-> {}, extents |-> {}, paths |-> {"dir"},
            mayFail |-> FALSE, keeps |-> TRUE])

\* A second attempt after one that failed, for the thread whose calls fail.
AddLimits == t1 :> 2 @@ t2 :> 1

\* Device sizes need not be multiples of a page for sysfs; one is below the minimum.
Devs == "dax" :> 7 @@ "tiny" :> 3

\* Two failures in one behaviour, and what the setters change, are explored in
\* one thread alone: neither has to do with what the threads share.
Alone ==
    Exists(t2) => /\ faults <= 1
                  /\ repl_p[t1] = "LRU"
                  /\ extent_size[t1] <= VMEMCACHE_MIN_EXTENT
==============================================================================
