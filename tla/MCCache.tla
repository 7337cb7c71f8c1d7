------------------------------ MODULE MCCache ------------------------------
(* Instances of Cache for TLC: who calls what, and how large the values are. *)
EXTENDS Cache, TLC

CONSTANT k1   \* the key with the small value

AllOps == {"put", "get", "exists", "evict", "evict_key"}

\* Every thread calls everything.
AnyOps == [t \in Threads |-> AllOps]

\* Threads are alike, and so are the memory blocks of entries.
ThreadEntrySymmetry == Permutations(Threads) \cup Permutations(Entries)

\* A small and a large value: the large one may need two evictions.
TwoValues == [k \in Keys |-> IF k = k1 THEN 1 ELSE 2]
=============================================================================
