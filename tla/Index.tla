------------------------------- MODULE Index -------------------------------
(***************************************************************************)
(* The sharded index of vmemcache_index.c over the tree of module Critnib, *)
(* with its statistics (module IndexStat).  A call works on one shard      *)
(* under that shard's lock: for writing when it inserts or removes, and    *)
(* then the lock is held until the counters have been changed.             *)
(***************************************************************************)
EXTENDS Critnib, IndexStat

CONSTANTS
    Hash,         \* key -> shard
    MaxPuts,      \* bound: insertions that are counted when another one begins
    MaxStatPuts,  \* bound: the same with statistics and counted lookups
    MaxGets       \* bound: lookups that are counted when another one begins

\* malloc_usable_size of an entry
UsableSize(k) == Len(k)

ASSUME IndexAssumption ==
    /\ \A k \in Keys : UsableSize(k) \in EntrySizes
    /\ Hash \in [Keys -> ShardIds]
    /\ MaxPuts \in Nat /\ MaxStatPuts \in Nat /\ MaxGets \in Nat

VARIABLES
    sharding,   \* VMEMCACHE_SHARDING
    bucket      \* shard -> its tree

vars == <<sharding, bucket, statvars>>

Init ==
    /\ sharding \in BOOLEAN
    /\ bucket = [i \in ShardIds |-> EmptyTree]
    /\ StatInit

\* shard: pick a bucket.
Shard(k) == IF sharding THEN Hash[k] ELSE 0

----------------------------------------------------------------------------

\* Where malloc may put a new node of a shard, or Null.
alloc_node(i) == {Null} \cup (Addrs \ NodesOf(bucket[i]))

\* Counted insertions are within the bound for statistics and counted lookups.
FewPuts == Total("put") <= MaxStatPuts

Lookups == Total("hit") + Total("miss")

\* Another insertion is within the bounds.
MorePuts ==
    \/ Total("put") < MaxStatPuts
    \/ Total("put") < MaxPuts /\ Lookups = 0 /\ \A t \in Readers : stat[t].name = "none"

\* Faulty variant: a failed insertion is counted.
IndexInsert_CountsFailure(t, k) ==
    LET i == Shard(k) IN
    \E a \in alloc_node(i) :
        LET r == critnib_set(bucket[i], k, a)
        IN  /\ MorePuts
            /\ bucket' = [bucket EXCEPT ![i] = r.tree]
            /\ CountInsert(t, i, r.nodes, UsableSize(k))
            /\ UNCHANGED sharding

\* vmcache_index_insert.
IndexInsert(t, k) ==
    LET i == Shard(k) IN
    \E a \in alloc_node(i) :
        LET r == critnib_set(bucket[i], k, a)
        IN  /\ \/ /\ r.err = "0" /\ MorePuts
                  /\ bucket' = [bucket EXCEPT ![i] = r.tree]
                  /\ CountInsert(t, i, r.nodes, UsableSize(k))
               \/ /\ r.err # "0" /\ Idle(t) /\ ~Locked(i)
                  /\ UNCHANGED <<bucket, statvars>>
            /\ UNCHANGED sharding

\* vmcache_index_get.  On behalf of an exists or an evict nothing is counted,
\* nor when there is no memory for the copy of a long key.
IndexGet(t, k) ==
    LET i == Shard(k)
        hit == critnib_get(bucket[i], k)
        more == FewPuts /\ Lookups < MaxGets
    IN  /\ \/ more /\ hit /\ CountHit(t, i)
           \/ more /\ ~hit /\ CountMiss(t, i)
           \/ Idle(t) /\ ~Locked(i) /\ UNCHANGED statvars
        /\ UNCHANGED <<sharding, bucket>>

\* vmcache_index_remove; its caller has claimed an entry that is in the index
\* (VictimStaysIndexed of module Cache).
IndexRemove(t, k) ==
    LET i == Shard(k)
        r == critnib_remove(bucket[i], k)
    IN  /\ critnib_get(bucket[i], k)
        /\ bucket' = [bucket EXCEPT ![i] = r.tree]
        /\ CountRemove(t, i, r.nodes, UsableSize(k))
        /\ UNCHANGED sharding

\* The counters and the statistics leave the trees alone.
OfStat(A) == A /\ UNCHANGED <<sharding, bucket>>

\* vmcache_index_delete: what it frees, in order, for every shard.
vmcache_index_delete == [i \in ShardIds |-> delete_node(bucket[i], bucket[i].root)]

----------------------------------------------------------------------------

Next ==
    \/ \E t \in Threads :
        \/ \E k \in Keys : \/ IndexInsert(t, k) \/ IndexRemove(t, k)
                           \/ IndexGet(t, k)
        \/ OfStat(Count(t))
    \/ \E t \in Readers : \/ /\ FewPuts
                            /\ \E name \in Names : OfStat(StatCall(t, name))
                         \/ OfStat(StatShard(t)) \/ OfStat(StatReturn(t))

Spec == Init /\ [][Next]_vars

----------------------------------------------------------------------------
(* Properties *)

\* The keys a lookup finds.
Present == {k \in Keys : critnib_get(bucket[Shard(k)], k)}

\* Every step of the sharded trees is one of a plain set of keys: an insertion
\* or a removal changes what is found under no other key.  The tree branches on
\* single slices and compares whole keys at its leaves only, so this is what
\* critnib is about.
Set == INSTANCE KeySet WITH keys <- Present
ImplementsKeySet == Set!KSpec

\* An insertion is refused if, and only if, a lookup finds the key: "a conflict
\* between keys being a prefix of each other" is ruled out by the size that
\* comes first.
RefusesOnlyPresent ==
    \A k \in Keys : critnib_set(bucket[Shard(k)], k, Null).err = "EEXIST" <=> k \in Present

\* The trees are as the descents need them.
TreesWellFormed == \A i \in ShardIds : WellFormed(bucket[i])

\* What is in shard i.
Here(i) == {k \in Present : Shard(k) = i}

\* vmcache_index_delete passes every entry that can be found to the deleter and
\* frees every node, each of them once: nothing is leaked and nothing is freed twice.
DeleteFreesEachOnce ==
    \A i \in ShardIds :
        LET freed == vmcache_index_delete[i]
        IN  /\ Elements(freed) = Here(i) \cup NodesOf(bucket[i])
            /\ \A m, n \in 1 .. Len(freed) : freed[m] = freed[n] => m = n

\* The counters of a shard tell the truth after any history of successes and
\* failures, whenever nobody has the shard's lock.
CountersExact ==
    \A i \in ShardIds : ~Locked(i) =>
        /\ count[i]["leaf"] = Cardinality(Here(i))
        /\ count[i]["leaf"] = count[i]["put"] - count[i]["evict"]
        /\ count[i]["node"] = Cardinality(NodesOf(bucket[i]))
        /\ count[i]["DRAM"] = Cardinality(UNION {{k} \X (1 .. UsableSize(k)) : k \in Here(i)})
=============================================================================
