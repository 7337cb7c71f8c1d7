------------------------------- MODULE Cache -------------------------------
(***************************************************************************)
(* put, get, exists and evict of vmemcache.c as concurrent threads run     *)
(* them over the shared index (vmemcache_index.c), the reference counts of *)
(* the entries, the heap and the replacement policy (module Repl, or none  *)
(* at all).                                                                *)
(*                                                                         *)
(* An action is what a thread does between two points at which others can  *)
(* see a difference: a critical section of the index's shard lock or of    *)
(* the heap's lock, one atomic instruction on refcount or evicting, or a   *)
(* step of the policy.  The heap is a number of free units: vmcache_alloc  *)
(* gives what it has, up to what is asked.                                 *)
(*                                                                         *)
(* Callbacks: the thread is inside on_evict while it is at "ev_cb" or      *)
(* "evk_cb".  Lookups that miss end at once (no on_miss callback).         *)
(***************************************************************************)
EXTENDS Repl, FiniteSetsExt

CONSTANTS
    Keys,
    Policies,   \* what vmemcache_set_eviction_policy may be called with
    Pool,       \* units of the heap
    VSize,      \* key -> units its value takes
    Ops,        \* thread -> operations it calls
    AllocFails  \* TRUE: malloc may fail where the code carries on

ASSUME CacheAssumption ==
    /\ None \notin Keys
    /\ Policies \subseteq {"LRU", "NONE"}
    /\ Pool \in Nat \ {0}
    /\ VSize \in [Keys -> 1 .. Pool + 1]
    /\ Ops \in [Threads -> SUBSET {"put", "get", "exists", "evict", "evict_key"}]
    /\ AllocFails \in BOOLEAN

VARIABLES
    policy,     \* cache->repl_p, which is fixed once the cache is in use
    index,      \* key -> entry in its shard's critnib, or None
    ekey,       \* entry -> key.key; None when the memory is not allocated
    refcount,   \* entry -> value.refcount
    evicting,   \* entry -> value.evicting
    units,      \* entry -> units in value.extents
    heap,       \* free units
    cpc,        \* thread -> where it is in the public operation
    ckey,       \* thread -> key argument
    pent,       \* thread -> entry its put is building, or None
    cent,       \* thread -> entry its get, exists or evict has a pointer to
    orphans     \* entries whose policy reference nobody holds any more

entryVars == <<ekey, refcount, evicting, units>>
cacheVars == <<index, entryVars, heap, cpc, ckey, pent, cent, orphans>>
vars == <<replVars, cacheVars, policy>>

CPCs == {"idle", "put_alloc", "put_index", "put_repl", "put_ins", "put_err",
         "get_use", "get_wait", "ex_rel",
         "ev_repl", "ev_wait", "ev_cb",
         "evk_cas", "evk_lost", "evk_cb", "evk_wait", "evk_busy", "evk_reset",
         "evk_rel", "ev_rel", "ev_remove"}

Live(e) == ekey[e] # None

CInit ==
    /\ ReplInit
    /\ policy \in Policies
    /\ index = [k \in Keys |-> None]
    /\ ekey = [e \in Entries |-> None]
    /\ refcount = [e \in Entries |-> 0]
    /\ evicting = [e \in Entries |-> FALSE]
    /\ units = [e \in Entries |-> 0]
    /\ heap = Pool
    /\ cpc = [t \in Threads |-> "idle"]
    /\ ckey = [t \in Threads |-> None]
    /\ pent = [t \in Threads |-> None]
    /\ cent = [t \in Threads |-> None]
    /\ orphans = {}

----------------------------------------------------------------------------
(* Reference counts *)

\* vmemcache_entry_acquire
Acquire(e) == refcount' = [refcount EXCEPT ![e] = @ + 1]

\* vmcache_free of the extents and Free of the entry.
FreeEntry(e) ==
    /\ heap' = heap + units[e]
    /\ units' = [units EXCEPT ![e] = 0]
    /\ ekey' = [ekey EXCEPT ![e] = None]
    /\ evicting' = [evicting EXCEPT ![e] = FALSE]
    /\ orphans' = orphans \ {e}

\* vmemcache_entry_release: whoever drops the last reference frees the entry.
\* Nobody else can look at a count that drops to zero, so the step takes place
\* when the extents are given back.
Release(e) ==
    /\ refcount' = [refcount EXCEPT ![e] = @ - 1]
    /\ \/ refcount[e] = 1 /\ FreeEntry(e)
       \/ refcount[e] # 1 /\ UNCHANGED <<heap, units, ekey, evicting, orphans>>

CGoto(t, pc) == cpc' = [cpc EXCEPT ![t] = pc]

\* The public operation ends; an eviction made on behalf of a put returns to it.
EndOp(t) ==
    /\ CGoto(t, "idle")
    /\ ckey' = [ckey EXCEPT ![t] = None]
    /\ pent' = [pent EXCEPT ![t] = None]
    /\ cent' = [cent EXCEPT ![t] = None]

EndEvict(t) ==
    \/ pent[t] = None /\ EndOp(t)
    \/ /\ pent[t] # None
       /\ CGoto(t, "put_alloc")
       /\ cent' = [cent EXCEPT ![t] = None]
       /\ UNCHANGED <<ckey, pent>>

\* A client that waits for put(k) to return before it touches k.
MayCall(k) ==
    Disciplined => \A u \in Threads :
        ~(cpc[u] \in {"put_repl", "put_ins"} /\ ckey[u] = k)

----------------------------------------------------------------------------
(* The policy "none": it has a reference of each entry, notes no use, and   *)
(* returns the entry it is asked to give up, NULL if asked for any.         *)

repl_p_none_insert(e) == Live(e) /\ Acquire(e) /\ UNCHANGED replVars
repl_p_none_use == UNCHANGED replVars
repl_p_none_evict(e) == e

----------------------------------------------------------------------------
(* vmemcache_put *)

\* The entry is allocated and its key copied.  Memory that somebody still has
\* a pointer to is not handed out again, so that a dangling pointer shows.
PutStart(t, k, e) ==
    /\ cpc[t] = "idle" /\ "put" \in Ops[t]
    /\ ~Live(e)
    /\ \A u \in Threads : e \notin {pent[u], cent[u], rarg[u]}
    /\ \A j \in Keys : index[j] # e
    /\ ekey' = [ekey EXCEPT ![e] = k]
    /\ ckey' = [ckey EXCEPT ![t] = k]
    /\ pent' = [pent EXCEPT ![t] = e]
    /\ CGoto(t, "put_alloc")
    /\ UNCHANGED <<replVars, index, refcount, evicting, units, heap, cent,
                   orphans>>

\* Faulty variant: any allocation counts as a complete one.
PutAlloc_Partial(t) ==
    LET e == pent[t]
        n == Min({VSize[ckey[t]] - units[e], heap})
    IN  /\ cpc[t] = "put_alloc"
        /\ units' = [units EXCEPT ![e] = @ + n]
        /\ heap' = heap - n
        /\ CGoto(t, IF n > 0 THEN "put_index" ELSE "ev_repl")
        /\ UNCHANGED <<replVars, index, ekey, refcount, evicting, ckey, pent,
                       cent, orphans>>

\* vmcache_alloc: all that is still needed, or all there is.
PutAlloc(t) ==
    LET e == pent[t]
        left == VSize[ckey[t]] - units[e]
        n == Min({left, heap})
    IN  /\ cpc[t] = "put_alloc"
        /\ units' = [units EXCEPT ![e] = @ + n]
        /\ heap' = heap - n
        /\ \/ n = left /\ CGoto(t, "put_index")
           \/ n # left /\ n > 0 /\ UNCHANGED cpc
           \/ n # left /\ n = 0 /\ CGoto(t, "ev_repl")
        /\ UNCHANGED <<replVars, index, ekey, refcount, evicting, ckey, pent,
                       cent, orphans>>

\* Faulty variant: the error path forgets the entry.
PutError_Leaks(t) ==
    /\ cpc[t] = "put_err"
    /\ EndOp(t)
    /\ UNCHANGED <<replVars, index, entryVars, heap, orphans>>

\* error_exit: the extents and the entry are freed.
PutError(t) ==
    /\ cpc[t] = "put_err"
    /\ FreeEntry(pent[t])
    /\ EndOp(t)
    /\ UNCHANGED <<replVars, index, refcount>>

\* vmcache_index_insert, under the shard's write lock.  critnib_set refuses a
\* key that is there already, and may run out of memory.
PutIndex(t) ==
    LET k == ckey[t]
        e == pent[t]
    IN  /\ cpc[t] = "put_index"
        /\ \/ /\ index[k] = None
              /\ index' = [index EXCEPT ![k] = e]
              /\ refcount' = [refcount EXCEPT ![e] = 1]
              /\ CGoto(t, "put_repl")
           \/ /\ index[k] # None \/ AllocFails
              /\ CGoto(t, "put_err")
              /\ UNCHANGED <<index, refcount>>
        /\ UNCHANGED <<replVars, ekey, evicting, units, heap, ckey, pent, cent,
                       orphans>>

\* Faulty variant: the policy "none" takes no reference.
PutRepl_NoAcquire(t) ==
    /\ cpc[t] = "put_repl"
    /\ EndOp(t)
    /\ UNCHANGED <<replVars, index, entryVars, heap, orphans>>

\* repl_p_insert.  The LRU policy first publishes its node; without memory for
\* the node it silently leaves the entry out of the list.
PutRepl(t) ==
    /\ cpc[t] = "put_repl"
    /\ \/ /\ policy = "LRU"
          /\ InsertNode(t, pent[t])
          /\ CGoto(t, "put_ins")
          /\ UNCHANGED <<refcount, ckey, pent, cent>>
       \/ /\ policy = "LRU" /\ AllocFails
          /\ EndOp(t)
          /\ UNCHANGED <<replVars, refcount>>
       \/ policy = "NONE" /\ repl_p_none_insert(pent[t]) /\ EndOp(t)
    /\ UNCHANGED <<index, ekey, evicting, units, heap, orphans>>

\* Faulty variant: the list takes no reference.
PutIns_NoAcquire(t) ==
    /\ cpc[t] = "put_ins"
    /\ InsertTail(t)
    /\ EndOp(t)
    /\ UNCHANGED <<index, entryVars, heap, orphans>>

\* ... and then, under its lock, acquires the entry and links the node.
PutIns(t) ==
    /\ cpc[t] = "put_ins"
    /\ Live(pent[t])
    /\ InsertTail(t)
    /\ Acquire(pent[t])
    /\ EndOp(t)
    /\ UNCHANGED <<index, ekey, evicting, units, heap, orphans>>

----------------------------------------------------------------------------
(* vmemcache_get and vmemcache_exists *)

\* Faulty variant: the entry is returned without a reference.
IndexGet_NoAcquire(t, k, pc) ==
    /\ cpc[t] = "idle"
    /\ MayCall(k)
    /\ index[k] # None
    /\ cent' = [cent EXCEPT ![t] = index[k]]
    /\ ckey' = [ckey EXCEPT ![t] = k]
    /\ CGoto(t, pc)
    /\ UNCHANGED <<replVars, index, entryVars, heap, pent, orphans>>

\* vmcache_index_get, under the shard's read lock: found entries are acquired
\* before the lock is dropped.  A miss changes nothing.
IndexGet(t, k, pc) ==
    /\ cpc[t] = "idle"
    /\ MayCall(k)
    /\ index[k] # None
    /\ Live(index[k])
    /\ Acquire(index[k])
    /\ cent' = [cent EXCEPT ![t] = index[k]]
    /\ ckey' = [ckey EXCEPT ![t] = k]
    /\ CGoto(t, pc)
    /\ UNCHANGED <<replVars, index, ekey, evicting, units, heap, pent, orphans>>

GetStart(t, k) == "get" \in Ops[t] /\ IndexGet(t, k, "get_use")

GetUse(t) ==
    /\ cpc[t] = "get_use"
    /\ Live(cent[t])
    /\ \/ policy = "LRU" /\ Use(t, cent[t])
       \/ policy = "NONE" /\ repl_p_none_use
    /\ CGoto(t, "get_wait")
    /\ UNCHANGED <<index, entryVars, heap, ckey, pent, cent, orphans>>

\* vmemcache_populate_value, then the reference is released.
GetEnd(t) ==
    /\ cpc[t] = "get_wait" /\ rpc[t] = "idle"
    /\ Live(cent[t])
    /\ Release(cent[t])
    /\ EndOp(t)
    /\ UNCHANGED <<replVars, index>>

ExistsStart(t, k) == "exists" \in Ops[t] /\ IndexGet(t, k, "ex_rel")

ExistsEnd(t) ==
    /\ cpc[t] = "ex_rel"
    /\ Live(cent[t])
    /\ Release(cent[t])
    /\ EndOp(t)
    /\ UNCHANGED <<replVars, index>>

----------------------------------------------------------------------------
(* vmemcache_evict with key == NULL, called by a client or by a put that    *)
(* found the heap empty                                                     *)

EvictStart(t) ==
    /\ cpc[t] = "idle" /\ "evict" \in Ops[t]
    /\ CGoto(t, "ev_repl")
    /\ UNCHANGED <<replVars, index, entryVars, heap, ckey, pent, cent, orphans>>

\* No victim: the eviction fails, and so does a put that needed the space.
NoVictim(t) ==
    \/ pent[t] = None /\ EndOp(t)
    \/ pent[t] # None /\ CGoto(t, "put_err") /\ UNCHANGED <<ckey, pent, cent>>

\* repl_p_evict(NULL) is called.
EvictRepl(t) ==
    /\ cpc[t] = "ev_repl"
    /\ \/ /\ policy = "LRU"
          /\ EvictLock(t, None)
          /\ CGoto(t, "ev_wait")
          /\ UNCHANGED <<ckey, pent, cent>>
       \/ /\ policy = "NONE" /\ repl_p_none_evict(None) = None
          /\ NoVictim(t)
          /\ UNCHANGED replVars
    /\ UNCHANGED <<index, entryVars, heap, orphans>>

\* Faulty variant: the evicting flag of the victim is not looked at.
EvictClaim_IgnoresFlag(t) ==
    /\ cpc[t] = "ev_wait"
    /\ Return(t)
    /\ \/ /\ rarg[t] = None
          /\ NoVictim(t)
          /\ UNCHANGED evicting
       \/ /\ rarg[t] # None
          /\ evicting' = [evicting EXCEPT ![rarg[t]] = TRUE]
          /\ cent' = [cent EXCEPT ![t] = rarg[t]]
          /\ CGoto(t, "ev_cb")
          /\ UNCHANGED <<ckey, pent>>
    /\ UNCHANGED <<index, ekey, refcount, units, heap, orphans>>

\* The policy's answer.  The victim is claimed through its evicting flag; if an
\* eviction by key has claimed it already, the loop takes another victim and
\* the reference that came with this one is dropped.
EvictClaim(t) ==
    /\ cpc[t] = "ev_wait"
    /\ Return(t)
    /\ \/ /\ rarg[t] = None
          /\ NoVictim(t)
          /\ UNCHANGED <<evicting, orphans>>
       \/ /\ rarg[t] # None
          /\ ~evicting[rarg[t]]
          /\ evicting' = [evicting EXCEPT ![rarg[t]] = TRUE]
          /\ cent' = [cent EXCEPT ![t] = rarg[t]]
          /\ CGoto(t, "ev_cb")
          /\ UNCHANGED <<ckey, pent, orphans>>
       \/ /\ rarg[t] # None
          /\ evicting[rarg[t]]
          /\ orphans' = orphans \cup {rarg[t]}
          /\ CGoto(t, "ev_repl")
          /\ UNCHANGED <<evicting, ckey, pent, cent>>
    /\ UNCHANGED <<index, ekey, refcount, units, heap>>

\* on_evict returns; the policy's reference is released.
EvictCallback(t) ==
    /\ cpc[t] = "ev_cb"
    /\ Live(cent[t])
    /\ Release(cent[t])
    /\ CGoto(t, "ev_remove")
    /\ UNCHANGED <<replVars, index, ckey, pent, cent>>

\* vmcache_index_remove, under the shard's write lock: whatever entry has this
\* key is unlinked, and the reference of the caller's entry is released.  The
\* branch for a key that is not there is never taken (VictimStaysIndexed).
EvictRemove(t) ==
    /\ cpc[t] = "ev_remove"
    /\ Live(cent[t])
    /\ index[ekey[cent[t]]] # None
    /\ index' = [index EXCEPT ![ekey[cent[t]]] = None]
    /\ Release(cent[t])
    /\ EndEvict(t)
    /\ UNCHANGED replVars

----------------------------------------------------------------------------
(* vmemcache_evict with a key *)

EvictKeyStart(t, k) == "evict_key" \in Ops[t] /\ IndexGet(t, k, "evk_cas")

\* Faulty variant: the loser keeps its reference.
EvictKeyClaim_NoRelease(t) ==
    /\ cpc[t] = "evk_cas"
    /\ Live(cent[t])
    /\ \/ /\ ~evicting[cent[t]]
          /\ CGoto(t, "evk_cb")
          /\ UNCHANGED <<ckey, pent, cent>>
       \/ evicting[cent[t]] /\ EndOp(t)
    /\ evicting' = [evicting EXCEPT ![cent[t]] = TRUE]
    /\ UNCHANGED <<replVars, index, ekey, refcount, units, heap, orphans>>

\* Only one thread evicts an entry.
EvictKeyClaim(t) ==
    /\ cpc[t] = "evk_cas"
    /\ Live(cent[t])
    /\ \/ ~evicting[cent[t]] /\ CGoto(t, "evk_cb")
       \/ evicting[cent[t]] /\ CGoto(t, "evk_lost")
    /\ evicting' = [evicting EXCEPT ![cent[t]] = TRUE]
    /\ UNCHANGED <<replVars, index, ekey, refcount, units, heap, ckey, pent, cent,
                   orphans>>

\* The others release it and report success.
EvictKeyLost(t) ==
    /\ cpc[t] = "evk_lost"
    /\ Live(cent[t])
    /\ Release(cent[t])
    /\ EndOp(t)
    /\ UNCHANGED <<replVars, index>>

\* on_evict returns; the policy is asked to give up this entry.
EvictKeyRepl(t) ==
    /\ cpc[t] = "evk_cb"
    /\ Live(cent[t])
    /\ \/ policy = "LRU" /\ EvictLock(t, cent[t]) /\ CGoto(t, "evk_wait")
       \/ /\ policy = "NONE" /\ repl_p_none_evict(cent[t]) # None
          /\ CGoto(t, "evk_rel")
          /\ UNCHANGED replVars
    /\ UNCHANGED <<index, entryVars, heap, ckey, pent, cent, orphans>>

EvictKeyAnswer(t) ==
    /\ cpc[t] = "evk_wait"
    /\ Return(t)
    /\ \/ rarg[t] = None /\ CGoto(t, "evk_busy")
       \/ rarg[t] # None /\ CGoto(t, "evk_rel")
    /\ UNCHANGED <<index, entryVars, heap, ckey, pent, cent, orphans>>

\* The entry is busy: its reference is released first and its evicting flag is
\* reset afterwards.
EvictKeyBusy(t) ==
    /\ cpc[t] = "evk_busy"
    /\ Live(cent[t])
    /\ Release(cent[t])
    /\ CGoto(t, "evk_reset")
    /\ UNCHANGED <<replVars, index, ckey, pent, cent>>

\* Faulty variant: the policy's pointer is "restored" along with the flag.
EvictKeyReset_Unlocks(t) ==
    /\ cpc[t] = "evk_reset"
    /\ Live(cent[t])
    /\ evicting' = [evicting EXCEPT ![cent[t]] = FALSE]
    /\ p_entry' = [p_entry EXCEPT ![cent[t]] = cent[t]]
    /\ EndOp(t)
    /\ UNCHANGED <<ringVars, node, first, lock, counter, cursor, rpc, rarg, errno,
                   fault, index, ekey, refcount, units, heap, orphans>>

\* ... the flag.
EvictKeyReset(t) ==
    /\ cpc[t] = "evk_reset"
    /\ Live(cent[t])
    /\ evicting' = [evicting EXCEPT ![cent[t]] = FALSE]
    /\ EndOp(t)
    /\ UNCHANGED <<replVars, index, ekey, refcount, units, heap, orphans>>

\* The reference of the policy and the one from the lookup are released, then
\* the entry leaves the index (EvictRemove).
EvictKeyRelease(t) ==
    /\ cpc[t] \in {"evk_rel", "ev_rel"}
    /\ Live(cent[t])
    /\ Release(cent[t])
    /\ CGoto(t, IF cpc[t] = "evk_rel" THEN "ev_rel" ELSE "ev_remove")
    /\ UNCHANGED <<replVars, index, ckey, pent, cent>>

----------------------------------------------------------------------------
\* A thread inside the policy.
Inside(t) ==
    /\ cpc[t] \in {"get_wait", "ev_wait", "evk_wait"}
    /\ ReplStep(t)
    /\ UNCHANGED cacheVars

CStep(t) ==
    \/ PutAlloc(t) \/ PutIndex(t) \/ PutRepl(t) \/ PutIns(t) \/ PutError(t)
    \/ GetUse(t) \/ GetEnd(t) \/ ExistsEnd(t)
    \/ EvictRepl(t) \/ EvictClaim(t) \/ EvictCallback(t) \/ EvictRemove(t)
    \/ EvictKeyClaim(t) \/ EvictKeyLost(t) \/ EvictKeyRepl(t) \/ EvictKeyAnswer(t)
    \/ EvictKeyBusy(t) \/ EvictKeyReset(t) \/ EvictKeyRelease(t)
    \/ Inside(t)

CCall(t) ==
    \/ \E k \in Keys, e \in Entries : PutStart(t, k, e)
    \/ \E k \in Keys : GetStart(t, k) \/ ExistsStart(t, k) \/ EvictKeyStart(t, k)
    \/ EvictStart(t)

CHalted == fault /\ UNCHANGED vars

CNext ==
    \/ ~fault /\ UNCHANGED policy /\ \E t \in Threads : CCall(t) \/ CStep(t)
    \/ CHalted

CSpec == CInit /\ [][CNext]_vars

\* The operating system lets every thread go on that can; nobody has to call.
CFairness == \A t \in Threads : WF_vars(~fault /\ UNCHANGED policy /\ CStep(t))

CFairSpec == CSpec /\ CFairness

----------------------------------------------------------------------------
(* Properties *)

\* Types of the index, the entries, the heap and the threads' places in the
\* public operations.
CacheTypeOK ==
    /\ index \in [Keys -> Entries \cup {None}]
    /\ ekey \in [Entries -> Keys \cup {None}]
    /\ refcount \in [Entries -> 0 .. Cardinality(Threads) + 2]
    /\ evicting \in [Entries -> BOOLEAN]
    /\ units \in [Entries -> 0 .. Pool]
    /\ heap \in 0 .. Pool
    /\ cpc \in [Threads -> CPCs]
    /\ ckey \in [Threads -> Keys \cup {None}]
    /\ pent \in [Threads -> Entries \cup {None}]
    /\ cent \in [Threads -> Entries \cup {None}]
    /\ orphans \subseteq Entries

Indexed(e) == \E k \in Keys : index[k] = e

\* Threads at these places own the reference that vmcache_index_get took.
RefPCs == {"get_use", "get_wait", "ex_rel", "evk_cas", "evk_lost", "evk_cb",
           "evk_wait", "evk_busy", "evk_rel", "ev_rel"}
Holders(e) == {t \in Threads : cent[t] = e /\ cpc[t] \in RefPCs}

\* The reference that repl_p_insert took: it stays with the list node, and goes
\* with the answer of repl_p_evict to the thread that will release it.
PolicyRef(e) ==
    \/ policy = "LRU" /\ e \in Elems(first)
    \/ \E t \in Threads : /\ cpc[t] \in {"ev_wait", "evk_wait"}
                           /\ rpc[t] = "evicted" /\ rarg[t] = e
    \/ \E t \in Threads : cpc[t] \in {"ev_cb", "evk_rel"} /\ cent[t] = e
    \/ e \in orphans
    \/ /\ policy = "NONE" /\ Indexed(e)
       /\ \A t \in Threads : /\ ~(cpc[t] = "put_repl" /\ pent[t] = e)
                             /\ ~(cpc[t] \in {"ev_rel", "ev_remove"} /\ cent[t] = e)

\* refcount is exact: it counts the index, the policy and every thread that
\* still has the entry from a lookup, so vmemcache_entry_release frees an entry
\* when, and only when, nobody can reach it any more.
RefcountExact ==
    \A e \in Entries :
        refcount[e] = (IF Indexed(e) THEN 1 ELSE 0)
                        + (IF PolicyRef(e) THEN 1 ELSE 0)
                        + Cardinality(Holders(e))

\* No thread has a pointer to a freed entry, not even after it released its own
\* reference (evk_reset, ev_remove), and no lookup can return one.
NoUseAfterFree ==
    /\ \A t \in Threads : /\ pent[t] # None => Live(pent[t])
                          /\ cent[t] # None => Live(cent[t])
    /\ \A k \in Keys : index[k] # None => Live(index[k])

\* The index holds complete entries under their own key: the value a lookup
\* hands out is stored in full until the last reader is done.
ReadersSeeWholeValue ==
    /\ \A k \in Keys : index[k] # None =>
          ekey[index[k]] = k /\ units[index[k]] = VSize[k]
    /\ \A t \in Threads : cpc[t] \in {"get_use", "get_wait"} =>
          ekey[cent[t]] = ckey[t] /\ units[cent[t]] = VSize[ckey[t]]

\* The units of the heap that are in some entry's extents.
Allocated == {p \in Entries \X (1 .. Pool + 1) : p[2] <= units[p[1]]}

\* When no call is in progress, what is allocated is what is indexed, and the
\* heap has all the rest: no put, failed or not, and no eviction leaves memory
\* behind or gives it back twice.
QuiescentNoLeak ==
    (\A t \in Threads : cpc[t] = "idle") =>
        /\ \A e \in Entries : Live(e) <=> Indexed(e)
        /\ heap + Cardinality(Allocated) = Pool

\* From the moment an eviction has claimed an entry until it takes it out of the
\* index, the entry is what a lookup of its key finds.  So "until the callback
\* returns, the entry remains available for queries" (on_evict), and what
\* vmcache_index_remove unlinks by key is the entry that is being evicted: no
\* concurrent put or evict of the same key gets in between.
VictimStaysIndexed ==
    \A t \in Threads :
        cpc[t] \in {"ev_cb", "evk_cb", "ev_remove"} => index[ekey[cent[t]]] = cent[t]

\* "verify that all memory is freed" (tests/vmemcache_test_mt.c, free_cache):
\* when no call is in progress, evicting the oldest entry until nothing is left
\* reaches every entry of the cache.
QuiescentEvictable ==
    (\A t \in Threads : cpc[t] = "idle") /\ policy = "LRU" =>
        \A e \in Entries : Indexed(e) => e \in Elems(first)

\* No deadlock and no livelock among the callers: from any point at which all
\* threads are inside put, get, exists or evict, one of these calls returns,
\* although the loops of repl_p_lru_use, of a put that makes room and of the
\* ring's dequeue each wait for what another thread does.
SomeCallEnds ==
    (\A t \in Threads : cpc[t] # "idle") ~> (\E t \in Threads : cpc[t] = "idle")

\* The cache keeps the policy's rules: every step is one of Repl's.
ObeysPolicy == ReplSpec
=============================================================================
