----------------------------- MODULE CacheProofs -----------------------------
(***************************************************************************)
(* Proofs about the operations of the cache (module Cache) and about how   *)
(* they use the policy, for any number of threads, keys and entries, any   *)
(* pool and any length of the ring.                                        *)
(***************************************************************************)
EXTENDS Cache, ReplProofs, FiniteSetTheorems

----------------------------------------------------------------------------
(* The inductive invariant *)

\* The policy "none" is safe only with clients that wait for put to return: an
\* evict(key) before its repl_p_none_insert releases a reference nobody took.
NoneIsDisciplined == "NONE" \in Policies => Disciplined

CTypes ==
    /\ policy \in Policies
    /\ index \in [Keys -> Entries \cup {None}]
    /\ ekey \in [Entries -> Keys \cup {None}]
    /\ refcount \in [Entries -> Int]
    /\ evicting \in [Entries -> BOOLEAN]
    /\ units \in [Entries -> Int]
    /\ heap \in Int
    /\ cpc \in [Threads -> CPCs]
    /\ ckey \in [Threads -> Keys \cup {None}]
    /\ pent \in [Threads -> Entries \cup {None}]
    /\ cent \in [Threads -> Entries \cup {None}]
    /\ orphans \subseteq Entries

PutPCs == {"put_alloc", "put_index", "put_repl", "put_ins", "put_err"}
UsePCs == HoldPCs \cup {"enq_write", "enq_post"}

\* The entries that a thread works on, by its place in the operation.  One that
\* is not in the index any more stays marked: nobody else will evict it.
ThreadEntries(t) ==
    /\ cpc[t] = "idle" => pent[t] = None /\ cent[t] = None
    /\ cpc[t] \in PutPCs => pent[t] # None
    /\ cpc[t] \in PutPCs \cup {"ev_repl", "ev_wait"} => cent[t] = None
    /\ cpc[t] \in RefPCs \cup {"evk_reset"} => pent[t] = None /\ cent[t] # None
    /\ cpc[t] \in {"ev_cb", "ev_remove"} => cent[t] # None
    /\ pent[t] # None => ckey[t] \in Keys /\ ekey[pent[t]] = ckey[t]
    /\ cent[t] # None => ekey[cent[t]] # None /\ units[cent[t]] = VSize[ekey[cent[t]]]
    /\ cent[t] # None => Indexed(cent[t]) \/ evicting[cent[t]]
    /\ cpc[t] \in {"get_use", "get_wait"} => ekey[cent[t]] = ckey[t]
    /\ cpc[t] = "put_index" => units[pent[t]] = VSize[ckey[t]]

\* ... and by its place in the policy.
ThreadInPolicy(t) ==
    /\ rpc[t] = "idle" => rarg[t] = None /\ cpc[t] \notin {"put_ins", "ev_wait", "evk_wait"}
    /\ rpc[t] = "ins_lock" => cpc[t] = "put_ins" /\ rarg[t] = pent[t]
    /\ rpc[t] \in UsePCs => cpc[t] = "get_wait" /\ rarg[t] = cent[t]
    /\ rpc[t] \in {"ev_deq", "ev_second"} =>
          \/ cpc[t] = "ev_wait" /\ rarg[t] = None
          \/ cpc[t] = "evk_wait" /\ rarg[t] = cent[t]
    /\ rpc[t] \in {"ev_scan", "ev_last"} => cpc[t] = "ev_wait" /\ rarg[t] = None
    /\ rpc[t] = "evicted" => \/ cpc[t] = "ev_wait"
                             \/ cpc[t] = "evk_wait" /\ rarg[t] \in {None, cent[t]}

\* A thread has claimed e through its evicting flag.
ClaimPCs == {"ev_cb", "evk_cb", "evk_wait", "evk_busy", "evk_reset", "evk_rel",
             "ev_rel", "ev_remove"}
Claims(t, e) == cpc[t] \in ClaimPCs /\ cent[t] = e

\* repl_p_evict has given e to the thread: its node is gone from the list.
Answered(t, e) ==
    cpc[t] \in {"ev_wait", "evk_wait"} /\ rpc[t] = "evicted" /\ rarg[t] = e
GotVictim(t, e) ==
    \/ Answered(t, e)
    \/ cpc[t] \in {"ev_cb", "evk_rel", "ev_rel", "ev_remove"} /\ cent[t] = e

\* The index holds complete entries under their own key.
IndexInv ==
    \A k \in Keys : index[k] # None => ekey[index[k]] = k /\ units[index[k]] = VSize[k]

\* The entry of a put is the put's alone until it is in the index, and the
\* policy does not know it before the put is over.
PutInv ==
    \A t \in Threads : pent[t] # None =>
        /\ \A u \in Threads : pent[u] = pent[t] => u = t
        /\ Indexed(pent[t]) <=> cpc[t] \in {"put_repl", "put_ins"}
        /\ pent[t] \notin Elems(first) /\ pent[t] \notin orphans
        /\ \A u \in Threads : ~GotVictim(u, pent[t])
        /\ \A u \in Threads : cent[u] = pent[t] =>
              ~Disciplined /\ cpc[t] \in {"put_repl", "put_ins"}

\* One thread claims an entry, and until it removes it the entry is indexed.
ClaimInv ==
    \A t \in Threads, e \in Entries : Claims(t, e) =>
        /\ evicting[e] /\ Indexed(e)
        /\ \A u \in Threads : Claims(u, e) => u = t

\* What the policy knows is indexed, and it gives up an entry once.
VictimInv ==
    /\ \A e \in Elems(first) : Indexed(e)
    /\ \A e \in orphans : Indexed(e) /\ e \notin Elems(first)
    /\ \A t \in Threads, e \in Entries : GotVictim(t, e) =>
          /\ Indexed(e) /\ e \notin Elems(first) /\ e \notin orphans
          /\ \A u \in Threads : GotVictim(u, e) => u = t

\* The policy "none" keeps no state.
NoneInv ==
    policy = "NONE" =>
        /\ Disciplined
        /\ Elems(first) = {} /\ orphans = {}
        /\ \A t \in Threads :
              /\ rpc[t] = "idle"
              /\ cpc[t] \notin {"put_ins", "ev_wait", "evk_wait", "ev_cb", "evk_busy",
                                "evk_reset"}

CInv ==
    /\ CTypes
    /\ \A t \in Threads : ThreadEntries(t)
    /\ ~fault => \A t \in Threads : ThreadInPolicy(t)
    /\ IndexInv /\ PutInv /\ ClaimInv /\ VictimInv /\ NoneInv
    /\ RefcountExact

----------------------------------------------------------------------------
(* What the cache sees of a step of the policy: the process dies, an entry   *)
(* leaves the list and is given to the thread, or nothing but the thread's   *)
(* place in the policy changes.                                              *)

PolicyInv == ReplTypeOK /\ ArgOK /\ NodeOwnership /\ ListInv

RestStays(t) == \A u \in Threads : u # t => rpc'[u] = rpc[u] /\ rarg'[u] = rarg[u]

Faults == fault' /\ Elems(first') = Elems(first) /\ UNCHANGED <<rpc, rarg>>

Gives(t, e) ==
    /\ ~fault'
    /\ e \in Elems(first)
    /\ Elems(first') = Elems(first) \ {e}
    /\ rpc'[t] = "evicted" /\ rarg'[t] = e

Quiet(t) ==
    /\ ~fault'
    /\ Elems(first') = Elems(first)
    /\ rpc'[t] = "evicted" => rarg'[t] = None

\* evict_found_entry.
LEMMA FoundSeen ==
    ASSUME PolicyInv, ~fault, NEW t \in Threads, NEW e, Found(t, e)
    PROVE  RestStays(t) /\ (Faults \/ Gives(t, e))
<1>1. CASE e \in Elems(first)
  <2>1. first \in Seq(Entries) /\ NoDup(first)
    BY DEF PolicyInv, ReplTypeOK, ListInv, ListExact
  <2>2. Elems(Unlink(first, e)) = Elems(first) \ {e}
    BY <1>1, <2>1, UnlinkFacts
  <2> QED  BY <1>1, <2>2 DEF Found, Goto, RestStays, Gives, PolicyInv, ReplTypeOK
<1>2. CASE e \notin Elems(first)
  BY <1>2 DEF Found, RestStays, Faults
<1> QED  BY <1>1, <1>2

\* repl_p_lru_evict up to its first try.
LEMMA EvictLockSeen ==
    ASSUME PolicyInv, ~fault, NEW t \in Threads, NEW x, EvictLock(t, x)
    PROVE  /\ RestStays(t)
           /\ \/ Faults
              \/ \E e \in Elems(first) : Gives(t, e) /\ (x # None => e = x)
              \/ Quiet(t) /\ rpc'[t] = "evicted"
              \/ Quiet(t) /\ rpc'[t] = "ev_deq" /\ rarg'[t] = x
<1>1. CASE first = <<>> /\ GiveUp(t, "ESRCH")
  BY <1>1 DEF GiveUp, Goto, RestStays, Quiet, PolicyInv, ReplTypeOK, listVars
<1>2. CASE first # <<>> /\ Grab(t, Candidate(x))
  <2>1. RestStays(t) /\ (Faults \/ Gives(t, Candidate(x)))
    BY <1>2, FoundSeen DEF Grab
  <2> QED  BY <2>1 DEF Candidate, Gives
<1>3. CASE /\ lock' = t
           /\ Goto(t, "ev_deq")
           /\ rarg' = [rarg EXCEPT ![t] = x]
           /\ UNCHANGED <<ringVars, listVars, counter, cursor, errno, fault>>
  BY <1>3 DEF Goto, RestStays, Quiet, PolicyInv, ReplTypeOK, listVars
<1> QED  BY <1>1, <1>2, <1>3 DEF EvictLock

\* A thread inside the policy.
LEMMA InsideSeen ==
    ASSUME PolicyInv, ~fault, NEW t \in Threads, ThreadInPolicy(t), ThreadEntries(t),
           Inside(t)
    PROVE  /\ RestStays(t)
           /\ \/ Faults
              \/ \E e \in Elems(first) : Gives(t, e) /\ ThreadInPolicy(t)'
              \/ Quiet(t) /\ ThreadInPolicy(t)'
<1>0. UNCHANGED <<cpc, pent, cent>> /\ cpc[t] \in {"get_wait", "ev_wait", "evk_wait"}
  BY DEF Inside, cacheVars
<1> DEFINE Result ==
        /\ RestStays(t)
        /\ \/ Faults
           \/ \E e \in Elems(first) : Gives(t, e) /\ ThreadInPolicy(t)'
           \/ Quiet(t) /\ ThreadInPolicy(t)'
<1> USE DEF PolicyInv, ReplTypeOK
<1>1. ASSUME NEW e, Found(t, e),
             cpc[t] = "ev_wait" \/ (cpc[t] = "evk_wait" /\ e = cent[t])
      PROVE  Result
  <2>1. RestStays(t) /\ (Faults \/ Gives(t, e))
    BY <1>1, FoundSeen
  <2>2. Gives(t, e) => ThreadInPolicy(t)'
    BY <1>0, <1>1 DEF Gives, ThreadInPolicy, UsePCs, HoldPCs
  <2>3. Gives(t, e) => e \in Elems(first)
    BY DEF Gives
  <2> QED  BY <2>1, <2>2, <2>3
<1>2. ASSUME NEW err, GiveUp(t, err), cpc[t] \in {"ev_wait", "evk_wait"}
      PROVE  RestStays(t) /\ Quiet(t) /\ ThreadInPolicy(t)'
  BY <1>0, <1>2 DEF GiveUp, Goto, listVars, RestStays, Quiet, ThreadInPolicy, UsePCs, HoldPCs
<1>3. ~InsertTail(t)
  BY <1>0 DEF InsertTail, ThreadInPolicy
<1>4. ASSUME UseReserve(t) \/ UseFull(t) \/ UseLock(t) \/ EnqClaim(t) \/ EnqWrite(t) \/ EnqPost(t)
      PROVE  RestStays(t) /\ Quiet(t) /\ ThreadInPolicy(t)'
  BY <1>0, <1>4
     DEF UseReserve, UseFull, UseLock, EnqClaim, EnqWrite, EnqPost, Goto, listVars, RestStays,
         Quiet, ThreadInPolicy, UsePCs, HoldPCs
<1>5. ASSUME AfterDequeue(t), rpc[t] \in {"use_deq", "ev_deq"}, UNCHANGED rarg
      PROVE  RestStays(t) /\ rpc'[t] # "evicted" /\ ThreadInPolicy(t)'
  BY <1>0, <1>5 DEF AfterDequeue, Goto, RestStays, ThreadInPolicy, UsePCs, HoldPCs
<1>6. ASSUME DequeueOne(t) PROVE RestStays(t) /\ Quiet(t) /\ ThreadInPolicy(t)'
  <2>1. ring # <<>> /\ first \in Seq(Entries) /\ NoDup(first) /\ ring \in Seq(Entries)
    BY <1>6 DEF DequeueOne, Take, HeadStored, ListInv, ListExact
  <2>2. Head(ring) \in Entries
    BY <2>1, TailFacts
  <2>3. Elems(MoveToTail(first, Head(ring))) = Elems(first)
    BY <2>1, <2>2, MoveToTailFacts
  <2>4. Elems(first') = Elems(first) /\ UNCHANGED <<rarg, fault>>
    BY <1>6, <2>3 DEF DequeueOne
  <2>5. CASE UNCHANGED rpc
    BY <1>0, <1>6, <2>4, <2>5 DEF DequeueOne, RestStays, Quiet, ThreadInPolicy, UsePCs, HoldPCs
  <2>6. CASE AfterDequeue(t)
    BY <1>5, <1>6, <2>4, <2>6 DEF DequeueOne, Quiet
  <2> QED  BY <1>6, <2>5, <2>6 DEF DequeueOne, DequeueAgain
<1>7. ASSUME DequeueNone(t) PROVE RestStays(t) /\ Quiet(t) /\ ThreadInPolicy(t)'
  BY <1>5, <1>7 DEF DequeueNone, Quiet, listVars
<1>8. ASSUME EvictSecond(t)
      PROVE  Result
  <2>0. \/ cpc[t] = "ev_wait" /\ rarg[t] = None
        \/ cpc[t] = "evk_wait" /\ rarg[t] = cent[t] /\ cent[t] # None
    BY <1>8 DEF EvictSecond, ThreadInPolicy, ThreadEntries, RefPCs
  <2>1. CASE Grab(t, Candidate(rarg[t]))
    <3>1. Found(t, Candidate(rarg[t]))
      BY <2>1 DEF Grab
    <3> QED  BY <1>1, <2>0, <3>1 DEF Candidate
  <2>2. CASE GiveUp(t, "EAGAIN")
    BY <1>2, <2>0, <2>2
  <2>3. CASE /\ rarg[t] = None
             /\ Goto(t, "ev_scan")
             /\ UNCHANGED <<ringVars, listVars, lock, counter, rarg, errno, fault>>
    BY <1>0, <2>0, <2>3 DEF Goto, listVars, RestStays, Quiet, ThreadInPolicy, UsePCs, HoldPCs
  <2> QED  BY <1>8, <2>1, <2>2, <2>3 DEF EvictSecond
<1>9. ASSUME EvictScan(t)
      PROVE  Result
  <2>0. cpc[t] = "ev_wait" /\ rarg[t] = None
    BY <1>9 DEF EvictScan, ThreadInPolicy
  <2>1. CASE Grab(t, first[cursor + 1])
    <3>1. Found(t, first[cursor + 1])
      BY <2>1 DEF Grab
    <3> QED  BY <1>1, <2>0, <3>1
  <2>2. CASE UNCHANGED <<ringVars, listVars, lock, counter, rpc, rarg, errno, fault>>
    BY <1>0, <1>9, <2>2 DEF EvictScan, listVars, RestStays, Quiet, ThreadInPolicy, UsePCs, HoldPCs
  <2>3. CASE Goto(t, "ev_last") /\ UNCHANGED <<ringVars, listVars, rarg, fault>>
    BY <1>0, <2>0, <2>3 DEF Goto, listVars, RestStays, Quiet, ThreadInPolicy, UsePCs, HoldPCs
  <2> QED  BY <1>9, <2>1, <2>2, <2>3 DEF EvictScan
<1>10. ASSUME EvictLast(t)
       PROVE  Result
  <2>0. cpc[t] = "ev_wait" /\ rarg[t] = None
    BY <1>10 DEF EvictLast, ThreadInPolicy
  <2>1. CASE Found(t, Head(ring))
    BY <1>1, <2>0, <2>1
  <2>2. CASE GiveUp(t, "ESRCH")
    BY <1>2, <2>0, <2>2
  <2> QED  BY <1>10, <2>1, <2>2 DEF EvictLast
<1>11. Result
  BY <1>3, <1>4, <1>6, <1>7, <1>8, <1>9, <1>10 DEF Inside, ReplStep
<1> QED  BY <1>11

----------------------------------------------------------------------------
(* Counting references *)

IndexRef(e) == IF Indexed(e) THEN 1 ELSE 0
ListRef(e) == IF PolicyRef(e) THEN 1 ELSE 0
ThreadRef(t, e) == IF cent[t] = e /\ cpc[t] \in RefPCs THEN 1 ELSE 0

\* The threads that hold an entry are counted.
LEMMA HoldersCounted ==
    ASSUME NEW e
    PROVE  /\ Cardinality(Holders(e)) \in Nat
           /\ \A t \in Threads : ThreadRef(t, e) = 1 => Cardinality(Holders(e)) >= 1
           /\ \A t, u \in Threads : t # u /\ ThreadRef(t, e) = 1 /\ ThreadRef(u, e) = 1
                 => Cardinality(Holders(e)) >= 2
<1>1. IsFiniteSet(Holders(e))
  <2>1. Holders(e) \subseteq Threads
    BY DEF Holders
  <2> QED  BY <2>1, ThreadsAssumption, FS_Subset
<1>2. Cardinality(Holders(e)) \in Nat
  BY <1>1, FS_CardinalityType
<1>3. ASSUME NEW t \in Threads, ThreadRef(t, e) = 1
      PROVE  /\ t \in Holders(e)
             /\ IsFiniteSet(Holders(e) \ {t})
             /\ Cardinality(Holders(e) \ {t}) = Cardinality(Holders(e)) - 1
             /\ Cardinality(Holders(e) \ {t}) \in Nat
  <2>1. t \in Holders(e)
    BY <1>3 DEF ThreadRef, Holders
  <2>2. IsFiniteSet(Holders(e) \ {t})
    BY <1>1, FS_Subset
  <2>3. Cardinality(Holders(e) \ {t}) \in Nat
    BY <2>2, FS_CardinalityType
  <2> QED  BY <1>1, <2>1, <2>2, <2>3, FS_RemoveElement
<1>4. ASSUME NEW t \in Threads, NEW u \in Threads, t # u,
             ThreadRef(t, e) = 1, ThreadRef(u, e) = 1
      PROVE  Cardinality(Holders(e)) >= 2
  <2>1. u \in Holders(e) \ {t}
    BY <1>3, <1>4
  <2>2. Cardinality((Holders(e) \ {t}) \ {u}) = Cardinality(Holders(e) \ {t}) - 1
    BY <1>3, <1>4, <2>1, FS_RemoveElement
  <2>3. IsFiniteSet((Holders(e) \ {t}) \ {u})
    BY <1>1, FS_Subset
  <2>4. Cardinality((Holders(e) \ {t}) \ {u}) \in Nat
    BY <2>3, FS_CardinalityType
  <2>5. Cardinality(Holders(e) \ {t}) = Cardinality(Holders(e)) - 1
    BY <1>3, <1>4, Zenon
  <2> QED  BY <1>2, <2>2, <2>4, <2>5
<1>5. ASSUME NEW t \in Threads, ThreadRef(t, e) = 1 PROVE Cardinality(Holders(e)) >= 1
  <2>1. /\ Cardinality(Holders(e) \ {t}) = Cardinality(Holders(e)) - 1
        /\ Cardinality(Holders(e) \ {t}) \in Nat
    BY <1>3, <1>5, Zenon
  <2> QED  BY <1>2, <2>1
<1> QED  BY <1>2, <1>4, <1>5

\* One thread moves.
LEMMA HoldersMove ==
    ASSUME NEW e, NEW t \in Threads,
           \A u \in Threads : u # t => cpc'[u] = cpc[u] /\ cent'[u] = cent[u]
    PROVE  /\ Cardinality(Holders(e))' \in Nat /\ Cardinality(Holders(e)) \in Nat
           /\ Cardinality(Holders(e))' + ThreadRef(t, e)
                = Cardinality(Holders(e)) + ThreadRef(t, e)'
<1> DEFINE A == Holders(e)
           B == {u \in Threads : cent'[u] = e /\ cpc'[u] \in RefPCs}
<1>1. Holders(e)' = B
  BY DEF Holders
<1>2. IsFiniteSet(A) /\ IsFiniteSet(B)
  <2>1. A \subseteq Threads /\ B \subseteq Threads
    BY DEF Holders
  <2> QED  BY <2>1, ThreadsAssumption, FS_Subset
<1>3. Cardinality(A) \in Nat /\ Cardinality(B) \in Nat
  BY <1>2, FS_CardinalityType
<1>4. \A u \in Threads : u # t => (u \in A <=> u \in B)
  BY DEF Holders
<1>5. A \subseteq Threads /\ B \subseteq Threads
  BY DEF Holders
<1>6. (t \in A <=> ThreadRef(t, e) = 1) /\ (t \in B <=> ThreadRef(t, e)' = 1)
  BY DEF Holders, ThreadRef
<1>7. ThreadRef(t, e) \in {0, 1} /\ ThreadRef(t, e)' \in {0, 1}
  BY DEF ThreadRef
<1> HIDE DEF A, B
<1>8. CASE t \in A <=> t \in B
  <2>1. A = B
    BY <1>4, <1>5, <1>8
  <2> QED  BY <1>1, <1>3, <1>6, <1>7, <1>8, <2>1 DEF A
<1>9. CASE t \in A /\ t \notin B
  <2>1. B = A \ {t}
    BY <1>4, <1>5, <1>9
  <2>2. Cardinality(B) = Cardinality(A) - 1
    BY <1>2, <1>9, <2>1, FS_RemoveElement
  <2> QED  BY <1>1, <1>3, <1>6, <1>7, <1>9, <2>2 DEF A
<1>10. CASE t \notin A /\ t \in B
  <2>1. B = A \cup {t}
    BY <1>4, <1>5, <1>10
  <2>2. Cardinality(B) = Cardinality(A) + 1
    BY <1>2, <1>10, <2>1, FS_AddElement
  <2> QED  BY <1>1, <1>3, <1>6, <1>7, <1>10, <2>2 DEF A
<1> QED  BY <1>8, <1>9, <1>10

\* The count of an entry, as a bound from below.
LEMMA CountBound ==
    ASSUME RefcountExact, NEW e \in Entries
    PROVE  /\ refcount[e] \in Nat
           /\ refcount[e] >= IndexRef(e) + ListRef(e)
           /\ \A t \in Threads : refcount[e] >= IndexRef(e) + ListRef(e) + ThreadRef(t, e)
           /\ \A t, u \in Threads : t # u =>
                 refcount[e] >= IndexRef(e) + ListRef(e) + ThreadRef(t, e) + ThreadRef(u, e)
           /\ IndexRef(e) \in {0, 1} /\ ListRef(e) \in {0, 1}
           /\ \A t \in Threads : ThreadRef(t, e) \in {0, 1}
<1>1. refcount[e] = IndexRef(e) + ListRef(e) + Cardinality(Holders(e))
  BY DEF RefcountExact, IndexRef, ListRef
<1>2. /\ IndexRef(e) \in {0, 1} /\ ListRef(e) \in {0, 1}
      /\ \A t \in Threads : ThreadRef(t, e) \in {0, 1}
  BY DEF IndexRef, ListRef, ThreadRef
<1> QED  BY <1>1, <1>2, HoldersCounted

\* A step that changes each count by what its references change keeps them exact.
LEMMA ExactStep ==
    ASSUME RefcountExact, NEW t \in Threads, refcount' \in [Entries -> Int],
           \A u \in Threads : u # t => cpc'[u] = cpc[u] /\ cent'[u] = cent[u],
           \A e \in Entries :
               refcount'[e] + IndexRef(e) + ListRef(e) + ThreadRef(t, e)
                 = refcount[e] + IndexRef(e)' + ListRef(e)' + ThreadRef(t, e)'
    PROVE  RefcountExact'
<1> SUFFICES ASSUME NEW e \in Entries
             PROVE  refcount'[e] = IndexRef(e)' + ListRef(e)' + Cardinality(Holders(e))'
  BY DEF RefcountExact, IndexRef, ListRef
<1>1. refcount[e] = IndexRef(e) + ListRef(e) + Cardinality(Holders(e))
  BY DEF RefcountExact, IndexRef, ListRef
<1>2. /\ IndexRef(e) \in {0, 1} /\ ListRef(e) \in {0, 1} /\ ThreadRef(t, e) \in {0, 1}
      /\ IndexRef(e)' \in {0, 1} /\ ListRef(e)' \in {0, 1} /\ ThreadRef(t, e)' \in {0, 1}
  BY DEF IndexRef, ListRef, ThreadRef
<1> QED  BY <1>1, <1>2, HoldersMove

\* vmcache_alloc gives the smaller of two numbers.
LEMMA MinPair ==
    ASSUME NEW a \in Int, NEW b \in Int
    PROVE  Min({a, b}) \in {a, b}
<1> DEFINE m == IF a <= b THEN a ELSE b
<1>1. m \in {a, b} /\ \A y \in {a, b} : m <= y
  OBVIOUS
<1> QED  BY <1>1 DEF Min

\* An entry that nobody knows yet has the count zero.
LEMMA FreshCount ==
    ASSUME RefcountExact, NEW e \in Entries, ~Indexed(e), ~PolicyRef(e),
           \A u \in Threads : cent[u] # e
    PROVE  refcount[e] = 0
<1>1. Holders(e) = {}
  BY DEF Holders
<1> QED  BY <1>1, FS_EmptySet DEF RefcountExact

\* Counters stay numbers.
LEMMA IntUpdate ==
    ASSUME NEW S, NEW f \in [S -> Int], NEW x, NEW n \in Int
    PROVE  [f EXCEPT ![x] = n] \in [S -> Int]
OBVIOUS

----------------------------------------------------------------------------
(* Every operation of the cache keeps the invariant: one step per action,    *)
(* or per way it can go, and under it one per part of the invariant.          *)

\* vmemcache_put.
LEMMA PutKeeps ==
    ASSUME CInv, PolicyInv, ~fault, UNCHANGED policy, NEW t \in Threads,
           \/ \E k \in Keys, e \in Entries : PutStart(t, k, e)
           \/ PutAlloc(t) \/ PutIndex(t) \/ PutRepl(t) \/ PutIns(t) \/ PutError(t)
    PROVE  CInv'
<1> USE ConstantsAssumption, CacheAssumption
    DEF CInv, CTypes, CGoto, EndOp, replVars, listVars, entryVars
<1>1. ASSUME NEW k \in Keys, NEW e \in Entries, PutStart(t, k, e) PROVE CInv'
  <2>1. CTypes'
    BY <1>1 DEF PutStart, CPCs
  <2>2. \A u \in Threads : ThreadEntries(u)'
    BY <1>1 DEF PutStart, ThreadEntries, PutPCs, RefPCs, Indexed
  <2>3. \A u \in Threads : ThreadInPolicy(u)'
    BY <1>1 DEF PutStart, ThreadInPolicy, UsePCs, HoldPCs, PolicyInv, ReplTypeOK
  <2>4. IndexInv'
    BY <1>1 DEF PutStart, IndexInv
  <2>5. PutInv'
    BY <1>1 DEF PutStart, PutInv, Indexed, GotVictim, Answered, VictimInv
  <2>6. ClaimInv'
    BY <1>1 DEF PutStart, ClaimInv, Claims, ClaimPCs, Indexed
  <2>7. VictimInv'
    BY <1>1 DEF PutStart, VictimInv, GotVictim, Answered, Indexed
  <2>8. NoneInv'
    BY <1>1 DEF PutStart, NoneInv
  <2>9. RefcountExact'
    <3>1. \A x \in Entries : Indexed(x)' <=> Indexed(x)
      BY <1>1 DEF PutStart, Indexed
    <3>2. \A x \in Entries : PolicyRef(x)' <=> PolicyRef(x)
      BY <1>1, <3>1 DEF PutStart, PolicyRef, Indexed
    <3>3. \A x \in Entries :
            refcount'[x] + IndexRef(x) + ListRef(x) + ThreadRef(t, x)
              = refcount[x] + IndexRef(x)' + ListRef(x)' + ThreadRef(t, x)'
      BY <1>1, <3>1, <3>2 DEF PutStart, IndexRef, ListRef, ThreadRef, RefPCs
    <3>4. \A u \in Threads : u # t => cpc'[u] = cpc[u] /\ cent'[u] = cent[u]
      BY <1>1 DEF PutStart
    <3> QED  BY <2>1, <3>3, <3>4, ExactStep
  <2> QED  BY <2>1, <2>2, <2>3, <2>4, <2>5, <2>6, <2>7, <2>8, <2>9
<1>2. ASSUME PutAlloc(t) PROVE CInv'
  <2>1. /\ pent[t] \in Entries /\ ckey[t] \in Keys /\ cpc[t] = "put_alloc"
        /\ VSize[ckey[t]] \in Int /\ units[pent[t]] \in Int
    BY <1>2 DEF PutAlloc, ThreadEntries, PutPCs
  <2>2. PICK n \in Int :
          /\ units' = [units EXCEPT ![pent[t]] = units[pent[t]] + n]
          /\ heap' = heap - n
          /\ \/ n = VSize[ckey[t]] - units[pent[t]] /\ cpc' = [cpc EXCEPT ![t] = "put_index"]
             \/ cpc' = cpc
             \/ cpc' = [cpc EXCEPT ![t] = "ev_repl"]
    <3>1. Min({VSize[ckey[t]] - units[pent[t]], heap}) \in Int
      BY <2>1, MinPair
    <3> DEFINE n == Min({VSize[ckey[t]] - units[pent[t]], heap})
    <3>2. /\ units' = [units EXCEPT ![pent[t]] = units[pent[t]] + n]
          /\ heap' = heap - n
          /\ \/ n = VSize[ckey[t]] - units[pent[t]] /\ cpc' = [cpc EXCEPT ![t] = "put_index"]
             \/ cpc' = cpc
             \/ cpc' = [cpc EXCEPT ![t] = "ev_repl"]
      BY <1>2 DEF PutAlloc
    <3> HIDE DEF n
    <3> QED  BY <3>1, <3>2 DEF n
  <2>3. /\ UNCHANGED <<replVars, index, ekey, refcount, evicting, ckey, pent, cent, orphans>>
        /\ pent[t] \in Entries /\ ckey[t] \in Keys /\ cpc[t] = "put_alloc"
        /\ VSize[ckey[t]] \in Int /\ units[pent[t]] \in Int
    BY <1>2, <2>1 DEF PutAlloc
  <2>4. CTypes'
    <3>1. units' \in [Entries -> Int] /\ heap' \in Int
      BY <2>2, <2>3
    <3>2. cpc' \in [Threads -> CPCs]
      BY <2>2 DEF CPCs
    <3> QED  BY <2>3, <3>1, <3>2
  <2>5. \A u \in Threads : ThreadEntries(u)'
    BY <1>2, <2>2, <2>3 DEF replVars, ThreadEntries, PutPCs, RefPCs, Indexed, PutInv
  <2>6. \A u \in Threads : ThreadInPolicy(u)'
    BY <1>2, <2>2, <2>3 DEF replVars, ThreadInPolicy, UsePCs, HoldPCs, PolicyInv, ReplTypeOK
  <2>7. IndexInv'
    BY <1>2, <2>2, <2>3 DEF replVars, IndexInv, PutInv, Indexed, ThreadEntries, PutPCs
  <2>8. PutInv'
    BY <1>2, <2>2, <2>3 DEF replVars, PutInv, Indexed, GotVictim, Answered, ThreadEntries,
       PutPCs
  <2>9. ClaimInv'
    BY <1>2, <2>2, <2>3 DEF replVars, ClaimInv, Claims, ClaimPCs, Indexed
  <2>10. VictimInv'
    BY <1>2, <2>2, <2>3 DEF replVars, VictimInv, GotVictim, Answered, Indexed
  <2>11. NoneInv'
    BY <1>2, <2>2, <2>3 DEF replVars, NoneInv
  <2>12. RefcountExact'
    <3>1. \A x \in Entries : Indexed(x)' <=> Indexed(x)
      BY <1>2, <2>2, <2>3 DEF replVars, Indexed
    <3>2. \A x \in Entries : PolicyRef(x)' <=> PolicyRef(x)
      BY <1>2, <2>2, <2>3, <3>1 DEF replVars, PolicyRef
    <3>3. \A x \in Entries :
            refcount'[x] + IndexRef(x) + ListRef(x) + ThreadRef(t, x)
              = refcount[x] + IndexRef(x)' + ListRef(x)' + ThreadRef(t, x)'
      BY <1>2, <2>2, <2>3, <3>1, <3>2 DEF replVars, IndexRef, ListRef, ThreadRef, RefPCs
    <3>4. \A u \in Threads : u # t => cpc'[u] = cpc[u] /\ cent'[u] = cent[u]
      BY <1>2, <2>2, <2>3 DEF replVars
    <3> QED  BY <2>4, <3>3, <3>4, ExactStep
  <2> QED  BY <2>4, <2>5, <2>6, <2>7, <2>8, <2>9, <2>10, <2>11, <2>12
<1>3. ASSUME PutError(t) PROVE CInv'
  <2>1. CTypes'
    BY <1>3 DEF PutError, FreeEntry, CPCs, ThreadEntries, PutPCs
  <2>2. \A u \in Threads : ThreadEntries(u)'
    BY <1>3 DEF PutError, FreeEntry, ThreadEntries, PutPCs, RefPCs, Indexed, PutInv
  <2>3. \A u \in Threads : ThreadInPolicy(u)'
    BY <1>3 DEF PutError, FreeEntry, ThreadInPolicy, UsePCs, HoldPCs, PolicyInv, ReplTypeOK
  <2>4. IndexInv'
    BY <1>3 DEF PutError, FreeEntry, IndexInv, PutInv, Indexed
  <2>5. PutInv'
    BY <1>3 DEF PutError, FreeEntry, PutInv, Indexed, GotVictim, Answered, ThreadEntries,
       PutPCs
  <2>6. ClaimInv'
    BY <1>3 DEF PutError, FreeEntry, ClaimInv, Claims, ClaimPCs, Indexed, PutInv
  <2>7. VictimInv'
    BY <1>3 DEF PutError, FreeEntry, VictimInv, GotVictim, Answered, Indexed, PutInv
  <2>8. NoneInv'
    BY <1>3 DEF PutError, FreeEntry, NoneInv
  <2>9. RefcountExact'
    <3>1. \A x \in Entries : Indexed(x)' <=> Indexed(x)
      BY <1>3 DEF PutError, FreeEntry, Indexed
    <3>2. \A x \in Entries : PolicyRef(x)' <=> PolicyRef(x)
      BY <1>3, <3>1 DEF PutError, FreeEntry, PolicyRef, PutInv, ThreadEntries, PutPCs
    <3>3. \A x \in Entries :
            refcount'[x] + IndexRef(x) + ListRef(x) + ThreadRef(t, x)
              = refcount[x] + IndexRef(x)' + ListRef(x)' + ThreadRef(t, x)'
      BY <1>3, <3>1, <3>2 DEF PutError, FreeEntry, IndexRef, ListRef, ThreadRef, RefPCs
    <3>4. \A u \in Threads : u # t => cpc'[u] = cpc[u] /\ cent'[u] = cent[u]
      BY <1>3 DEF PutError, FreeEntry
    <3> QED  BY <2>1, <3>3, <3>4, ExactStep
  <2> QED  BY <2>1, <2>2, <2>3, <2>4, <2>5, <2>6, <2>7, <2>8, <2>9
<1>4. ASSUME PutIndex(t), index[ckey[t]] = None,
             index' = [index EXCEPT ![ckey[t]] = pent[t]],
             refcount' = [refcount EXCEPT ![pent[t]] = 1], CGoto(t, "put_repl")
      PROVE CInv'
  <2>1. /\ pent[t] \in Entries /\ ckey[t] \in Keys /\ ~Indexed(pent[t])
        /\ pent[t] \notin Elems(first) /\ pent[t] \notin orphans
        /\ \A u \in Threads : cent[u] # pent[t] /\ ~GotVictim(u, pent[t])
    BY <1>4 DEF PutIndex, ThreadEntries, PutPCs, PutInv
  <2>2. ~PolicyRef(pent[t]) /\ refcount[pent[t]] = 0
    <3>1. ~PolicyRef(pent[t])
      BY <2>1 DEF PolicyRef, GotVictim, Answered
    <3> QED  BY <2>1, <3>1, FreshCount
  <2>3. CTypes'
    BY <1>4, <2>1 DEF PutIndex, CPCs
  <2>4. \A u \in Threads : ThreadEntries(u)'
    BY <1>4 DEF PutIndex, ThreadEntries, PutPCs, RefPCs, Indexed, PutInv
  <2>5. \A u \in Threads : ThreadInPolicy(u)'
    BY <1>4 DEF PutIndex, ThreadInPolicy, UsePCs, HoldPCs, PolicyInv, ReplTypeOK
  <2>6. IndexInv'
    BY <1>4 DEF PutIndex, IndexInv, PutInv, Indexed, ThreadEntries, PutPCs
  <2>7. PutInv'
    BY <1>4 DEF PutIndex, PutInv, Indexed, GotVictim, Answered, ThreadEntries, PutPCs,
       IndexInv
  <2>8. ClaimInv'
    BY <1>4 DEF PutIndex, ClaimInv, Claims, ClaimPCs, Indexed, PutInv
  <2>9. VictimInv'
    <3>1. \A x \in Entries : Indexed(x) => Indexed(x)'
      BY <1>4, <2>1 DEF PutIndex, Indexed
    <3>2. \A u \in Threads, x \in Entries : GotVictim(u, x)' => GotVictim(u, x)
      BY <1>4 DEF PutIndex, GotVictim, Answered
    <3>3. Elems(first) \subseteq Entries /\ first' = first /\ orphans' = orphans
      BY <1>4 DEF PutIndex, Elems, PolicyInv, ReplTypeOK
    <3> QED  BY <3>1, <3>2, <3>3 DEF VictimInv
  <2>10. NoneInv'
    BY <1>4 DEF PutIndex, NoneInv
  <2>11. RefcountExact'
    <3>1. \A x \in Entries : Indexed(x)' <=> Indexed(x) \/ x = pent[t]
      BY <1>4, <2>1 DEF PutIndex, Indexed
    <3>2. \A x \in Entries : PolicyRef(x)' <=> PolicyRef(x)
      BY <1>4, <3>1, <2>1, <2>2 DEF PutIndex, PolicyRef, GotVictim
    <3>3. \A x \in Entries :
            refcount'[x] + IndexRef(x) + ListRef(x) + ThreadRef(t, x)
              = refcount[x] + IndexRef(x)' + ListRef(x)' + ThreadRef(t, x)'
      BY <1>4, <3>1, <3>2, <2>1, <2>2 DEF PutIndex, IndexRef, ListRef, ThreadRef, RefPCs
    <3>4. \A u \in Threads : u # t => cpc'[u] = cpc[u] /\ cent'[u] = cent[u]
      BY <1>4 DEF PutIndex
    <3> QED  BY <2>3, <3>3, <3>4, ExactStep
  <2> QED  BY <2>3, <2>4, <2>5, <2>6, <2>7, <2>8, <2>9, <2>10, <2>11
<1>5. ASSUME PutIndex(t), CGoto(t, "put_err"), UNCHANGED <<index, refcount>>
      PROVE CInv'
  <2>1. CTypes'
    BY <1>5 DEF PutIndex, CPCs
  <2>2. \A u \in Threads : ThreadEntries(u)'
    BY <1>5 DEF PutIndex, ThreadEntries, PutPCs, RefPCs, Indexed, PutInv
  <2>3. \A u \in Threads : ThreadInPolicy(u)'
    BY <1>5 DEF PutIndex, ThreadInPolicy, UsePCs, HoldPCs, PolicyInv, ReplTypeOK
  <2>4. IndexInv'
    BY <1>5 DEF PutIndex, IndexInv
  <2>5. PutInv'
    BY <1>5 DEF PutIndex, PutInv, Indexed, GotVictim, Answered, ThreadEntries, PutPCs,
       IndexInv
  <2>6. ClaimInv'
    BY <1>5 DEF PutIndex, ClaimInv, Claims, ClaimPCs, Indexed
  <2>7. VictimInv'
    BY <1>5 DEF PutIndex, VictimInv, GotVictim, Answered, Indexed
  <2>8. NoneInv'
    BY <1>5 DEF PutIndex, NoneInv
  <2>9. RefcountExact'
    <3>1. \A x \in Entries : Indexed(x)' <=> Indexed(x)
      BY <1>5 DEF PutIndex, Indexed
    <3>2. \A x \in Entries : PolicyRef(x)' <=> PolicyRef(x)
      BY <1>5, <3>1 DEF PutIndex, PolicyRef
    <3>3. \A x \in Entries :
            refcount'[x] + IndexRef(x) + ListRef(x) + ThreadRef(t, x)
              = refcount[x] + IndexRef(x)' + ListRef(x)' + ThreadRef(t, x)'
      BY <1>5, <3>1, <3>2 DEF PutIndex, IndexRef, ListRef, ThreadRef, RefPCs
    <3>4. \A u \in Threads : u # t => cpc'[u] = cpc[u] /\ cent'[u] = cent[u]
      BY <1>5 DEF PutIndex
    <3> QED  BY <2>1, <3>3, <3>4, ExactStep
  <2> QED  BY <2>1, <2>2, <2>3, <2>4, <2>5, <2>6, <2>7, <2>8, <2>9
<1>6. ASSUME PutRepl(t), InsertNode(t, pent[t]), CGoto(t, "put_ins"), policy = "LRU",
             UNCHANGED <<refcount, ckey, pent, cent>>
      PROVE CInv'
  <2>1. CTypes'
    BY <1>6 DEF PutRepl, InsertNode, Goto, CPCs
  <2>2. \A u \in Threads : ThreadEntries(u)'
    BY <1>6 DEF PutRepl, InsertNode, Goto, ThreadEntries, PutPCs, RefPCs, Indexed
  <2>3. \A u \in Threads : ThreadInPolicy(u)'
    BY <1>6 DEF PutRepl, InsertNode, Goto, ThreadInPolicy, UsePCs, HoldPCs, PolicyInv,
       ReplTypeOK, ThreadEntries, PutPCs
  <2>4. IndexInv'
    BY <1>6 DEF PutRepl, InsertNode, Goto, IndexInv
  <2>5. PutInv'
    BY <1>6 DEF PutRepl, InsertNode, Goto, PutInv, Indexed, GotVictim, Answered,
       ThreadEntries, PutPCs
  <2>6. ClaimInv'
    BY <1>6 DEF PutRepl, InsertNode, Goto, ClaimInv, Claims, ClaimPCs, Indexed
  <2>7. VictimInv'
    BY <1>6 DEF PutRepl, InsertNode, Goto, VictimInv, GotVictim, Answered, Indexed
  <2>8. NoneInv'
    BY <1>6 DEF PutRepl, InsertNode, Goto, NoneInv
  <2>9. RefcountExact'
    <3>1. \A x \in Entries : Indexed(x)' <=> Indexed(x)
      BY <1>6 DEF PutRepl, InsertNode, Goto, Indexed
    <3>2. \A x \in Entries : PolicyRef(x)' <=> PolicyRef(x)
      BY <1>6, <3>1 DEF PutRepl, InsertNode, Goto, PolicyRef
    <3>3. \A x \in Entries :
            refcount'[x] + IndexRef(x) + ListRef(x) + ThreadRef(t, x)
              = refcount[x] + IndexRef(x)' + ListRef(x)' + ThreadRef(t, x)'
      BY <1>6, <3>1, <3>2 DEF PutRepl, InsertNode, Goto, IndexRef, ListRef, ThreadRef,
         RefPCs
    <3>4. \A u \in Threads : u # t => cpc'[u] = cpc[u] /\ cent'[u] = cent[u]
      BY <1>6 DEF PutRepl, InsertNode, Goto
    <3> QED  BY <2>1, <3>3, <3>4, ExactStep
  <2> QED  BY <2>1, <2>2, <2>3, <2>4, <2>5, <2>6, <2>7, <2>8, <2>9
<1>7. ASSUME PutRepl(t), EndOp(t), policy = "LRU", UNCHANGED <<replVars, refcount>>
      PROVE CInv'
  <2>1. CTypes'
    BY <1>7 DEF PutRepl, CPCs
  <2>2. \A u \in Threads : ThreadEntries(u)'
    BY <1>7 DEF PutRepl, ThreadEntries, PutPCs, RefPCs, Indexed
  <2>3. \A u \in Threads : ThreadInPolicy(u)'
    BY <1>7 DEF PutRepl, ThreadInPolicy, UsePCs, HoldPCs, PolicyInv, ReplTypeOK
  <2>4. IndexInv'
    BY <1>7 DEF PutRepl, IndexInv
  <2>5. PutInv'
    BY <1>7 DEF PutRepl, PutInv, Indexed, GotVictim, Answered, ThreadEntries, PutPCs
  <2>6. ClaimInv'
    BY <1>7 DEF PutRepl, ClaimInv, Claims, ClaimPCs, Indexed
  <2>7. VictimInv'
    BY <1>7 DEF PutRepl, VictimInv, GotVictim, Answered, Indexed
  <2>8. NoneInv'
    BY <1>7 DEF PutRepl, NoneInv
  <2>9. RefcountExact'
    <3>1. \A x \in Entries : Indexed(x)' <=> Indexed(x)
      BY <1>7 DEF PutRepl, Indexed
    <3>2. \A x \in Entries : PolicyRef(x)' <=> PolicyRef(x)
      BY <1>7, <3>1 DEF PutRepl, PolicyRef
    <3>3. \A x \in Entries :
            refcount'[x] + IndexRef(x) + ListRef(x) + ThreadRef(t, x)
              = refcount[x] + IndexRef(x)' + ListRef(x)' + ThreadRef(t, x)'
      BY <1>7, <3>1, <3>2 DEF PutRepl, IndexRef, ListRef, ThreadRef, RefPCs
    <3>4. \A u \in Threads : u # t => cpc'[u] = cpc[u] /\ cent'[u] = cent[u]
      BY <1>7 DEF PutRepl
    <3> QED  BY <2>1, <3>3, <3>4, ExactStep
  <2> QED  BY <2>1, <2>2, <2>3, <2>4, <2>5, <2>6, <2>7, <2>8, <2>9
<1>8. ASSUME PutRepl(t), repl_p_none_insert(pent[t]), EndOp(t), policy = "NONE"
      PROVE CInv'
  <2>1. /\ pent[t] \in Entries /\ Indexed(pent[t])
        /\ pent[t] \notin Elems(first) /\ pent[t] \notin orphans
        /\ \A u \in Threads : /\ cent[u] # pent[t] /\ ~GotVictim(u, pent[t])
                              /\ pent[u] = pent[t] => u = t
    BY <1>8 DEF PutRepl, ThreadEntries, PutPCs, PutInv, NoneInv
  <2>2. CTypes'
    BY <1>8, <2>1 DEF PutRepl, repl_p_none_insert, Acquire, CPCs
  <2>3. \A u \in Threads : ThreadEntries(u)'
    BY <1>8 DEF PutRepl, repl_p_none_insert, Acquire, ThreadEntries, PutPCs, RefPCs, Indexed
  <2>4. \A u \in Threads : ThreadInPolicy(u)'
    BY <1>8 DEF PutRepl, repl_p_none_insert, Acquire, ThreadInPolicy, UsePCs, HoldPCs,
       PolicyInv, ReplTypeOK, ThreadEntries, PutPCs
  <2>5. IndexInv'
    BY <1>8 DEF PutRepl, repl_p_none_insert, Acquire, IndexInv
  <2>6. PutInv'
    BY <1>8 DEF PutRepl, repl_p_none_insert, Acquire, PutInv, Indexed, GotVictim, Answered,
       ThreadEntries, PutPCs
  <2>7. ClaimInv'
    BY <1>8 DEF PutRepl, repl_p_none_insert, Acquire, ClaimInv, Claims, ClaimPCs, Indexed
  <2>8. VictimInv'
    BY <1>8 DEF PutRepl, repl_p_none_insert, Acquire, VictimInv, GotVictim, Answered,
       Indexed
  <2>9. NoneInv'
    BY <1>8 DEF PutRepl, repl_p_none_insert, Acquire, NoneInv
  <2>10. RefcountExact'
    <3>1. \A x \in Entries : Indexed(x)' <=> Indexed(x)
      BY <1>8 DEF PutRepl, repl_p_none_insert, Acquire, Indexed
    <3>2. \A x \in Entries : PolicyRef(x)' <=> PolicyRef(x) \/ x = pent[t]
      BY <1>8, <3>1, <2>1 DEF PutRepl, repl_p_none_insert, Acquire, PolicyRef
    <3>3. \A x \in Entries :
            refcount'[x] + IndexRef(x) + ListRef(x) + ThreadRef(t, x)
              = refcount[x] + IndexRef(x)' + ListRef(x)' + ThreadRef(t, x)'
      BY <1>8, <3>1, <3>2, <2>1 DEF PutRepl, repl_p_none_insert, Acquire, IndexRef, ListRef,
         ThreadRef, RefPCs, PolicyRef, GotVictim, Answered
    <3>4. \A u \in Threads : u # t => cpc'[u] = cpc[u] /\ cent'[u] = cent[u]
      BY <1>8 DEF PutRepl, repl_p_none_insert, Acquire
    <3> QED  BY <2>2, <3>3, <3>4, ExactStep
  <2> QED  BY <2>2, <2>3, <2>4, <2>5, <2>6, <2>7, <2>8, <2>9, <2>10
<1>9. ASSUME PutIns(t) PROVE CInv'
  <2>1. /\ pent[t] \in Entries /\ Indexed(pent[t]) /\ rarg[t] = pent[t] /\ policy = "LRU"
        /\ pent[t] \notin Elems(first) /\ pent[t] \notin orphans
        /\ \A u \in Threads : /\ ~GotVictim(u, pent[t])
                              /\ pent[u] = pent[t] => u = t
    BY <1>9 DEF PutIns, InsertTail, ThreadEntries, ThreadInPolicy, PutPCs, PutInv, NoneInv
  <2>2. Elems(first') = Elems(first) \cup {pent[t]}
    <3>1. first \in Seq(Entries)
      BY DEF PolicyInv, ReplTypeOK
    <3> QED  BY <1>9, <2>1, <3>1, AppendFacts DEF PutIns, InsertTail
  <2>3. ~PolicyRef(pent[t])
    BY <2>1 DEF PolicyRef, GotVictim, Answered
  <2>4. CTypes'
    BY <1>9 DEF PutIns, InsertTail, Goto, Acquire, CPCs, ThreadEntries, PutPCs
  <2>5. \A u \in Threads : ThreadEntries(u)'
    BY <1>9 DEF PutIns, InsertTail, Goto, Acquire, ThreadEntries, PutPCs, RefPCs, Indexed
  <2>6. \A u \in Threads : ThreadInPolicy(u)'
    BY <1>9, <2>1 DEF PutIns, InsertTail, Goto, Acquire, ThreadInPolicy, UsePCs, HoldPCs,
       PolicyInv, ReplTypeOK, ThreadEntries, PutPCs
  <2>7. IndexInv'
    BY <1>9 DEF PutIns, InsertTail, Goto, Acquire, IndexInv
  <2>8. PutInv'
    BY <1>9, <2>1, <2>2 DEF PutIns, InsertTail, Goto, Acquire, PutInv, Indexed, GotVictim,
       Answered, ThreadEntries, PutPCs
  <2>9. ClaimInv'
    BY <1>9 DEF PutIns, InsertTail, Goto, Acquire, ClaimInv, Claims, ClaimPCs, Indexed
  <2>10. VictimInv'
    BY <1>9, <2>1, <2>2 DEF PutIns, InsertTail, Goto, Acquire, VictimInv, GotVictim,
       Answered, Indexed
  <2>11. NoneInv'
    BY <1>9 DEF PutIns, InsertTail, Goto, Acquire, NoneInv
  <2>12. RefcountExact'
    <3>1. \A x \in Entries : Indexed(x)' <=> Indexed(x)
      BY <1>9 DEF PutIns, InsertTail, Goto, Acquire, Indexed
    <3>2. \A x \in Entries : PolicyRef(x)' <=> PolicyRef(x) \/ x = pent[t]
      BY <1>9, <3>1, <2>1, <2>2 DEF PutIns, InsertTail, Goto, Acquire, PolicyRef
    <3>3. \A x \in Entries :
            refcount'[x] + IndexRef(x) + ListRef(x) + ThreadRef(t, x)
              = refcount[x] + IndexRef(x)' + ListRef(x)' + ThreadRef(t, x)'
      BY <1>9, <3>1, <3>2, <2>1, <2>3 DEF PutIns, InsertTail, Goto, Acquire, IndexRef,
         ListRef, ThreadRef, RefPCs
    <3>4. \A u \in Threads : u # t => cpc'[u] = cpc[u] /\ cent'[u] = cent[u]
      BY <1>9 DEF PutIns, InsertTail, Goto, Acquire
    <3> QED  BY <2>4, <3>3, <3>4, ExactStep
  <2> QED  BY <2>4, <2>5, <2>6, <2>7, <2>8, <2>9, <2>10, <2>11, <2>12
<1> QED  BY <1>1, <1>2, <1>3, <1>4, <1>5, <1>6, <1>7, <1>8, <1>9 DEF PutIndex, PutRepl

\* vmcache_index_get, and the end of the operations that only read: whoever drops
\* the last reference is the only one left who knows the entry.
LEMMA LookupKeeps ==
    ASSUME CInv, PolicyInv, ~fault, UNCHANGED policy, NEW t \in Threads,
           \/ \E k \in Keys, pc \in {"get_use", "ex_rel", "evk_cas"} : IndexGet(t, k, pc)
           \/ GetUse(t)
           \/ /\ cpc[t] \in {"get_wait", "ex_rel", "evk_lost"} /\ rpc[t] = "idle"
              /\ Release(cent[t]) /\ EndOp(t) /\ UNCHANGED <<replVars, index>>
    PROVE  CInv'
<1> USE ConstantsAssumption, CacheAssumption
    DEF CInv, CTypes, CGoto, EndOp, replVars, listVars, entryVars
<1>1. ASSUME NEW k \in Keys, NEW pc \in {"get_use", "ex_rel", "evk_cas"},
             IndexGet(t, k, pc) PROVE CInv'
  <2>1. CTypes'
    BY <1>1 DEF IndexGet, Acquire, CPCs
  <2>2. \A u \in Threads : ThreadEntries(u)'
    BY <1>1 DEF IndexGet, Acquire, ThreadEntries, PutPCs, RefPCs, Indexed, IndexInv
  <2>3. \A u \in Threads : ThreadInPolicy(u)'
    BY <1>1 DEF IndexGet, Acquire, ThreadInPolicy, UsePCs, HoldPCs, PolicyInv, ReplTypeOK
  <2>4. IndexInv'
    BY <1>1 DEF IndexGet, Acquire, IndexInv
  <2>5. PutInv'
    BY <1>1 DEF IndexGet, MayCall, PutInv, Indexed, GotVictim, Answered, IndexInv,
       ThreadEntries
  <2>6. ClaimInv'
    BY <1>1 DEF IndexGet, Acquire, ClaimInv, Claims, ClaimPCs, Indexed
  <2>7. VictimInv'
    BY <1>1 DEF IndexGet, Acquire, VictimInv, GotVictim, Answered, Indexed, ThreadEntries
  <2>8. NoneInv'
    BY <1>1 DEF IndexGet, Acquire, NoneInv
  <2>9. RefcountExact'
    <3>1. \A x \in Entries : Indexed(x)' <=> Indexed(x)
      BY <1>1 DEF IndexGet, Acquire, Indexed
    <3>2. \A x \in Entries : PolicyRef(x)' <=> PolicyRef(x)
      BY <1>1, <3>1 DEF IndexGet, Acquire, PolicyRef, ThreadEntries
    <3>3. \A x \in Entries :
            refcount'[x] + IndexRef(x) + ListRef(x) + ThreadRef(t, x)
              = refcount[x] + IndexRef(x)' + ListRef(x)' + ThreadRef(t, x)'
      BY <1>1, <3>1, <3>2 DEF IndexGet, Acquire, IndexRef, ListRef, ThreadRef, RefPCs,
         ThreadEntries
    <3>4. \A u \in Threads : u # t => cpc'[u] = cpc[u] /\ cent'[u] = cent[u]
      BY <1>1 DEF IndexGet, Acquire
    <3> QED  BY <2>1, <3>3, <3>4, ExactStep
  <2> QED  BY <2>1, <2>2, <2>3, <2>4, <2>5, <2>6, <2>7, <2>8, <2>9
<1>2. ASSUME GetUse(t) PROVE CInv'
  <2>1. CTypes'
    BY <1>2 DEF GetUse, Use, LockEntry, Goto, repl_p_none_use, CPCs
  <2>2. \A u \in Threads : ThreadEntries(u)'
    BY <1>2 DEF GetUse, Use, LockEntry, Goto, repl_p_none_use, ThreadEntries, PutPCs,
       RefPCs, Indexed
  <2>3. \A u \in Threads : ThreadInPolicy(u)'
    BY <1>2 DEF GetUse, Use, LockEntry, Goto, repl_p_none_use, ThreadInPolicy, UsePCs,
       HoldPCs, PolicyInv, ReplTypeOK, ThreadEntries, PutPCs, RefPCs
  <2>4. IndexInv'
    BY <1>2 DEF GetUse, Use, LockEntry, Goto, repl_p_none_use, IndexInv
  <2>5. PutInv'
    BY <1>2 DEF GetUse, Use, LockEntry, Goto, repl_p_none_use, PutInv, Indexed, GotVictim,
       Answered, PolicyInv, ReplTypeOK
  <2>6. ClaimInv'
    BY <1>2 DEF GetUse, Use, LockEntry, Goto, repl_p_none_use, ClaimInv, Claims, ClaimPCs,
       Indexed
  <2>7. VictimInv'
    BY <1>2 DEF GetUse, Use, LockEntry, Goto, repl_p_none_use, VictimInv, GotVictim,
       Answered, Indexed, PolicyInv, ReplTypeOK
  <2>8. NoneInv'
    BY <1>2 DEF GetUse, Use, LockEntry, Goto, repl_p_none_use, NoneInv, ThreadInPolicy,
       UsePCs, HoldPCs
  <2>9. RefcountExact'
    <3>1. /\ UNCHANGED <<index, refcount, cent, pent, first, orphans>>
          /\ cpc[t] = "get_use" /\ cpc' = [cpc EXCEPT ![t] = "get_wait"]
          /\ \A u \in Threads : rpc'[u] = "evicted" <=> rpc[u] = "evicted"
          /\ \A u \in Threads : rpc[u] = "evicted" => rarg'[u] = rarg[u]
      BY <1>2 DEF GetUse, Use, LockEntry, Goto, repl_p_none_use, PolicyInv, ReplTypeOK
    <3>2. \A x \in Entries : PolicyRef(x)' <=> PolicyRef(x)
      BY <3>1 DEF PolicyRef, Indexed
    <3>3. \A x \in Entries :
            refcount'[x] + IndexRef(x) + ListRef(x) + ThreadRef(t, x)
              = refcount[x] + IndexRef(x)' + ListRef(x)' + ThreadRef(t, x)'
      BY <3>1, <3>2 DEF IndexRef, ListRef, ThreadRef, RefPCs, Indexed
    <3> QED  BY <2>1, <3>1, <3>3, ExactStep
  <2> QED  BY <2>1, <2>2, <2>3, <2>4, <2>5, <2>6, <2>7, <2>8, <2>9
<1>3. ASSUME cpc[t] \in {"get_wait", "ex_rel", "evk_lost"}, rpc[t] = "idle",
             Release(cent[t]), EndOp(t), UNCHANGED <<replVars, index>>, refcount[cent[t]] # 1
      PROVE CInv'
  <2>1. CTypes'
    BY <1>3 DEF Release, CPCs, ThreadEntries, RefPCs
  <2>2. \A u \in Threads : ThreadEntries(u)'
    BY <1>3 DEF Release, ThreadEntries, PutPCs, RefPCs, Indexed
  <2>3. \A u \in Threads : ThreadInPolicy(u)'
    BY <1>3 DEF Release, ThreadInPolicy, UsePCs, HoldPCs, PolicyInv, ReplTypeOK
  <2>4. IndexInv'
    BY <1>3 DEF Release, IndexInv
  <2>5. PutInv'
    BY <1>3 DEF Release, PutInv, Indexed, GotVictim, Answered, ThreadEntries
  <2>6. ClaimInv'
    BY <1>3 DEF Release, ClaimInv, Claims, ClaimPCs, Indexed, ThreadEntries
  <2>7. VictimInv'
    BY <1>3 DEF Release, VictimInv, GotVictim, Answered, Indexed, ThreadEntries
  <2>8. NoneInv'
    BY <1>3 DEF Release, NoneInv
  <2>9. RefcountExact'
    <3>1. \A x \in Entries : Indexed(x)' <=> Indexed(x)
      BY <1>3 DEF Release, Indexed
    <3>2. \A x \in Entries : PolicyRef(x)' <=> PolicyRef(x)
      BY <1>3, <3>1 DEF Release, PolicyRef, ThreadEntries
    <3>3. \A x \in Entries :
            refcount'[x] + IndexRef(x) + ListRef(x) + ThreadRef(t, x)
              = refcount[x] + IndexRef(x)' + ListRef(x)' + ThreadRef(t, x)'
      BY <1>3, <3>1, <3>2 DEF Release, IndexRef, ListRef, ThreadRef, RefPCs, ThreadEntries
    <3>4. \A u \in Threads : u # t => cpc'[u] = cpc[u] /\ cent'[u] = cent[u]
      BY <1>3 DEF Release
    <3> QED  BY <2>1, <3>3, <3>4, ExactStep
  <2> QED  BY <2>1, <2>2, <2>3, <2>4, <2>5, <2>6, <2>7, <2>8, <2>9
<1>4. ASSUME cpc[t] \in {"get_wait", "ex_rel", "evk_lost"}, rpc[t] = "idle",
             Release(cent[t]), EndOp(t), UNCHANGED <<replVars, index>>, refcount[cent[t]] = 1
      PROVE CInv'
  <2>1. /\ cent[t] \in Entries /\ ~Indexed(cent[t]) /\ ~PolicyRef(cent[t])
        /\ cent[t] \notin orphans
        /\ \A u \in Threads : pent[u] # cent[t] /\ (u # t => cent[u] # cent[t])
    <3>1. cent[t] \in Entries /\ ThreadRef(t, cent[t]) = 1
      BY <1>4 DEF ThreadEntries, ThreadRef, RefPCs
    <3>2. ~Indexed(cent[t]) /\ ~PolicyRef(cent[t])
      BY <1>4, <3>1, CountBound DEF IndexRef, ListRef
    <3>3. \A u \in Threads : u # t => ThreadRef(u, cent[t]) = 0
      BY <1>4, <3>1, CountBound
    <3>4. \A u \in Threads : pent[u] # cent[t]
      BY <3>1, <3>2 DEF PutInv
    <3>5. \A u \in Threads : u # t => cent[u] # cent[t]
      <4>1. SUFFICES ASSUME NEW u \in Threads, u # t, cent[u] = cent[t] PROVE FALSE
        OBVIOUS
      <4>2. cpc[u] \notin RefPCs
        BY <3>3, <4>1 DEF ThreadRef
      <4>3. ~Claims(u, cent[t])
        BY <3>1, <3>2 DEF ClaimInv
      <4> QED  BY <3>1, <4>1, <4>2, <4>3 DEF Claims, ClaimPCs, RefPCs, ThreadEntries, PutPCs, CPCs
    <3> QED  BY <3>1, <3>2, <3>4, <3>5 DEF PolicyRef
  <2>2. CTypes'
    <3>1. units[cent[t]] \in Int /\ refcount[cent[t]] = 1
      BY <1>4, <2>1
    <3>2. refcount' = [refcount EXCEPT ![cent[t]] = 0] /\ FreeEntry(cent[t])
      BY <1>4, <3>1 DEF Release
    <3>3. heap' \in Int
      BY <3>1, <3>2 DEF FreeEntry
    <3>4. units' \in [Entries -> Int]
      BY <3>2, IntUpdate DEF FreeEntry
    <3>5. refcount' \in [Entries -> Int]
      BY <3>2, IntUpdate
    <3> QED  BY <1>4, <3>2, <3>3, <3>4, <3>5 DEF FreeEntry, CPCs
  <2>3. \A u \in Threads : ThreadEntries(u)'
    BY <1>4, <2>1 DEF Release, FreeEntry, ThreadEntries, PutPCs, RefPCs, Indexed
  <2>4. \A u \in Threads : ThreadInPolicy(u)'
    BY <1>4, <2>1 DEF Release, FreeEntry, ThreadInPolicy, UsePCs, HoldPCs, PolicyInv,
       ReplTypeOK
  <2>5. IndexInv'
    BY <1>4, <2>1 DEF Release, FreeEntry, IndexInv, Indexed
  <2>6. PutInv'
    BY <1>4, <2>1 DEF Release, FreeEntry, PutInv, Indexed, GotVictim, Answered
  <2>7. ClaimInv'
    BY <1>4, <2>1 DEF Release, FreeEntry, ClaimInv, Claims, ClaimPCs, Indexed
  <2>8. VictimInv'
    BY <1>4, <2>1 DEF Release, FreeEntry, VictimInv, GotVictim, Answered, Indexed
  <2>9. NoneInv'
    BY <1>4, <2>1 DEF Release, FreeEntry, NoneInv
  <2>10. RefcountExact'
    <3>1. \A x \in Entries : Indexed(x)' <=> Indexed(x)
      BY <1>4, <2>1 DEF Release, FreeEntry, Indexed
    <3>2. \A x \in Entries : PolicyRef(x)' <=> PolicyRef(x)
      BY <1>4, <2>1, <3>1 DEF Release, FreeEntry, PolicyRef
    <3>3. \A x \in Entries :
            refcount'[x] + IndexRef(x) + ListRef(x) + ThreadRef(t, x)
              = refcount[x] + IndexRef(x)' + ListRef(x)' + ThreadRef(t, x)'
      BY <1>4, <2>1, <3>1, <3>2 DEF Release, FreeEntry, IndexRef, ListRef, ThreadRef,
         RefPCs, ThreadEntries
    <3>4. \A u \in Threads : u # t => cpc'[u] = cpc[u] /\ cent'[u] = cent[u]
      BY <1>4, <2>1 DEF Release, FreeEntry
    <3> QED  BY <2>2, <3>3, <3>4, ExactStep
  <2> QED  BY <2>2, <2>3, <2>4, <2>5, <2>6, <2>7, <2>8, <2>9, <2>10
<1>5. CASE /\ cpc[t] \in {"get_wait", "ex_rel", "evk_lost"} /\ rpc[t] = "idle"
           /\ Release(cent[t]) /\ EndOp(t) /\ UNCHANGED <<replVars, index>>
  <2>1. CASE refcount[cent[t]] = 1
    BY <1>4, <1>5, <2>1
  <2>2. CASE refcount[cent[t]] # 1
    BY <1>3, <1>5, <2>2
  <2> QED  BY <2>1, <2>2
<1>6. ASSUME NEW k \in Keys, NEW pc \in {"get_use", "ex_rel", "evk_cas"}, IndexGet(t, k, pc)
      PROVE  CInv'
  BY <1>1, <1>6
<1> HIDE DEF CInv
<1> QED  BY <1>2, <1>5, <1>6

\* vmemcache_evict of the oldest, outside the policy.
LEMMA EvictKeeps ==
    ASSUME CInv, PolicyInv, ~fault, UNCHANGED policy, NEW t \in Threads,
           \/ EvictStart(t)
           \/ EvictRepl(t) /\ policy = "NONE"
           \/ EvictClaim(t) \/ EvictCallback(t) \/ EvictRemove(t)
    PROVE  CInv'
<1> USE ConstantsAssumption, CacheAssumption
    DEF CInv, CTypes, CGoto, EndOp, replVars, listVars, entryVars
<1>1. ASSUME EvictStart(t) PROVE CInv'
  <2>1. CTypes'
    BY <1>1 DEF EvictStart, CPCs
  <2>2. \A u \in Threads : ThreadEntries(u)'
    BY <1>1 DEF EvictStart, ThreadEntries, PutPCs, RefPCs, Indexed
  <2>3. \A u \in Threads : ThreadInPolicy(u)'
    BY <1>1 DEF EvictStart, ThreadInPolicy, UsePCs, HoldPCs, PolicyInv, ReplTypeOK
  <2>4. IndexInv'
    BY <1>1 DEF EvictStart, IndexInv
  <2>5. PutInv'
    BY <1>1 DEF EvictStart, PutInv, Indexed, GotVictim, Answered
  <2>6. ClaimInv'
    BY <1>1 DEF EvictStart, ClaimInv, Claims, ClaimPCs, Indexed
  <2>7. VictimInv'
    BY <1>1 DEF EvictStart, VictimInv, GotVictim, Answered, Indexed
  <2>8. NoneInv'
    BY <1>1 DEF EvictStart, NoneInv
  <2>9. RefcountExact'
    <3>1. \A x \in Entries : Indexed(x)' <=> Indexed(x)
      BY <1>1 DEF EvictStart, Indexed
    <3>2. \A x \in Entries : PolicyRef(x)' <=> PolicyRef(x)
      BY <1>1, <3>1 DEF EvictStart, PolicyRef
    <3>3. \A x \in Entries :
            refcount'[x] + IndexRef(x) + ListRef(x) + ThreadRef(t, x)
              = refcount[x] + IndexRef(x)' + ListRef(x)' + ThreadRef(t, x)'
      BY <1>1, <3>1, <3>2 DEF EvictStart, IndexRef, ListRef, ThreadRef, RefPCs
    <3>4. \A u \in Threads : u # t => cpc'[u] = cpc[u] /\ cent'[u] = cent[u]
      BY <1>1 DEF EvictStart
    <3> QED  BY <2>1, <3>3, <3>4, ExactStep
  <2> QED  BY <2>1, <2>2, <2>3, <2>4, <2>5, <2>6, <2>7, <2>8, <2>9
<1>2. ASSUME EvictRepl(t), policy = "NONE", NoVictim(t), UNCHANGED replVars
      PROVE CInv'
  <2>1. CTypes'
    BY <1>2 DEF EvictRepl, NoVictim, CPCs
  <2>2. \A u \in Threads : ThreadEntries(u)'
    BY <1>2 DEF EvictRepl, NoVictim, ThreadEntries, PutPCs, RefPCs, Indexed
  <2>3. \A u \in Threads : ThreadInPolicy(u)'
    BY <1>2 DEF EvictRepl, NoVictim, ThreadInPolicy, UsePCs, HoldPCs, PolicyInv, ReplTypeOK
  <2>4. IndexInv'
    BY <1>2 DEF EvictRepl, NoVictim, IndexInv
  <2>5. PutInv'
    BY <1>2 DEF EvictRepl, NoVictim, PutInv, Indexed, GotVictim, Answered, ThreadEntries
  <2>6. ClaimInv'
    BY <1>2 DEF EvictRepl, NoVictim, ClaimInv, Claims, ClaimPCs, Indexed
  <2>7. VictimInv'
    BY <1>2 DEF EvictRepl, NoVictim, VictimInv, GotVictim, Answered, Indexed, ThreadEntries
  <2>8. NoneInv'
    BY <1>2 DEF EvictRepl, NoVictim, NoneInv
  <2>9. RefcountExact'
    <3>1. \A x \in Entries : Indexed(x)' <=> Indexed(x)
      BY <1>2 DEF EvictRepl, NoVictim, Indexed
    <3>2. \A x \in Entries : PolicyRef(x)' <=> PolicyRef(x)
      BY <1>2, <3>1 DEF EvictRepl, NoVictim, PolicyRef
    <3>3. \A x \in Entries :
            refcount'[x] + IndexRef(x) + ListRef(x) + ThreadRef(t, x)
              = refcount[x] + IndexRef(x)' + ListRef(x)' + ThreadRef(t, x)'
      BY <1>2, <3>1, <3>2 DEF EvictRepl, NoVictim, IndexRef, ListRef, ThreadRef, RefPCs
    <3>4. \A u \in Threads : u # t => cpc'[u] = cpc[u] /\ cent'[u] = cent[u]
      BY <1>2 DEF EvictRepl, NoVictim
    <3> QED  BY <2>1, <3>3, <3>4, ExactStep
  <2> QED  BY <2>1, <2>2, <2>3, <2>4, <2>5, <2>6, <2>7, <2>8, <2>9
<1>3. ASSUME EvictClaim(t), rarg[t] = None, NoVictim(t), UNCHANGED <<evicting, orphans>>
      PROVE CInv'
  <2>1. CTypes'
    BY <1>3 DEF EvictClaim, Return, NoVictim, Goto, CPCs
  <2>2. \A u \in Threads : ThreadEntries(u)'
    BY <1>3 DEF EvictClaim, Return, NoVictim, Goto, ThreadEntries, PutPCs, RefPCs, Indexed
  <2>3. \A u \in Threads : ThreadInPolicy(u)'
    BY <1>3 DEF EvictClaim, Return, NoVictim, Goto, ThreadInPolicy, UsePCs, HoldPCs,
       PolicyInv, ReplTypeOK
  <2>4. IndexInv'
    BY <1>3 DEF EvictClaim, Return, NoVictim, Goto, IndexInv
  <2>5. PutInv'
    BY <1>3 DEF EvictClaim, Return, NoVictim, Goto, PutInv, Indexed, GotVictim, Answered,
       ThreadEntries
  <2>6. ClaimInv'
    BY <1>3 DEF EvictClaim, Return, NoVictim, Goto, ClaimInv, Claims, ClaimPCs, Indexed
  <2>7. VictimInv'
    BY <1>3 DEF EvictClaim, Return, NoVictim, Goto, VictimInv, GotVictim, Answered, Indexed,
       ThreadEntries
  <2>8. NoneInv'
    BY <1>3 DEF EvictClaim, Return, NoVictim, Goto, NoneInv
  <2>9. RefcountExact'
    <3>1. \A x \in Entries : Indexed(x)' <=> Indexed(x)
      BY <1>3 DEF EvictClaim, Return, NoVictim, Goto, Indexed
    <3>2. \A x \in Entries : PolicyRef(x)' <=> PolicyRef(x)
      BY <1>3, <3>1 DEF EvictClaim, Return, NoVictim, Goto, PolicyRef
    <3>3. \A x \in Entries :
            refcount'[x] + IndexRef(x) + ListRef(x) + ThreadRef(t, x)
              = refcount[x] + IndexRef(x)' + ListRef(x)' + ThreadRef(t, x)'
      BY <1>3, <3>1, <3>2 DEF EvictClaim, Return, NoVictim, Goto, IndexRef, ListRef,
         ThreadRef, RefPCs
    <3>4. \A u \in Threads : u # t => cpc'[u] = cpc[u] /\ cent'[u] = cent[u]
      BY <1>3 DEF EvictClaim, Return, NoVictim, Goto
    <3> QED  BY <2>1, <3>3, <3>4, ExactStep
  <2> QED  BY <2>1, <2>2, <2>3, <2>4, <2>5, <2>6, <2>7, <2>8, <2>9
<1>4. ASSUME EvictClaim(t), rarg[t] # None, ~evicting[rarg[t]],
             evicting' = [evicting EXCEPT ![rarg[t]] = TRUE],
             cent' = [cent EXCEPT ![t] = rarg[t]], CGoto(t, "ev_cb"),
             UNCHANGED <<ckey, pent, orphans>>
      PROVE CInv'
  <2>1. /\ rarg[t] \in Entries /\ Indexed(rarg[t]) /\ GotVictim(t, rarg[t])
        /\ rarg[t] \notin Elems(first)
        /\ ekey[rarg[t]] # None /\ units[rarg[t]] = VSize[ekey[rarg[t]]]
    <3>1. rarg[t] \in Entries /\ GotVictim(t, rarg[t])
      BY <1>4 DEF EvictClaim, Return, GotVictim, Answered, PolicyInv, ReplTypeOK
    <3>2. Indexed(rarg[t]) /\ rarg[t] \notin Elems(first)
      BY <3>1 DEF VictimInv
    <3> QED  BY <3>1, <3>2 DEF Indexed, IndexInv
  <2>2. CTypes'
    BY <1>4, <2>1 DEF EvictClaim, Return, Goto, CPCs
  <2>3. \A u \in Threads : ThreadEntries(u)'
    BY <1>4, <2>1 DEF EvictClaim, Return, Goto, ThreadEntries, PutPCs, RefPCs, Indexed
  <2>4. \A u \in Threads : ThreadInPolicy(u)'
    BY <1>4, <2>1 DEF EvictClaim, Return, Goto, ThreadInPolicy, UsePCs, HoldPCs, PolicyInv,
       ReplTypeOK
  <2>5. IndexInv'
    BY <1>4, <2>1 DEF EvictClaim, Return, Goto, IndexInv
  <2>6. PutInv'
    BY <1>4, <2>1 DEF EvictClaim, Return, Goto, PutInv, Indexed, GotVictim, Answered,
       ThreadEntries
  <2>7. ClaimInv'
    BY <1>4, <2>1 DEF EvictClaim, Return, Goto, ClaimInv, Claims, ClaimPCs, Indexed
  <2>8. VictimInv'
    BY <1>4, <2>1 DEF EvictClaim, Return, Goto, VictimInv, GotVictim, Answered, Indexed,
       ThreadEntries
  <2>9. NoneInv'
    BY <1>4, <2>1 DEF EvictClaim, Return, Goto, NoneInv
  <2>10. RefcountExact'
    <3>1. \A x \in Entries : Indexed(x)' <=> Indexed(x)
      BY <1>4, <2>1 DEF EvictClaim, Return, Goto, Indexed
    <3>2. \A x \in Entries : PolicyRef(x)' <=> PolicyRef(x)
      BY <1>4, <2>1, <3>1 DEF EvictClaim, Return, Goto, PolicyRef
    <3>3. \A x \in Entries :
            refcount'[x] + IndexRef(x) + ListRef(x) + ThreadRef(t, x)
              = refcount[x] + IndexRef(x)' + ListRef(x)' + ThreadRef(t, x)'
      BY <1>4, <2>1, <3>1, <3>2 DEF EvictClaim, Return, Goto, IndexRef, ListRef, ThreadRef,
         RefPCs
    <3>4. \A u \in Threads : u # t => cpc'[u] = cpc[u] /\ cent'[u] = cent[u]
      BY <1>4, <2>1 DEF EvictClaim, Return, Goto
    <3> QED  BY <2>2, <3>3, <3>4, ExactStep
  <2> QED  BY <2>2, <2>3, <2>4, <2>5, <2>6, <2>7, <2>8, <2>9, <2>10
<1>5. ASSUME EvictClaim(t), rarg[t] # None, evicting[rarg[t]],
             orphans' = orphans \cup {rarg[t]}, CGoto(t, "ev_repl"),
             UNCHANGED <<evicting, ckey, pent, cent>>
      PROVE CInv'
  <2>1. /\ rarg[t] \in Entries /\ Indexed(rarg[t]) /\ GotVictim(t, rarg[t])
        /\ rarg[t] \notin Elems(first)
        /\ ekey[rarg[t]] # None /\ units[rarg[t]] = VSize[ekey[rarg[t]]]
    <3>1. rarg[t] \in Entries /\ GotVictim(t, rarg[t])
      BY <1>5 DEF EvictClaim, Return, GotVictim, Answered, PolicyInv, ReplTypeOK
    <3>2. Indexed(rarg[t]) /\ rarg[t] \notin Elems(first)
      BY <3>1 DEF VictimInv
    <3> QED  BY <3>1, <3>2 DEF Indexed, IndexInv
  <2>2. CTypes'
    BY <1>5, <2>1 DEF EvictClaim, Return, Goto, CPCs
  <2>3. \A u \in Threads : ThreadEntries(u)'
    BY <1>5, <2>1 DEF EvictClaim, Return, Goto, ThreadEntries, PutPCs, RefPCs, Indexed
  <2>4. \A u \in Threads : ThreadInPolicy(u)'
    BY <1>5, <2>1 DEF EvictClaim, Return, Goto, ThreadInPolicy, UsePCs, HoldPCs, PolicyInv,
       ReplTypeOK
  <2>5. IndexInv'
    BY <1>5, <2>1 DEF EvictClaim, Return, Goto, IndexInv
  <2>6. PutInv'
    BY <1>5, <2>1 DEF EvictClaim, Return, Goto, PutInv, Indexed, GotVictim, Answered,
       ThreadEntries
  <2>7. ClaimInv'
    BY <1>5, <2>1 DEF EvictClaim, Return, Goto, ClaimInv, Claims, ClaimPCs, Indexed
  <2>8. VictimInv'
    BY <1>5, <2>1 DEF EvictClaim, Return, Goto, VictimInv, GotVictim, Answered, Indexed,
       ThreadEntries
  <2>9. NoneInv'
    BY <1>5, <2>1 DEF EvictClaim, Return, Goto, NoneInv
  <2>10. RefcountExact'
    <3>1. \A x \in Entries : Indexed(x)' <=> Indexed(x)
      BY <1>5, <2>1 DEF EvictClaim, Return, Goto, Indexed
    <3>2. \A x \in Entries : PolicyRef(x)' <=> PolicyRef(x)
      BY <1>5, <2>1, <3>1 DEF EvictClaim, Return, Goto, PolicyRef
    <3>3. \A x \in Entries :
            refcount'[x] + IndexRef(x) + ListRef(x) + ThreadRef(t, x)
              = refcount[x] + IndexRef(x)' + ListRef(x)' + ThreadRef(t, x)'
      BY <1>5, <2>1, <3>1, <3>2 DEF EvictClaim, Return, Goto, IndexRef, ListRef, ThreadRef,
         RefPCs
    <3>4. \A u \in Threads : u # t => cpc'[u] = cpc[u] /\ cent'[u] = cent[u]
      BY <1>5, <2>1 DEF EvictClaim, Return, Goto
    <3> QED  BY <2>2, <3>3, <3>4, ExactStep
  <2> QED  BY <2>2, <2>3, <2>4, <2>5, <2>6, <2>7, <2>8, <2>9, <2>10
<1>6. ASSUME EvictCallback(t) PROVE CInv'
  <2>1. /\ cent[t] \in Entries /\ Indexed(cent[t]) /\ PolicyRef(cent[t])
        /\ policy = "LRU" /\ refcount[cent[t]] # 1
        /\ cent[t] \notin Elems(first) /\ cent[t] \notin orphans
        /\ \A u \in Threads : GotVictim(u, cent[t]) => u = t
    <3>1. cent[t] \in Entries /\ GotVictim(t, cent[t]) /\ policy = "LRU"
      BY <1>6 DEF EvictCallback, ThreadEntries, GotVictim, NoneInv
    <3>2. PolicyRef(cent[t])
      BY <1>6 DEF EvictCallback, PolicyRef
    <3>3. /\ Indexed(cent[t]) /\ cent[t] \notin Elems(first) /\ cent[t] \notin orphans
          /\ \A u \in Threads : GotVictim(u, cent[t]) => u = t
      BY <3>1 DEF VictimInv
    <3> QED  BY <3>1, <3>2, <3>3, CountBound DEF IndexRef, ListRef
  <2>2. CTypes'
    BY <1>6, <2>1 DEF EvictCallback, Release, CPCs
  <2>3. \A u \in Threads : ThreadEntries(u)'
    BY <1>6, <2>1 DEF EvictCallback, Release, ThreadEntries, PutPCs, RefPCs, Indexed
  <2>4. \A u \in Threads : ThreadInPolicy(u)'
    BY <1>6, <2>1 DEF EvictCallback, Release, ThreadInPolicy, UsePCs, HoldPCs, PolicyInv,
       ReplTypeOK
  <2>5. IndexInv'
    BY <1>6, <2>1 DEF EvictCallback, Release, IndexInv
  <2>6. PutInv'
    BY <1>6, <2>1 DEF EvictCallback, Release, PutInv, Indexed, GotVictim, Answered
  <2>7. ClaimInv'
    BY <1>6, <2>1 DEF EvictCallback, Release, ClaimInv, Claims, ClaimPCs, Indexed
  <2>8. VictimInv'
    BY <1>6, <2>1 DEF EvictCallback, Release, VictimInv, GotVictim, Answered, Indexed
  <2>9. NoneInv'
    BY <1>6, <2>1 DEF EvictCallback, Release, NoneInv
  <2>10. RefcountExact'
    <3>1. \A x \in Entries : Indexed(x)' <=> Indexed(x)
      BY <1>6, <2>1 DEF EvictCallback, Release, Indexed
    <3>2. \A x \in Entries : PolicyRef(x)' <=> PolicyRef(x) /\ x # cent[t]
      BY <1>6, <2>1, <3>1 DEF EvictCallback, Release, PolicyRef, GotVictim, Answered
    <3>3. \A x \in Entries :
            refcount'[x] + IndexRef(x) + ListRef(x) + ThreadRef(t, x)
              = refcount[x] + IndexRef(x)' + ListRef(x)' + ThreadRef(t, x)'
      BY <1>6, <2>1, <3>1, <3>2 DEF EvictCallback, Release, IndexRef, ListRef, ThreadRef,
         RefPCs
    <3>4. \A u \in Threads : u # t => cpc'[u] = cpc[u] /\ cent'[u] = cent[u]
      BY <1>6, <2>1 DEF EvictCallback, Release
    <3> QED  BY <2>2, <3>3, <3>4, ExactStep
  <2> QED  BY <2>2, <2>3, <2>4, <2>5, <2>6, <2>7, <2>8, <2>9, <2>10
<1>7. ASSUME EvictRemove(t), refcount[cent[t]] # 1
      PROVE CInv'
  <2>1. /\ cent[t] \in Entries /\ Indexed(cent[t]) /\ ~PolicyRef(cent[t]) /\ evicting[cent[t]]
        /\ ekey[cent[t]] \in Keys /\ index[ekey[cent[t]]] = cent[t]
        /\ \A k \in Keys : index[k] = cent[t] => k = ekey[cent[t]]
        /\ cent[t] \notin Elems(first) /\ cent[t] \notin orphans
        /\ \A u \in Threads : /\ GotVictim(u, cent[t]) => u = t
                              /\ Claims(u, cent[t]) => u = t
                              /\ pent[u] # cent[t]
    <3>1. cent[t] \in Entries /\ GotVictim(t, cent[t]) /\ Claims(t, cent[t])
      BY <1>7 DEF EvictRemove, ThreadEntries, GotVictim, Claims, ClaimPCs
    <3>2. /\ Indexed(cent[t]) /\ cent[t] \notin Elems(first) /\ cent[t] \notin orphans
          /\ \A u \in Threads : GotVictim(u, cent[t]) => u = t
      BY <3>1 DEF VictimInv
    <3>3. evicting[cent[t]] /\ \A u \in Threads : Claims(u, cent[t]) => u = t
      BY <3>1 DEF ClaimInv
    <3>4. \A u \in Threads : pent[u] # cent[t]
      BY <3>1 DEF PutInv
    <3>5. /\ ekey[cent[t]] \in Keys /\ index[ekey[cent[t]]] = cent[t]
          /\ \A k \in Keys : index[k] = cent[t] => k = ekey[cent[t]]
      BY <3>1, <3>2 DEF IndexInv, Indexed
    <3>6. ~PolicyRef(cent[t])
      BY <1>7, <3>1, <3>2 DEF EvictRemove, PolicyRef, GotVictim, Answered
    <3> QED  BY <3>1, <3>2, <3>3, <3>4, <3>5, <3>6
  <2>2. CTypes'
    BY <1>7, <2>1 DEF EvictRemove, Release, FreeEntry, EndEvict, CPCs
  <2>3. \A u \in Threads : ThreadEntries(u)'
    BY <1>7, <2>1 DEF EvictRemove, Release, FreeEntry, EndEvict, ThreadEntries, PutPCs,
       RefPCs, Indexed, IndexInv
  <2>4. \A u \in Threads : ThreadInPolicy(u)'
    BY <1>7, <2>1 DEF EvictRemove, Release, FreeEntry, EndEvict, ThreadInPolicy, UsePCs,
       HoldPCs, PolicyInv, ReplTypeOK
  <2>5. IndexInv'
    BY <1>7, <2>1 DEF EvictRemove, Release, FreeEntry, EndEvict, IndexInv, Indexed
  <2>6. PutInv'
    BY <1>7, <2>1 DEF EvictRemove, Release, FreeEntry, EndEvict, PutInv, Indexed, GotVictim,
       Answered, ThreadEntries, PutPCs
  <2>7. ClaimInv'
    BY <1>7, <2>1 DEF EvictRemove, Release, FreeEntry, EndEvict, ClaimInv, Claims, ClaimPCs,
       Indexed
  <2>8. VictimInv'
    BY <1>7, <2>1 DEF EvictRemove, Release, FreeEntry, EndEvict, VictimInv, GotVictim,
       Answered, Indexed
  <2>9. NoneInv'
    BY <1>7, <2>1 DEF EvictRemove, Release, FreeEntry, EndEvict, NoneInv
  <2>10. RefcountExact'
    <3>1. \A x \in Entries : Indexed(x)' <=> Indexed(x) /\ x # cent[t]
      BY <1>7, <2>1 DEF EvictRemove, Release, FreeEntry, EndEvict, Indexed
    <3>2. \A x \in Entries : PolicyRef(x)' <=> PolicyRef(x)
      BY <1>7, <2>1, <3>1 DEF EvictRemove, Release, FreeEntry, EndEvict, PolicyRef
    <3>3. \A x \in Entries :
            refcount'[x] + IndexRef(x) + ListRef(x) + ThreadRef(t, x)
              = refcount[x] + IndexRef(x)' + ListRef(x)' + ThreadRef(t, x)'
      BY <1>7, <2>1, <3>1, <3>2 DEF EvictRemove, Release, FreeEntry, EndEvict, IndexRef,
         ListRef, ThreadRef, RefPCs
    <3>4. \A u \in Threads : u # t => cpc'[u] = cpc[u] /\ cent'[u] = cent[u]
      BY <1>7, <2>1 DEF EvictRemove, Release, FreeEntry, EndEvict
    <3> QED  BY <2>2, <3>3, <3>4, ExactStep
  <2> QED  BY <2>2, <2>3, <2>4, <2>5, <2>6, <2>7, <2>8, <2>9, <2>10
<1>8. ASSUME EvictRemove(t), refcount[cent[t]] = 1
      PROVE CInv'
  <2>1. /\ cent[t] \in Entries /\ Indexed(cent[t]) /\ ~PolicyRef(cent[t]) /\ evicting[cent[t]]
        /\ ekey[cent[t]] \in Keys /\ index[ekey[cent[t]]] = cent[t]
        /\ \A k \in Keys : index[k] = cent[t] => k = ekey[cent[t]]
        /\ cent[t] \notin Elems(first) /\ cent[t] \notin orphans
        /\ \A u \in Threads : /\ GotVictim(u, cent[t]) => u = t
                              /\ Claims(u, cent[t]) => u = t
                              /\ pent[u] # cent[t]
                              /\ u # t => cent[u] # cent[t]
    <3>1. cent[t] \in Entries /\ GotVictim(t, cent[t]) /\ Claims(t, cent[t])
      BY <1>8 DEF EvictRemove, ThreadEntries, GotVictim, Claims, ClaimPCs
    <3>2. /\ Indexed(cent[t]) /\ cent[t] \notin Elems(first) /\ cent[t] \notin orphans
          /\ \A u \in Threads : GotVictim(u, cent[t]) => u = t
      BY <3>1 DEF VictimInv
    <3>3. evicting[cent[t]] /\ \A u \in Threads : Claims(u, cent[t]) => u = t
      BY <3>1 DEF ClaimInv
    <3>4. \A u \in Threads : pent[u] # cent[t]
      BY <3>1 DEF PutInv
    <3>5. /\ ekey[cent[t]] \in Keys /\ index[ekey[cent[t]]] = cent[t]
          /\ \A k \in Keys : index[k] = cent[t] => k = ekey[cent[t]]
      BY <3>1, <3>2 DEF IndexInv, Indexed
    <3>6. ~PolicyRef(cent[t])
      BY <1>8, <3>1, <3>2 DEF EvictRemove, PolicyRef, GotVictim, Answered
    <3>7. \A u \in Threads : u # t => cent[u] # cent[t]
      <4>1. SUFFICES ASSUME NEW u \in Threads, u # t, cent[u] = cent[t] PROVE FALSE
        OBVIOUS
      <4>2. ThreadRef(u, cent[t]) = 0
        BY <1>8, <3>1, <3>2, CountBound DEF IndexRef
      <4>3. ~Claims(u, cent[t])
        BY <3>3, <4>1
      <4> QED
        BY <3>1, <4>1, <4>2, <4>3
           DEF ThreadRef, Claims, ClaimPCs, RefPCs, ThreadEntries, PutPCs, CPCs
    <3> QED  BY <3>7, <3>1, <3>2, <3>3, <3>4, <3>5, <3>6
  <2>2. CTypes'
    <3>1. units[cent[t]] \in Int /\ refcount[cent[t]] = 1
      BY <1>8, <2>1
    <3>2. refcount' = [refcount EXCEPT ![cent[t]] = 0] /\ FreeEntry(cent[t])
      BY <1>8, <3>1 DEF EvictRemove, Release
    <3>3. heap' \in Int
      BY <3>1, <3>2 DEF FreeEntry
    <3>4. units' \in [Entries -> Int]
      BY <3>2, IntUpdate DEF FreeEntry
    <3>5. refcount' \in [Entries -> Int]
      BY <3>2, IntUpdate
    <3> QED  BY <1>8, <3>2, <3>3, <3>4, <3>5 DEF EvictRemove, FreeEntry, EndEvict, CPCs
  <2>3. \A u \in Threads : ThreadEntries(u)'
    BY <1>8, <2>1 DEF EvictRemove, Release, FreeEntry, EndEvict, ThreadEntries, PutPCs,
       RefPCs, Indexed, IndexInv
  <2>4. \A u \in Threads : ThreadInPolicy(u)'
    BY <1>8, <2>1 DEF EvictRemove, Release, FreeEntry, EndEvict, ThreadInPolicy, UsePCs,
       HoldPCs, PolicyInv, ReplTypeOK
  <2>5. IndexInv'
    BY <1>8, <2>1 DEF EvictRemove, Release, FreeEntry, EndEvict, IndexInv, Indexed
  <2>6. PutInv'
    BY <1>8, <2>1 DEF EvictRemove, Release, FreeEntry, EndEvict, PutInv, Indexed, GotVictim,
       Answered, ThreadEntries, PutPCs
  <2>7. ClaimInv'
    BY <1>8, <2>1 DEF EvictRemove, Release, FreeEntry, EndEvict, ClaimInv, Claims, ClaimPCs,
       Indexed
  <2>8. VictimInv'
    BY <1>8, <2>1 DEF EvictRemove, Release, FreeEntry, EndEvict, VictimInv, GotVictim,
       Answered, Indexed
  <2>9. NoneInv'
    BY <1>8, <2>1 DEF EvictRemove, Release, FreeEntry, EndEvict, NoneInv
  <2>10. RefcountExact'
    <3>1. \A x \in Entries : Indexed(x)' <=> Indexed(x) /\ x # cent[t]
      BY <1>8, <2>1 DEF EvictRemove, Release, FreeEntry, EndEvict, Indexed
    <3>2. \A x \in Entries : PolicyRef(x)' <=> PolicyRef(x)
      BY <1>8, <2>1, <3>1 DEF EvictRemove, Release, FreeEntry, EndEvict, PolicyRef
    <3>3. \A x \in Entries :
            refcount'[x] + IndexRef(x) + ListRef(x) + ThreadRef(t, x)
              = refcount[x] + IndexRef(x)' + ListRef(x)' + ThreadRef(t, x)'
      BY <1>8, <2>1, <3>1, <3>2 DEF EvictRemove, Release, FreeEntry, EndEvict, IndexRef,
         ListRef, ThreadRef, RefPCs
    <3>4. \A u \in Threads : u # t => cpc'[u] = cpc[u] /\ cent'[u] = cent[u]
      BY <1>8, <2>1 DEF EvictRemove, Release, FreeEntry, EndEvict
    <3> QED  BY <2>2, <3>3, <3>4, ExactStep
  <2> QED  BY <2>2, <2>3, <2>4, <2>5, <2>6, <2>7, <2>8, <2>9, <2>10
<1> QED  BY <1>1, <1>2, <1>3, <1>4, <1>5, <1>6, <1>7, <1>8 DEF EvictRepl, EvictClaim

\* vmemcache_evict of a key, outside the policy.
LEMMA EvictKeyKeeps ==
    ASSUME CInv, PolicyInv, ~fault, UNCHANGED policy, NEW t \in Threads,
           \/ EvictKeyClaim(t)
           \/ EvictKeyRepl(t) /\ policy = "NONE"
           \/ EvictKeyAnswer(t) \/ EvictKeyBusy(t) \/ EvictKeyReset(t)
           \/ EvictKeyRelease(t)
    PROVE  CInv'
<1> USE ConstantsAssumption, CacheAssumption
    DEF CInv, CTypes, CGoto, EndOp, replVars, listVars, entryVars
<1>1. ASSUME EvictKeyClaim(t) PROVE CInv'
  <2>1. CTypes'
    BY <1>1 DEF EvictKeyClaim, CPCs, ThreadEntries, RefPCs
  <2>2. \A u \in Threads : ThreadEntries(u)'
    BY <1>1 DEF EvictKeyClaim, ThreadEntries, PutPCs, RefPCs, Indexed
  <2>3. \A u \in Threads : ThreadInPolicy(u)'
    BY <1>1 DEF EvictKeyClaim, ThreadInPolicy, UsePCs, HoldPCs, PolicyInv, ReplTypeOK
  <2>4. IndexInv'
    BY <1>1 DEF EvictKeyClaim, IndexInv
  <2>5. PutInv'
    BY <1>1 DEF EvictKeyClaim, PutInv, Indexed, GotVictim, Answered, ThreadEntries
  <2>6. ClaimInv'
    BY <1>1 DEF EvictKeyClaim, ClaimInv, Claims, ClaimPCs, Indexed, ThreadEntries, RefPCs
  <2>7. VictimInv'
    BY <1>1 DEF EvictKeyClaim, VictimInv, GotVictim, Answered, Indexed
  <2>8. NoneInv'
    BY <1>1 DEF EvictKeyClaim, NoneInv
  <2>9. RefcountExact'
    <3>1. \A x \in Entries : Indexed(x)' <=> Indexed(x)
      BY <1>1 DEF EvictKeyClaim, Indexed
    <3>2. \A x \in Entries : PolicyRef(x)' <=> PolicyRef(x)
      BY <1>1, <3>1 DEF EvictKeyClaim, PolicyRef
    <3>3. \A x \in Entries :
            refcount'[x] + IndexRef(x) + ListRef(x) + ThreadRef(t, x)
              = refcount[x] + IndexRef(x)' + ListRef(x)' + ThreadRef(t, x)'
      BY <1>1, <3>1, <3>2 DEF EvictKeyClaim, IndexRef, ListRef, ThreadRef, RefPCs
    <3>4. \A u \in Threads : u # t => cpc'[u] = cpc[u] /\ cent'[u] = cent[u]
      BY <1>1 DEF EvictKeyClaim
    <3> QED  BY <2>1, <3>3, <3>4, ExactStep
  <2> QED  BY <2>1, <2>2, <2>3, <2>4, <2>5, <2>6, <2>7, <2>8, <2>9
<1>2. ASSUME EvictKeyRepl(t), policy = "NONE", CGoto(t, "evk_rel"), UNCHANGED replVars
      PROVE CInv'
  <2>1. /\ cent[t] \in Entries /\ Indexed(cent[t])
        /\ cent[t] \notin Elems(first) /\ cent[t] \notin orphans
        /\ \A u \in Threads : Claims(u, cent[t]) => u = t
        /\ \A u \in Threads : pent[u] # cent[t]
        /\ \A u \in Threads : cpc[u] \notin {"ev_wait", "evk_wait"}
    <3>1. cent[t] \in Entries /\ Claims(t, cent[t])
      BY <1>2 DEF EvictKeyRepl, ThreadEntries, RefPCs, Claims, ClaimPCs
    <3>2. Indexed(cent[t]) /\ \A u \in Threads : Claims(u, cent[t]) => u = t
      BY <3>1 DEF ClaimInv
    <3> QED  BY <1>2, <3>1, <3>2 DEF NoneInv, PutInv
  <2>2. CTypes'
    BY <1>2, <2>1 DEF EvictKeyRepl, CPCs
  <2>3. \A u \in Threads : ThreadEntries(u)'
    BY <1>2, <2>1 DEF EvictKeyRepl, ThreadEntries, PutPCs, RefPCs, Indexed
  <2>4. \A u \in Threads : ThreadInPolicy(u)'
    BY <1>2, <2>1 DEF EvictKeyRepl, ThreadInPolicy, UsePCs, HoldPCs, PolicyInv, ReplTypeOK
  <2>5. IndexInv'
    BY <1>2, <2>1 DEF EvictKeyRepl, IndexInv
  <2>6. PutInv'
    BY <1>2, <2>1 DEF EvictKeyRepl, PutInv, Indexed, GotVictim, Answered
  <2>7. ClaimInv'
    BY <1>2, <2>1 DEF EvictKeyRepl, ClaimInv, Claims, ClaimPCs, Indexed
  <2>8. VictimInv'
    <3>1. \A u \in Threads, x \in Entries : x = cent[t] /\ GotVictim(u, x)' => Claims(u, x)
      BY <1>2, <2>1 DEF EvictKeyRepl, GotVictim, Answered, Claims, ClaimPCs
    <3>2. \A u \in Threads, x \in Entries : x = cent[t] /\ GotVictim(u, x)' => u = t
      BY <2>1, <3>1
    <3>3. \A u \in Threads, x \in Entries : x # cent[t] => (GotVictim(u, x)' <=> GotVictim(u, x))
      BY <1>2, <2>1 DEF EvictKeyRepl, GotVictim, Answered
    <3>4. /\ \A x \in Entries : Indexed(x)' <=> Indexed(x)
          /\ Elems(first') = Elems(first) /\ orphans' = orphans
          /\ Elems(first) \subseteq Entries
      BY <1>2 DEF EvictKeyRepl, Indexed, Elems, PolicyInv, ReplTypeOK
    <3>5. ASSUME NEW u \in Threads, NEW x \in Entries, GotVictim(u, x)'
          PROVE  /\ Indexed(x) /\ x \notin Elems(first) /\ x \notin orphans
                 /\ \A v \in Threads : GotVictim(v, x)' => v = u
      <4>1. CASE x = cent[t]
        BY <2>1, <3>2, <3>5, <4>1
      <4>2. CASE x # cent[t]
        BY <3>3, <3>5, <4>2 DEF VictimInv
      <4> QED  BY <4>1, <4>2
    <3> QED  BY <3>4, <3>5 DEF VictimInv
  <2>9. NoneInv'
    BY <1>2, <2>1 DEF EvictKeyRepl, NoneInv
  <2>10. RefcountExact'
    <3>1. \A x \in Entries : Indexed(x)' <=> Indexed(x)
      BY <1>2, <2>1 DEF EvictKeyRepl, Indexed
    <3>2. \A x \in Entries : PolicyRef(x)' <=> PolicyRef(x)
      BY <1>2, <2>1, <3>1 DEF EvictKeyRepl, PolicyRef, Claims, ClaimPCs
    <3>3. \A x \in Entries :
            refcount'[x] + IndexRef(x) + ListRef(x) + ThreadRef(t, x)
              = refcount[x] + IndexRef(x)' + ListRef(x)' + ThreadRef(t, x)'
      BY <1>2, <2>1, <3>1, <3>2 DEF EvictKeyRepl, IndexRef, ListRef, ThreadRef, RefPCs
    <3>4. \A u \in Threads : u # t => cpc'[u] = cpc[u] /\ cent'[u] = cent[u]
      BY <1>2, <2>1 DEF EvictKeyRepl
    <3> QED  BY <2>2, <3>3, <3>4, ExactStep
  <2> QED  BY <2>2, <2>3, <2>4, <2>5, <2>6, <2>7, <2>8, <2>9, <2>10
<1>3. ASSUME EvictKeyAnswer(t), rarg[t] = None, CGoto(t, "evk_busy")
      PROVE CInv'
  <2>1. CTypes'
    BY <1>3 DEF EvictKeyAnswer, Return, Goto, CPCs
  <2>2. \A u \in Threads : ThreadEntries(u)'
    BY <1>3 DEF EvictKeyAnswer, Return, Goto, ThreadEntries, PutPCs, RefPCs, Indexed
  <2>3. \A u \in Threads : ThreadInPolicy(u)'
    BY <1>3 DEF EvictKeyAnswer, Return, Goto, ThreadInPolicy, UsePCs, HoldPCs, PolicyInv,
       ReplTypeOK
  <2>4. IndexInv'
    BY <1>3 DEF EvictKeyAnswer, Return, Goto, IndexInv
  <2>5. PutInv'
    BY <1>3 DEF EvictKeyAnswer, Return, Goto, PutInv, Indexed, GotVictim, Answered,
       PolicyInv, ReplTypeOK, ThreadInPolicy
  <2>6. ClaimInv'
    BY <1>3 DEF EvictKeyAnswer, Return, Goto, ClaimInv, Claims, ClaimPCs, Indexed
  <2>7. VictimInv'
    BY <1>3 DEF EvictKeyAnswer, Return, Goto, VictimInv, GotVictim, Answered, Indexed,
       PolicyInv, ReplTypeOK, ThreadInPolicy
  <2>8. NoneInv'
    BY <1>3 DEF EvictKeyAnswer, Return, Goto, NoneInv
  <2>9. RefcountExact'
    <3>1. \A x \in Entries : Indexed(x)' <=> Indexed(x)
      BY <1>3 DEF EvictKeyAnswer, Return, Goto, Indexed
    <3>2. \A x \in Entries : PolicyRef(x)' <=> PolicyRef(x)
      BY <1>3, <3>1 DEF EvictKeyAnswer, Return, Goto, PolicyRef, PolicyInv, ReplTypeOK,
         ThreadInPolicy
    <3>3. \A x \in Entries :
            refcount'[x] + IndexRef(x) + ListRef(x) + ThreadRef(t, x)
              = refcount[x] + IndexRef(x)' + ListRef(x)' + ThreadRef(t, x)'
      BY <1>3, <3>1, <3>2 DEF EvictKeyAnswer, Return, Goto, IndexRef, ListRef, ThreadRef,
         RefPCs
    <3>4. \A u \in Threads : u # t => cpc'[u] = cpc[u] /\ cent'[u] = cent[u]
      BY <1>3 DEF EvictKeyAnswer, Return, Goto
    <3> QED  BY <2>1, <3>3, <3>4, ExactStep
  <2> QED  BY <2>1, <2>2, <2>3, <2>4, <2>5, <2>6, <2>7, <2>8, <2>9
<1>4. ASSUME EvictKeyAnswer(t), rarg[t] # None, CGoto(t, "evk_rel")
      PROVE CInv'
  <2>1. CTypes'
    BY <1>4 DEF EvictKeyAnswer, Return, Goto, CPCs
  <2>2. \A u \in Threads : ThreadEntries(u)'
    BY <1>4 DEF EvictKeyAnswer, Return, Goto, ThreadEntries, PutPCs, RefPCs, Indexed
  <2>3. \A u \in Threads : ThreadInPolicy(u)'
    BY <1>4 DEF EvictKeyAnswer, Return, Goto, ThreadInPolicy, UsePCs, HoldPCs, PolicyInv,
       ReplTypeOK
  <2>4. IndexInv'
    BY <1>4 DEF EvictKeyAnswer, Return, Goto, IndexInv
  <2>5. PutInv'
    BY <1>4 DEF EvictKeyAnswer, Return, Goto, PutInv, Indexed, GotVictim, Answered,
       PolicyInv, ReplTypeOK, ThreadInPolicy
  <2>6. ClaimInv'
    BY <1>4 DEF EvictKeyAnswer, Return, Goto, ClaimInv, Claims, ClaimPCs, Indexed
  <2>7. VictimInv'
    BY <1>4 DEF EvictKeyAnswer, Return, Goto, VictimInv, GotVictim, Answered, Indexed,
       PolicyInv, ReplTypeOK, ThreadInPolicy
  <2>8. NoneInv'
    BY <1>4 DEF EvictKeyAnswer, Return, Goto, NoneInv
  <2>9. RefcountExact'
    <3>1. \A x \in Entries : Indexed(x)' <=> Indexed(x)
      BY <1>4 DEF EvictKeyAnswer, Return, Goto, Indexed
    <3>2. \A x \in Entries : PolicyRef(x)' <=> PolicyRef(x)
      BY <1>4, <3>1 DEF EvictKeyAnswer, Return, Goto, PolicyRef, PolicyInv, ReplTypeOK,
         ThreadInPolicy
    <3>3. \A x \in Entries :
            refcount'[x] + IndexRef(x) + ListRef(x) + ThreadRef(t, x)
              = refcount[x] + IndexRef(x)' + ListRef(x)' + ThreadRef(t, x)'
      BY <1>4, <3>1, <3>2 DEF EvictKeyAnswer, Return, Goto, IndexRef, ListRef, ThreadRef,
         RefPCs
    <3>4. \A u \in Threads : u # t => cpc'[u] = cpc[u] /\ cent'[u] = cent[u]
      BY <1>4 DEF EvictKeyAnswer, Return, Goto
    <3> QED  BY <2>1, <3>3, <3>4, ExactStep
  <2> QED  BY <2>1, <2>2, <2>3, <2>4, <2>5, <2>6, <2>7, <2>8, <2>9
<1>5. ASSUME EvictKeyBusy(t) PROVE CInv'
  <2>1. cent[t] \in Entries /\ Indexed(cent[t]) /\ refcount[cent[t]] # 1
    <3>1. cent[t] \in Entries /\ Claims(t, cent[t]) /\ ThreadRef(t, cent[t]) = 1
      BY <1>5 DEF EvictKeyBusy, ThreadEntries, RefPCs, Claims, ClaimPCs, ThreadRef
    <3>2. Indexed(cent[t])
      BY <3>1 DEF ClaimInv
    <3> QED  BY <3>1, <3>2, CountBound DEF IndexRef
  <2>2. CTypes'
    BY <1>5, <2>1 DEF EvictKeyBusy, Release, CPCs
  <2>3. \A u \in Threads : ThreadEntries(u)'
    BY <1>5, <2>1 DEF EvictKeyBusy, Release, ThreadEntries, PutPCs, RefPCs, Indexed
  <2>4. \A u \in Threads : ThreadInPolicy(u)'
    BY <1>5, <2>1 DEF EvictKeyBusy, Release, ThreadInPolicy, UsePCs, HoldPCs, PolicyInv,
       ReplTypeOK
  <2>5. IndexInv'
    BY <1>5, <2>1 DEF EvictKeyBusy, Release, IndexInv
  <2>6. PutInv'
    BY <1>5, <2>1 DEF EvictKeyBusy, Release, PutInv, Indexed, GotVictim, Answered
  <2>7. ClaimInv'
    BY <1>5, <2>1 DEF EvictKeyBusy, Release, ClaimInv, Claims, ClaimPCs, Indexed
  <2>8. VictimInv'
    BY <1>5, <2>1 DEF EvictKeyBusy, Release, VictimInv, GotVictim, Answered, Indexed
  <2>9. NoneInv'
    BY <1>5, <2>1 DEF EvictKeyBusy, Release, NoneInv
  <2>10. RefcountExact'
    <3>1. \A x \in Entries : Indexed(x)' <=> Indexed(x)
      BY <1>5, <2>1 DEF EvictKeyBusy, Release, Indexed
    <3>2. \A x \in Entries : PolicyRef(x)' <=> PolicyRef(x)
      BY <1>5, <2>1, <3>1 DEF EvictKeyBusy, Release, PolicyRef
    <3>3. \A x \in Entries :
            refcount'[x] + IndexRef(x) + ListRef(x) + ThreadRef(t, x)
              = refcount[x] + IndexRef(x)' + ListRef(x)' + ThreadRef(t, x)'
      BY <1>5, <2>1, <3>1, <3>2 DEF EvictKeyBusy, Release, IndexRef, ListRef, ThreadRef,
         RefPCs
    <3>4. \A u \in Threads : u # t => cpc'[u] = cpc[u] /\ cent'[u] = cent[u]
      BY <1>5, <2>1 DEF EvictKeyBusy, Release
    <3> QED  BY <2>2, <3>3, <3>4, ExactStep
  <2> QED  BY <2>2, <2>3, <2>4, <2>5, <2>6, <2>7, <2>8, <2>9, <2>10
<1>6. ASSUME EvictKeyReset(t) PROVE CInv'
  <2>1. CTypes'
    BY <1>6 DEF EvictKeyReset, CPCs
  <2>2. \A u \in Threads : ThreadEntries(u)'
    BY <1>6 DEF EvictKeyReset, ThreadEntries, PutPCs, RefPCs, Indexed, ClaimInv, Claims,
       ClaimPCs
  <2>3. \A u \in Threads : ThreadInPolicy(u)'
    BY <1>6 DEF EvictKeyReset, ThreadInPolicy, UsePCs, HoldPCs, PolicyInv, ReplTypeOK
  <2>4. IndexInv'
    BY <1>6 DEF EvictKeyReset, IndexInv
  <2>5. PutInv'
    BY <1>6 DEF EvictKeyReset, PutInv, Indexed, GotVictim, Answered
  <2>6. ClaimInv'
    BY <1>6 DEF EvictKeyReset, ClaimInv, Claims, ClaimPCs, Indexed
  <2>7. VictimInv'
    BY <1>6 DEF EvictKeyReset, VictimInv, GotVictim, Answered, Indexed
  <2>8. NoneInv'
    BY <1>6 DEF EvictKeyReset, NoneInv
  <2>9. RefcountExact'
    <3>1. \A x \in Entries : Indexed(x)' <=> Indexed(x)
      BY <1>6 DEF EvictKeyReset, Indexed
    <3>2. \A x \in Entries : PolicyRef(x)' <=> PolicyRef(x)
      BY <1>6, <3>1 DEF EvictKeyReset, PolicyRef
    <3>3. \A x \in Entries :
            refcount'[x] + IndexRef(x) + ListRef(x) + ThreadRef(t, x)
              = refcount[x] + IndexRef(x)' + ListRef(x)' + ThreadRef(t, x)'
      BY <1>6, <3>1, <3>2 DEF EvictKeyReset, IndexRef, ListRef, ThreadRef, RefPCs
    <3>4. \A u \in Threads : u # t => cpc'[u] = cpc[u] /\ cent'[u] = cent[u]
      BY <1>6 DEF EvictKeyReset
    <3> QED  BY <2>1, <3>3, <3>4, ExactStep
  <2> QED  BY <2>1, <2>2, <2>3, <2>4, <2>5, <2>6, <2>7, <2>8, <2>9
<1>7. ASSUME EvictKeyRelease(t), cpc[t] = "evk_rel"
      PROVE CInv'
  <2>1. /\ cent[t] \in Entries /\ Indexed(cent[t]) /\ PolicyRef(cent[t])
        /\ refcount[cent[t]] # 1
        /\ cent[t] \notin Elems(first) /\ cent[t] \notin orphans
        /\ \A u \in Threads : GotVictim(u, cent[t]) => u = t
    <3>1. cent[t] \in Entries /\ GotVictim(t, cent[t])
      BY <1>7 DEF ThreadEntries, GotVictim, RefPCs
    <3>2. PolicyRef(cent[t])
      BY <1>7 DEF PolicyRef
    <3>3. /\ Indexed(cent[t]) /\ cent[t] \notin Elems(first) /\ cent[t] \notin orphans
          /\ \A u \in Threads : GotVictim(u, cent[t]) => u = t
      BY <3>1 DEF VictimInv
    <3> QED  BY <3>1, <3>2, <3>3, CountBound DEF IndexRef, ListRef
  <2>2. CTypes'
    BY <1>7, <2>1 DEF EvictKeyRelease, Release, CPCs
  <2>3. \A u \in Threads : ThreadEntries(u)'
    BY <1>7, <2>1 DEF EvictKeyRelease, Release, ThreadEntries, PutPCs, RefPCs, Indexed
  <2>4. \A u \in Threads : ThreadInPolicy(u)'
    BY <1>7, <2>1 DEF EvictKeyRelease, Release, ThreadInPolicy, UsePCs, HoldPCs, PolicyInv,
       ReplTypeOK
  <2>5. IndexInv'
    BY <1>7, <2>1 DEF EvictKeyRelease, Release, IndexInv
  <2>6. PutInv'
    BY <1>7, <2>1 DEF EvictKeyRelease, Release, PutInv, Indexed, GotVictim, Answered
  <2>7. ClaimInv'
    BY <1>7, <2>1 DEF EvictKeyRelease, Release, ClaimInv, Claims, ClaimPCs, Indexed
  <2>8. VictimInv'
    BY <1>7, <2>1 DEF EvictKeyRelease, Release, VictimInv, GotVictim, Answered, Indexed
  <2>9. NoneInv'
    BY <1>7, <2>1 DEF EvictKeyRelease, Release, NoneInv
  <2>10. RefcountExact'
    <3>1. \A x \in Entries : Indexed(x)' <=> Indexed(x)
      BY <1>7, <2>1 DEF EvictKeyRelease, Release, Indexed
    <3>2. \A x \in Entries : PolicyRef(x)' <=> PolicyRef(x) /\ x # cent[t]
      BY <1>7, <2>1, <3>1 DEF EvictKeyRelease, Release, PolicyRef, GotVictim, Answered
    <3>3. \A x \in Entries :
            refcount'[x] + IndexRef(x) + ListRef(x) + ThreadRef(t, x)
              = refcount[x] + IndexRef(x)' + ListRef(x)' + ThreadRef(t, x)'
      BY <1>7, <2>1, <3>1, <3>2 DEF EvictKeyRelease, Release, IndexRef, ListRef, ThreadRef,
         RefPCs
    <3>4. \A u \in Threads : u # t => cpc'[u] = cpc[u] /\ cent'[u] = cent[u]
      BY <1>7, <2>1 DEF EvictKeyRelease, Release
    <3> QED  BY <2>2, <3>3, <3>4, ExactStep
  <2> QED  BY <2>2, <2>3, <2>4, <2>5, <2>6, <2>7, <2>8, <2>9, <2>10
<1>8. ASSUME EvictKeyRelease(t), cpc[t] = "ev_rel"
      PROVE CInv'
  <2>1. cent[t] \in Entries /\ Indexed(cent[t]) /\ refcount[cent[t]] # 1
    <3>1. cent[t] \in Entries /\ Claims(t, cent[t]) /\ ThreadRef(t, cent[t]) = 1
      BY <1>8 DEF ThreadEntries, RefPCs, Claims, ClaimPCs, ThreadRef
    <3>2. Indexed(cent[t])
      BY <3>1 DEF ClaimInv
    <3> QED  BY <3>1, <3>2, CountBound DEF IndexRef
  <2>2. CTypes'
    BY <1>8, <2>1 DEF EvictKeyRelease, Release, CPCs
  <2>3. \A u \in Threads : ThreadEntries(u)'
    BY <1>8, <2>1 DEF EvictKeyRelease, Release, ThreadEntries, PutPCs, RefPCs, Indexed
  <2>4. \A u \in Threads : ThreadInPolicy(u)'
    BY <1>8, <2>1 DEF EvictKeyRelease, Release, ThreadInPolicy, UsePCs, HoldPCs, PolicyInv,
       ReplTypeOK
  <2>5. IndexInv'
    BY <1>8, <2>1 DEF EvictKeyRelease, Release, IndexInv
  <2>6. PutInv'
    BY <1>8, <2>1 DEF EvictKeyRelease, Release, PutInv, Indexed, GotVictim, Answered
  <2>7. ClaimInv'
    BY <1>8, <2>1 DEF EvictKeyRelease, Release, ClaimInv, Claims, ClaimPCs, Indexed
  <2>8. VictimInv'
    BY <1>8, <2>1 DEF EvictKeyRelease, Release, VictimInv, GotVictim, Answered, Indexed
  <2>9. NoneInv'
    BY <1>8, <2>1 DEF EvictKeyRelease, Release, NoneInv
  <2>10. RefcountExact'
    <3>1. \A x \in Entries : Indexed(x)' <=> Indexed(x)
      BY <1>8, <2>1 DEF EvictKeyRelease, Release, Indexed
    <3>2. \A x \in Entries : PolicyRef(x)' <=> PolicyRef(x)
      BY <1>8, <2>1, <3>1 DEF EvictKeyRelease, Release, PolicyRef
    <3>3. \A x \in Entries :
            refcount'[x] + IndexRef(x) + ListRef(x) + ThreadRef(t, x)
              = refcount[x] + IndexRef(x)' + ListRef(x)' + ThreadRef(t, x)'
      BY <1>8, <2>1, <3>1, <3>2 DEF EvictKeyRelease, Release, IndexRef, ListRef, ThreadRef,
         RefPCs
    <3>4. \A u \in Threads : u # t => cpc'[u] = cpc[u] /\ cent'[u] = cent[u]
      BY <1>8, <2>1 DEF EvictKeyRelease, Release
    <3> QED  BY <2>2, <3>3, <3>4, ExactStep
  <2> QED  BY <2>2, <2>3, <2>4, <2>5, <2>6, <2>7, <2>8, <2>9, <2>10
<1> QED  BY <1>1, <1>2, <1>3, <1>4, <1>5, <1>6, <1>7, <1>8 DEF EvictKeyRepl, EvictKeyAnswer, EvictKeyRelease

\* A step of a thread into or inside the policy.
LEMMA PolicyMoveKeeps ==
    ASSUME CInv, PolicyInv, ~fault, UNCHANGED policy, NEW t \in Threads,
           policy = "LRU", RestStays(t), rpc[t] # "evicted",
           UNCHANGED <<index, entryVars, heap, ckey, pent, cent, orphans>>,
           \/ UNCHANGED cpc /\ cpc[t] \in {"get_wait", "ev_wait", "evk_wait"}
           \/ cpc[t] = "ev_repl" /\ rpc[t] = "idle" /\ CGoto(t, "ev_wait")
           \/ cpc[t] = "evk_cb" /\ rpc[t] = "idle" /\ CGoto(t, "evk_wait"),
           \/ Faults
           \/ \E e \in Elems(first) : Gives(t, e) /\ ThreadInPolicy(t)'
           \/ Quiet(t) /\ ThreadInPolicy(t)'
    PROVE  CInv'
<1> USE ConstantsAssumption, CacheAssumption
    DEF CInv, CTypes, CGoto, EndOp, replVars, listVars, entryVars
<1>1. ASSUME Faults PROVE CInv'
  <2>1. CTypes'
    BY <1>1 DEF Faults, CPCs
  <2>2. \A u \in Threads : ThreadEntries(u)'
    BY <1>1 DEF Faults, ThreadEntries, PutPCs, RefPCs, Indexed
  <2>3. fault'
    BY <1>1 DEF Faults, ThreadInPolicy, UsePCs, HoldPCs, PolicyInv, ReplTypeOK
  <2>4. IndexInv'
    BY <1>1 DEF Faults, IndexInv
  <2>5. PutInv'
    BY <1>1 DEF Faults, PutInv, Indexed, GotVictim, Answered
  <2>6. ClaimInv'
    BY <1>1 DEF Faults, ClaimInv, Claims, ClaimPCs, Indexed
  <2>7. VictimInv'
    BY <1>1 DEF Faults, VictimInv, GotVictim, Answered, Indexed
  <2>8. NoneInv'
    BY <1>1 DEF Faults, NoneInv
  <2>9. RefcountExact'
    <3>1. \A x \in Entries : Indexed(x)' <=> Indexed(x)
      BY <1>1 DEF Faults, Indexed
    <3>2. \A x \in Entries : PolicyRef(x)' <=> PolicyRef(x)
      BY <1>1, <3>1 DEF Faults, PolicyRef, Indexed
    <3>3. \A x \in Entries :
            refcount'[x] + IndexRef(x) + ListRef(x) + ThreadRef(t, x)
              = refcount[x] + IndexRef(x)' + ListRef(x)' + ThreadRef(t, x)'
      BY <1>1, <3>1, <3>2 DEF Faults, IndexRef, ListRef, ThreadRef, RefPCs
    <3>4. \A u \in Threads : u # t => cpc'[u] = cpc[u] /\ cent'[u] = cent[u]
      BY <1>1 DEF Faults
    <3> QED  BY <2>1, <3>3, <3>4, ExactStep
  <2> QED  BY <2>1, <2>2, <2>3, <2>4, <2>5, <2>6, <2>7, <2>8, <2>9
<1>2. ASSUME NEW e \in Elems(first), Gives(t, e), ThreadInPolicy(t)'
      PROVE CInv'
  <2>1. e \in Entries /\ Indexed(e) /\ e # None
    BY DEF VictimInv, Elems, PolicyInv, ReplTypeOK
  <2>2. CTypes'
    BY <1>2, <2>1 DEF Gives, RestStays, CPCs
  <2>3. \A u \in Threads : ThreadEntries(u)'
    BY <1>2, <2>1 DEF Gives, RestStays, ThreadEntries, PutPCs, RefPCs, Indexed
  <2>4. \A u \in Threads : ThreadInPolicy(u)'
    BY <1>2, <2>1 DEF Gives, RestStays, ThreadInPolicy, UsePCs, HoldPCs, PolicyInv,
       ReplTypeOK
  <2>5. IndexInv'
    BY <1>2, <2>1 DEF Gives, RestStays, IndexInv
  <2>6. PutInv'
    BY <1>2, <2>1 DEF Gives, RestStays, PutInv, Indexed, GotVictim, Answered
  <2>7. ClaimInv'
    BY <1>2, <2>1 DEF Gives, RestStays, ClaimInv, Claims, ClaimPCs, Indexed
  <2>8. VictimInv'
    BY <1>2, <2>1 DEF Gives, RestStays, VictimInv, GotVictim, Answered, Indexed
  <2>9. NoneInv'
    BY <1>2, <2>1 DEF Gives, RestStays, NoneInv
  <2>10. RefcountExact'
    <3>1. \A u \in Threads : u # t => cpc'[u] = cpc[u] /\ cent'[u] = cent[u]
      OBVIOUS
    <3>2. cpc'[t] \in {"ev_wait", "evk_wait"} /\ cpc[t] \notin {"ev_cb", "evk_rel"}
      BY <1>2 DEF Gives, ThreadInPolicy
    <3>3. \A x \in Entries : PolicyRef(x)' <=> PolicyRef(x)
      <4>1. PolicyRef(e) /\ PolicyRef(e)'
        BY <1>2, <3>2 DEF Gives, PolicyRef
      <4>2. \A u \in Threads, x \in Entries : x # e => (Answered(u, x)' <=> Answered(u, x))
        BY <1>2 DEF Gives, RestStays, Answered
      <4>3. ASSUME NEW x \in Entries, x # e PROVE PolicyRef(x)' <=> PolicyRef(x)
        BY <1>2, <3>1, <3>2, <4>2, <4>3 DEF Gives, PolicyRef, Answered, Indexed
      <4> QED  BY <4>1, <4>3
    <3>4. \A x \in Entries :
            refcount'[x] + IndexRef(x) + ListRef(x) + ThreadRef(t, x)
              = refcount[x] + IndexRef(x)' + ListRef(x)' + ThreadRef(t, x)'
      BY <3>3 DEF IndexRef, ListRef, ThreadRef, RefPCs, Indexed
    <3> QED  BY <2>2, <3>1, <3>4, ExactStep
  <2> QED  BY <2>2, <2>3, <2>4, <2>5, <2>6, <2>7, <2>8, <2>9, <2>10
<1>3. ASSUME Quiet(t), ThreadInPolicy(t)'
      PROVE CInv'
  <2>1. CTypes'
    BY <1>3 DEF Quiet, RestStays, CPCs
  <2>2. \A u \in Threads : ThreadEntries(u)'
    BY <1>3 DEF Quiet, RestStays, ThreadEntries, PutPCs, RefPCs, Indexed
  <2>3. \A u \in Threads : ThreadInPolicy(u)'
    BY <1>3 DEF Quiet, RestStays, ThreadInPolicy, UsePCs, HoldPCs, PolicyInv, ReplTypeOK
  <2>4. IndexInv'
    BY <1>3 DEF Quiet, RestStays, IndexInv
  <2>5. PutInv'
    BY <1>3 DEF Quiet, RestStays, PutInv, Indexed, GotVictim, Answered
  <2>6. ClaimInv'
    BY <1>3 DEF Quiet, RestStays, ClaimInv, Claims, ClaimPCs, Indexed
  <2>7. VictimInv'
    BY <1>3 DEF Quiet, RestStays, VictimInv, GotVictim, Answered, Indexed
  <2>8. NoneInv'
    BY <1>3 DEF Quiet, RestStays, NoneInv
  <2>9. RefcountExact'
    <3>1. \A x \in Entries : Indexed(x)' <=> Indexed(x)
      BY <1>3 DEF Quiet, RestStays, Indexed
    <3>2. \A x \in Entries : PolicyRef(x)' <=> PolicyRef(x)
      BY <1>3, <3>1 DEF Quiet, RestStays, PolicyRef, Indexed
    <3>3. \A x \in Entries :
            refcount'[x] + IndexRef(x) + ListRef(x) + ThreadRef(t, x)
              = refcount[x] + IndexRef(x)' + ListRef(x)' + ThreadRef(t, x)'
      BY <1>3, <3>1, <3>2 DEF Quiet, RestStays, IndexRef, ListRef, ThreadRef, RefPCs
    <3>4. \A u \in Threads : u # t => cpc'[u] = cpc[u] /\ cent'[u] = cent[u]
      BY <1>3 DEF Quiet, RestStays
    <3> QED  BY <2>1, <3>3, <3>4, ExactStep
  <2> QED  BY <2>1, <2>2, <2>3, <2>4, <2>5, <2>6, <2>7, <2>8, <2>9
<1> QED  BY <1>1, <1>2, <1>3

\* repl_p_evict(NULL) and repl_p_evict(entry) are called, or a thread goes on
\* inside the policy.
LEMMA InPolicyKeeps ==
    ASSUME CInv, PolicyInv, ~fault, UNCHANGED policy, NEW t \in Threads,
           \/ EvictRepl(t) /\ policy = "LRU"
           \/ EvictKeyRepl(t) /\ policy = "LRU"
           \/ Inside(t)
    PROVE  CInv'
<1> USE ConstantsAssumption, CacheAssumption
<1>0. ThreadEntries(t) /\ ThreadInPolicy(t) /\ cpc \in [Threads -> CPCs]
  BY DEF CInv, CTypes
<1>1. ASSUME EvictRepl(t), policy = "LRU" PROVE CInv'
  <2>1. /\ cpc[t] = "ev_repl" /\ rpc[t] = "idle" /\ CGoto(t, "ev_wait")
        /\ EvictLock(t, None)
        /\ UNCHANGED <<index, entryVars, heap, ckey, pent, cent, orphans>>
    BY <1>1 DEF EvictRepl, EvictLock
  <2>2. /\ RestStays(t)
        /\ \/ Faults
           \/ \E e \in Elems(first) : Gives(t, e)
           \/ Quiet(t) /\ rpc'[t] = "evicted"
           \/ Quiet(t) /\ rpc'[t] = "ev_deq" /\ rarg'[t] = None
    BY <2>1, EvictLockSeen
  <2>3. cpc'[t] = "ev_wait"
    BY <1>0, <2>1 DEF CGoto
  <2>4. rpc'[t] = "evicted" => ThreadInPolicy(t)'
    BY <2>3 DEF ThreadInPolicy, UsePCs, HoldPCs
  <2>5. rpc'[t] = "ev_deq" /\ rarg'[t] = None => ThreadInPolicy(t)'
    BY <2>3 DEF ThreadInPolicy, UsePCs, HoldPCs
  <2>6. \A e : Gives(t, e) => rpc'[t] = "evicted"
    BY DEF Gives
  <2> QED  BY <1>1, <2>1, <2>2, <2>4, <2>5, <2>6, PolicyMoveKeeps
<1>2. ASSUME EvictKeyRepl(t), policy = "LRU" PROVE CInv'
  <2>1. /\ cpc[t] = "evk_cb" /\ rpc[t] = "idle" /\ CGoto(t, "evk_wait")
        /\ EvictLock(t, cent[t])
        /\ UNCHANGED <<index, entryVars, heap, ckey, pent, cent, orphans>>
        /\ cent[t] # None
    BY <1>0, <1>2 DEF EvictKeyRepl, EvictLock, ThreadEntries, RefPCs
  <2>2. /\ RestStays(t)
        /\ \/ Faults
           \/ \E e \in Elems(first) : Gives(t, e) /\ e = cent[t]
           \/ Quiet(t) /\ rpc'[t] = "evicted"
           \/ Quiet(t) /\ rpc'[t] = "ev_deq" /\ rarg'[t] = cent[t]
    BY <2>1, EvictLockSeen
  <2>3. cpc'[t] = "evk_wait" /\ cent'[t] = cent[t]
    BY <1>0, <2>1 DEF CGoto
  <2>4. rpc'[t] = "evicted" /\ rarg'[t] \in {None, cent[t]} => ThreadInPolicy(t)'
    BY <2>3 DEF ThreadInPolicy, UsePCs, HoldPCs
  <2>5. rpc'[t] = "ev_deq" /\ rarg'[t] = cent[t] => ThreadInPolicy(t)'
    BY <2>3 DEF ThreadInPolicy, UsePCs, HoldPCs
  <2>6. \A e : Gives(t, e) => rpc'[t] = "evicted" /\ rarg'[t] = e
    BY DEF Gives
  <2>7. Quiet(t) /\ rpc'[t] = "evicted" => rarg'[t] = None
    BY DEF Quiet
  <2> QED  BY <1>2, <2>1, <2>2, <2>4, <2>5, <2>6, <2>7, PolicyMoveKeeps
<1>3. ASSUME Inside(t) PROVE CInv'
  <2>1. rpc[t] \notin {"idle", "evicted"}
    BY <1>3
       DEF Inside, ReplStep, InsertTail, UseReserve, UseFull, UseLock, EnqClaim, EnqWrite,
           EnqPost, DequeueOne, DequeueNone, EvictSecond, EvictScan, EvictLast
  <2>2. policy = "LRU"
    BY <2>1 DEF CInv, CTypes, NoneInv
  <2>3. /\ cpc[t] \in {"get_wait", "ev_wait", "evk_wait"}
        /\ UNCHANGED <<index, entryVars, heap, cpc, ckey, pent, cent, orphans>>
    BY <1>3 DEF Inside, cacheVars, entryVars
  <2> QED  BY <1>0, <1>3, <2>1, <2>2, <2>3, InsideSeen, PolicyMoveKeeps
<1> QED  BY <1>1, <1>2, <1>3

\* The cache keeps the policy's rules.
LEMMA StepObeysPolicy == CInv /\ PolicyInv /\ [CNext]_vars => [ReplNext]_replVars
<1> SUFFICES ASSUME CInv, PolicyInv, [CNext]_vars PROVE [ReplNext]_replVars
  OBVIOUS
<1> USE ConstantsAssumption, CacheAssumption
<1>1. CASE UNCHANGED vars
  BY <1>1 DEF vars
<1>2. CASE CHalted
  BY <1>2 DEF CHalted, vars
<1>3. ASSUME ~fault, NEW t \in Threads, CCall(t) \/ CStep(t)
      PROVE  UNCHANGED replVars \/ Call(t) \/ ReplStep(t) \/ Return(t)
  <2> USE DEF Call
  <2>1. ASSUME CCall(t) PROVE UNCHANGED replVars
    BY <2>1
       DEF CCall, PutStart, GetStart, ExistsStart, EvictKeyStart, IndexGet, EvictStart
  <2>2. ASSUME PutAlloc(t) \/ PutIndex(t) \/ PutError(t) \/ GetEnd(t) \/ ExistsEnd(t)
               \/ EvictCallback(t) \/ EvictRemove(t) \/ EvictKeyClaim(t) \/ EvictKeyLost(t)
               \/ EvictKeyBusy(t) \/ EvictKeyReset(t) \/ EvictKeyRelease(t)
        PROVE  UNCHANGED replVars
    BY <2>2
       DEF PutAlloc, PutIndex, PutError, GetEnd, ExistsEnd, EvictCallback, EvictRemove,
           EvictKeyClaim, EvictKeyLost, EvictKeyBusy, EvictKeyReset, EvictKeyRelease
  <2>3. ASSUME PutRepl(t) PROVE UNCHANGED replVars \/ Call(t)
    <3>1. ASSUME InsertNode(t, pent[t]) PROVE Call(t)
      <4>1. pent[t] \in Entries
        BY <2>3 DEF PutRepl, CInv, CTypes, ThreadEntries, PutPCs
      <4>2. ASSUME Disciplined, NEW u \in Threads, rarg[u] = pent[t] PROVE FALSE
        <5>1. ThreadInPolicy(u) /\ ThreadInPolicy(t) /\ cpc[t] = "put_repl" /\ pent[t] # None
          BY <1>3, <2>3, <4>1 DEF CInv, PutRepl
        <5>2. /\ \A v \in Threads : pent[v] = pent[t] => v = t
              /\ cent[u] # pent[t] /\ ~GotVictim(u, pent[t])
          BY <4>2, <5>1 DEF CInv, PutInv
        <5>3. rpc[u] # "evicted" /\ rpc[u] # "idle"
          BY <4>2, <5>1, <5>2 DEF GotVictim, Answered, ThreadInPolicy
        <5>4. rarg[u] \in {None, cent[u]} \/ (rpc[u] = "ins_lock" /\ rarg[u] = pent[u])
          BY <5>1, <5>3 DEF ThreadInPolicy, PolicyInv, ReplTypeOK, RPCs, UsePCs, EvictPCs
        <5>5. u = t /\ rpc[t] = "ins_lock"
          BY <4>2, <5>1, <5>2, <5>4
        <5> QED  BY <5>1, <5>5 DEF ThreadInPolicy
      <4> QED  BY <3>1, <4>1, <4>2 DEF MayInsert
    <3> QED  BY <2>3, <3>1 DEF PutRepl, repl_p_none_insert
  <2>4. ASSUME PutIns(t) PROVE ReplStep(t)
    BY <2>4 DEF PutIns, ReplStep
  <2>5. ASSUME cent[t] # None PROVE cent[t] \in Entries /\ MayTouch(cent[t])
    <3>1. cent[t] \in Entries
      BY <2>5 DEF CInv, CTypes
    <3>2. ASSUME Disciplined, NEW u \in Threads, Inserting(u, cent[t]) PROVE FALSE
      <4>1. pent[u] = cent[t]
        BY <1>3, <3>2 DEF CInv, Inserting, ThreadInPolicy
      <4> QED  BY <2>5, <3>2, <4>1 DEF CInv, PutInv
    <3> QED  BY <3>1, <3>2 DEF MayTouch
  <2>6. MayTouch(None)
    <3>1. ASSUME NEW u \in Threads PROVE ~Inserting(u, None)
      BY <1>3 DEF CInv, Inserting, ThreadInPolicy, ThreadEntries, PutPCs
    <3> QED  BY <3>1 DEF MayTouch
  <2>7. ASSUME GetUse(t) PROVE UNCHANGED replVars \/ Call(t)
    <3>1. cent[t] # None
      BY <2>7 DEF GetUse, CInv, ThreadEntries, RefPCs
    <3> QED  BY <2>5, <2>7, <3>1 DEF GetUse, repl_p_none_use
  <2>8. ASSUME EvictRepl(t) PROVE UNCHANGED replVars \/ Call(t)
    BY <2>6, <2>8 DEF EvictRepl
  <2>9. ASSUME EvictKeyRepl(t) PROVE UNCHANGED replVars \/ Call(t)
    <3>1. cent[t] # None
      BY <2>9 DEF EvictKeyRepl, CInv, ThreadEntries, RefPCs
    <3> QED  BY <2>5, <2>9, <3>1 DEF EvictKeyRepl
  <2>10. ASSUME EvictClaim(t) \/ EvictKeyAnswer(t) PROVE Return(t)
    BY <2>10 DEF EvictClaim, EvictKeyAnswer
  <2>11. ASSUME Inside(t) PROVE ReplStep(t)
    BY <2>11 DEF Inside
  <2> HIDE DEF Call
  <2> QED
    BY <1>3, <2>1, <2>2, <2>3, <2>4, <2>7, <2>8, <2>9, <2>10, <2>11 DEF CStep
<1>4. CASE ~fault /\ \E t \in Threads : CCall(t) \/ CStep(t)
  BY <1>3, <1>4 DEF ReplNext
<1> QED  BY <1>1, <1>2, <1>4 DEF CNext

\* Every step of the cache keeps the invariant.
LEMMA CacheStep == CInv /\ PolicyInv /\ [CNext]_vars => CInv'
<1> SUFFICES ASSUME CInv, PolicyInv, [CNext]_vars PROVE CInv'
  OBVIOUS
<1>1. CASE UNCHANGED vars
  BY <1>1
     DEF vars, replVars, listVars, cacheVars, entryVars, CInv, CTypes, ThreadEntries,
         ThreadInPolicy, IndexInv, PutInv, ClaimInv, VictimInv, NoneInv, Claims, Answered,
         GotVictim, RefcountExact, PolicyRef, Holders, Indexed
<1>2. ASSUME ~fault, UNCHANGED policy, NEW t \in Threads, CCall(t) \/ CStep(t) PROVE CInv'
  <2>1. CASE \E k \in Keys : GetStart(t, k) \/ ExistsStart(t, k) \/ EvictKeyStart(t, k)
    BY <1>2, <2>1, LookupKeeps DEF GetStart, ExistsStart, EvictKeyStart
  <2>2. CASE GetEnd(t)
    BY <1>2, <2>2, LookupKeeps DEF GetEnd
  <2>3. CASE ExistsEnd(t) \/ EvictKeyLost(t)
    <3>1. rpc[t] = "idle"
      BY <1>2, <2>3
         DEF ExistsEnd, EvictKeyLost, CInv, ThreadInPolicy, PolicyInv, ReplTypeOK, RPCs, UsePCs,
             EvictPCs
    <3> QED  BY <1>2, <2>3, <3>1, LookupKeeps DEF ExistsEnd, EvictKeyLost
  <2>4. policy \in {"LRU", "NONE"}
    BY CacheAssumption DEF CInv, CTypes
  <2> QED
    BY <1>2, <2>1, <2>2, <2>3, <2>4, PutKeeps, LookupKeeps, EvictKeeps, EvictKeyKeeps,
       InPolicyKeeps
       DEF CCall, CStep
<1> QED  BY <1>1, <1>2 DEF CNext, CHalted

----------------------------------------------------------------------------
(* The theorems *)

\* The invariant holds from the start ...
LEMMA CacheInit == NoneIsDisciplined /\ CInit => CInv /\ PolicyInv
<1> SUFFICES ASSUME NoneIsDisciplined, CInit PROVE CInv /\ PolicyInv
  OBVIOUS
<1> USE ConstantsAssumption, CacheAssumption
<1>1. PolicyInv
  <2>1. ReplInit => NodeOwnership /\ ListInv
    BY DEF ReplInit, RingInit, NodeOwnership, ListInv, ListExact, InsertingOwned, NoDup, Elems,
           Holds, HoldPCs, Inserting
  <2> QED  BY <2>1, TypeInit DEF CInit, PolicyInv
<1>2. Elems(first) = {} /\ \A e \in Entries : ~Indexed(e) /\ ~PolicyRef(e)
  BY DEF CInit, ReplInit, Elems, Indexed, PolicyRef
<1>3. CTypes
  BY DEF CInit, CTypes, CPCs
<1>4. /\ \A t \in Threads : ThreadEntries(t) /\ ThreadInPolicy(t)
      /\ IndexInv /\ PutInv /\ ClaimInv
  BY DEF CInit, ReplInit, ThreadEntries, ThreadInPolicy, PutPCs, RefPCs, UsePCs, HoldPCs,
         IndexInv, PutInv, ClaimInv, Claims, ClaimPCs
<1>5. VictimInv
  BY <1>2 DEF CInit, ReplInit, VictimInv, GotVictim, Answered
<1>6. NoneInv
  BY <1>2 DEF CInit, ReplInit, NoneInv, NoneIsDisciplined
<1>7. RefcountExact
  <2>1. \A e \in Entries : Holders(e) = {}
    BY DEF CInit, Holders, RefPCs
  <2> QED  BY <1>2, <2>1, FS_EmptySet DEF CInit, RefcountExact
<1> QED  BY <1>1, <1>3, <1>4, <1>5, <1>6, <1>7 DEF CInv

\* ... and for ever.
LEMMA CacheInvariant ==
    ASSUME NoneIsDisciplined
    PROVE  CSpec => [](CInv /\ PolicyInv)
<1>1. CInit => CInv /\ PolicyInv
  BY CacheInit
<1>2. CInv /\ PolicyInv /\ [CNext]_vars => CInv' /\ PolicyInv'
  <2> SUFFICES ASSUME CInv, PolicyInv, [CNext]_vars PROVE CInv' /\ PolicyInv'
    OBVIOUS
  <2>1. [ReplNext]_replVars
    BY StepObeysPolicy
  <2>2. ReplTypeOK' /\ ArgOK'
    BY <2>1, TypeStep DEF PolicyInv
  <2>3. NodeOwnership'
    BY <2>1, OwnershipStep DEF PolicyInv
  <2>4. ListInv'
    BY <2>1, ListStep DEF PolicyInv
  <2> QED  BY <2>2, <2>3, <2>4, CacheStep DEF PolicyInv
<1> QED  BY <1>1, <1>2, PTL DEF CSpec

\* put, get, exists and evict use the policy by its rules: seen from the policy
\* every step of the cache is one of its clients', so all that is proved of
\* vmemcache_repl.c under any client holds inside the cache.
THEOREM CacheObeysPolicy ==
    ASSUME NoneIsDisciplined
    PROVE  CSpec => ObeysPolicy
<1>1. CInit => ReplInit
  BY DEF CInit
<1>2. CInv /\ PolicyInv /\ [CNext]_vars => [ReplNext]_replVars
  BY StepObeysPolicy
<1> QED  BY <1>1, <1>2, CacheInvariant, PTL DEF CSpec, ObeysPolicy, ReplSpec

\* value.refcount is the number of references: from the index, from the policy
\* and from the threads between vmcache_index_get and their release.
THEOREM CacheRefcountExact ==
    ASSUME NoneIsDisciplined
    PROVE  CSpec => []RefcountExact
<1>1. CInv => RefcountExact
  BY DEF CInv
<1> QED  BY <1>1, CacheInvariant, PTL

\* No thread has a pointer to an entry that vmemcache_entry_release has freed,
\* and no lookup finds one, in whatever order the references are dropped.
THEOREM CacheNoUseAfterFree ==
    ASSUME NoneIsDisciplined
    PROVE  CSpec => []NoUseAfterFree
<1>1. CInv => NoUseAfterFree
  BY CacheAssumption DEF CInv, CTypes, ThreadEntries, IndexInv, NoUseAfterFree, Live
<1> QED  BY <1>1, CacheInvariant, PTL

\* vmemcache_get copies a value that is stored in full under the key it asked for,
\* although puts, evictions and other readers go on.
THEOREM CacheReadersSeeWholeValue ==
    ASSUME NoneIsDisciplined
    PROVE  CSpec => []ReadersSeeWholeValue
<1>1. CInv => ReadersSeeWholeValue
  BY DEF CInv, ThreadEntries, IndexInv, ReadersSeeWholeValue, RefPCs
<1> QED  BY <1>1, CacheInvariant, PTL

\* vmcache_index_remove, which goes by key, unlinks the entry that is evicted and
\* no other: nobody removes or replaces it while the callback on_evict runs.
THEOREM CacheVictimStaysIndexed ==
    ASSUME NoneIsDisciplined
    PROVE  CSpec => []VictimStaysIndexed
<1>1. CInv => VictimStaysIndexed
  <2> SUFFICES ASSUME CInv, NEW t \in Threads, cpc[t] \in {"ev_cb", "evk_cb", "ev_remove"}
               PROVE  index[ekey[cent[t]]] = cent[t]
    BY DEF VictimStaysIndexed
  <2>1. cent[t] \in Entries /\ Claims(t, cent[t])
    BY DEF CInv, CTypes, ThreadEntries, RefPCs, Claims, ClaimPCs
  <2>2. Indexed(cent[t])
    BY <2>1 DEF CInv, ClaimInv
  <2> QED  BY ConstantsAssumption, <2>1, <2>2 DEF CInv, IndexInv, Indexed
<1> QED  BY <1>1, CacheInvariant, PTL

\* With clients that wait for put to return before they touch its key, no
\* eviction of the cache unlinks a node that is not linked.
THEOREM CacheNoFault ==
    ASSUME Disciplined
    PROVE  CSpec => []NoFault
<1>1. NoneIsDisciplined
  BY DEF NoneIsDisciplined
<1>2. CSpec => ReplSpec
  BY <1>1, CacheObeysPolicy DEF ObeysPolicy
<1>3. ReplSpec => []NoFault
  BY ReplNoFault
<1> QED  BY <1>2, <1>3, PTL

----------------------------------------------------------------------------
(* What the cache owns: no unit of the pool is lost or given out twice, and *)
(* no entry is forgotten, whatever the threads do                           *)

\* Every unit is free or in the extents of one entry that is allocated.
PoolInv ==
    /\ heap \in Nat
    /\ \A e \in Entries : /\ units[e] \in Nat
                          /\ Live(e) => units[e] <= VSize[ekey[e]]
                          /\ ~Live(e) => units[e] = 0
    /\ IsFiniteSet(Allocated)
    /\ heap + Cardinality(Allocated) = Pool

\* An entry that is allocated is known to the index or to a thread.
Known(e) == Indexed(e) \/ \E t \in Threads : e \in {pent[t], cent[t]}
LiveInv == \A e \in Entries : Live(e) => Known(e)

----------------------------------------------------------------------------
(* Counting units *)

\* The units number a + 1 to b of an entry ...
Tile(e, a, b) == {e} \X ((a + 1) .. b)

\* ... are b - a.
LEMMA TileCount ==
    ASSUME NEW e, NEW a \in Nat, NEW b \in Nat, a <= b, NEW S, IsFiniteSet(S),
           S \cap Tile(e, a, b) = {}
    PROVE  /\ IsFiniteSet(S \cup Tile(e, a, b))
           /\ Cardinality(S \cup Tile(e, a, b)) = Cardinality(S) + (b - a)
<1> DEFINE I == (a + 1) .. b
           T == Tile(e, a, b)
<1>1. IsFiniteSet(I) /\ Cardinality(I) = b - a
  <2>1. /\ IsFiniteSet((a + 1) .. b)
        /\ Cardinality((a + 1) .. b) = IF a + 1 > b THEN 0 ELSE b - (a + 1) + 1
    BY FS_Interval
  <2> QED  BY <2>1
<1>2. IsFiniteSet({e}) /\ Cardinality({e}) = 1
  BY FS_Singleton
<1> HIDE DEF I
<1>3. IsFiniteSet(T) /\ Cardinality(T) = Cardinality({e}) * Cardinality(I)
  <2>1. IsFiniteSet({e} \X I) /\ Cardinality({e} \X I) = Cardinality({e}) * Cardinality(I)
    BY <1>1, <1>2, FS_Product
  <2> QED  BY <2>1 DEF Tile, I
<1>4. Cardinality(T) = b - a
  BY <1>1, <1>2, <1>3
<1>5. S \cap T = {} /\ Cardinality({}) = 0
  BY FS_EmptySet
<1>6. Cardinality(S) \in Nat
  BY FS_CardinalityType
<1>7. /\ IsFiniteSet(S \cup T)
      /\ Cardinality(S \cup T) = Cardinality(S) + Cardinality(T) - Cardinality(S \cap T)
  BY <1>3, FS_Union
<1>8. Cardinality(S \cap T) = 0
  BY <1>5, Zenon
<1>9. Cardinality(S \cup T) = Cardinality(S) + (b - a)
  BY <1>4, <1>6, <1>7, <1>8
<1> QED  BY <1>7, <1>9

\* The set A becomes B, n units larger.
Grows(A, B, n) ==
    IsFiniteSet(B) /\ Cardinality(A) \in Nat /\ Cardinality(B) = Cardinality(A) + n

Span(a, b) == a \in Nat /\ b \in Nat /\ a <= b

\* The units number a + 1 to b join the set A, which becomes B.
LEMMA UnitsJoin ==
    ASSUME NEW e, NEW a, NEW b, Span(a, b), NEW A, NEW B,
           IsFiniteSet(A), A \cap Tile(e, a, b) = {}, B = A \cup Tile(e, a, b)
    PROVE  Grows(A, B, b - a)
<1>1. a \in Nat /\ b \in Nat /\ a <= b
  BY DEF Span
<1>2. /\ IsFiniteSet(A \cup Tile(e, a, b))
      /\ Cardinality(A \cup Tile(e, a, b)) = Cardinality(A) + (b - a)
  BY <1>1, TileCount
<1>3. Cardinality(A) \in Nat
  BY FS_CardinalityType
<1> QED  BY <1>2, <1>3 DEF Grows

\* vmcache_alloc puts n units in the extents of e.
LEMMA UnitsAdded ==
    ASSUME CTypes, IsFiniteSet(Allocated), NEW e \in Entries, NEW n \in Nat, units[e] \in Nat,
           units[e] + n <= Pool + 1, units' = [units EXCEPT ![e] = @ + n]
    PROVE  IsFiniteSet(Allocated)' /\ Cardinality(Allocated)' = Cardinality(Allocated) + n
<1>0. PICK a \in Nat, b \in Nat : a = units[e] /\ b = a + n /\ a <= b /\ Pool \in Nat
  BY CacheAssumption
<1> DEFINE T == Tile(e, a, b)
<1>1. Allocated' = Allocated \cup T
  <2>1. ASSUME NEW p \in Allocated' PROVE p \in Allocated \cup T
    <3>1. PICK x \in Entries, i \in 1 .. Pool + 1 : p = <<x, i>> /\ i <= units'[x]
      BY <2>1 DEF Allocated
    <3>2. CASE x = e
      BY <1>0, <3>1, <3>2 DEF Allocated, CTypes, Tile
    <3>3. CASE x # e
      BY <3>1, <3>3 DEF Allocated, CTypes
    <3> QED  BY <3>2, <3>3
  <2>2. ASSUME NEW p \in Allocated PROVE p \in Allocated'
    <3>1. PICK x \in Entries, i \in 1 .. Pool + 1 : p = <<x, i>> /\ i <= units[x]
      BY <2>2 DEF Allocated
    <3>2. i <= units'[x]
      BY <1>0, <3>1 DEF CTypes
    <3> QED  BY <3>1, <3>2 DEF Allocated
  <2>3. ASSUME NEW p \in T PROVE p \in Allocated'
    <3>1. PICK i \in (a + 1) .. b : p = <<e, i>>
      BY <2>3 DEF Tile
    <3>2. i \in 1 .. Pool + 1 /\ i <= units'[e]
      BY <1>0, <3>1 DEF CTypes
    <3> QED  BY <3>1, <3>2 DEF Allocated
  <2> QED  BY <2>1, <2>2, <2>3
<1>2. Allocated \cap T = {}
  BY <1>0 DEF Allocated, CTypes, Tile
<1>3. Span(a, b)
  BY <1>0 DEF Span
<1> HIDE DEF T
<1>4. Grows(Allocated, Allocated', b - a)
  <2>1. IsFiniteSet(Allocated) /\ Allocated \cap Tile(e, a, b) = {}
        /\ Allocated' = Allocated \cup Tile(e, a, b)
    BY <1>1, <1>2 DEF T
  <2> QED  BY <1>3, <2>1, UnitsJoin, Zenon
<1> QED  BY <1>0, <1>4 DEF Grows

\* vmcache_free gives the units of e back.
LEMMA UnitsFreed ==
    ASSUME CTypes, IsFiniteSet(Allocated), NEW e \in Entries, units[e] \in Nat,
           units[e] <= Pool + 1, units' = [units EXCEPT ![e] = 0]
    PROVE  /\ IsFiniteSet(Allocated)' /\ Cardinality(Allocated)' \in Nat
           /\ Cardinality(Allocated) = Cardinality(Allocated)' + units[e]
<1>0. PICK b \in Nat : b = units[e] /\ 0 <= b /\ Pool \in Nat /\ 0 \in Nat
  BY CacheAssumption
<1> DEFINE T == Tile(e, 0, b)
           A == Allocated'
<1>1. Allocated = A \cup T
  <2>1. ASSUME NEW p \in Allocated PROVE p \in A \cup T
    <3>1. PICK x \in Entries, i \in 1 .. Pool + 1 : p = <<x, i>> /\ i <= units[x]
      BY <2>1 DEF Allocated
    <3>2. CASE x = e
      BY <1>0, <3>1, <3>2 DEF Tile
    <3>3. CASE x # e
      BY <3>1, <3>3 DEF Allocated, CTypes
    <3> QED  BY <3>2, <3>3
  <2>2. ASSUME NEW p \in A PROVE p \in Allocated
    <3>1. PICK x \in Entries, i \in 1 .. Pool + 1 : p = <<x, i>> /\ i <= units'[x]
      BY <2>2 DEF Allocated
    <3>2. i <= units[x]
      BY <1>0, <3>1 DEF CTypes
    <3> QED  BY <3>1, <3>2 DEF Allocated
  <2>3. ASSUME NEW p \in T PROVE p \in Allocated
    <3>1. PICK i \in 1 .. b : p = <<e, i>>
      BY <2>3 DEF Tile
    <3>2. i \in 1 .. Pool + 1 /\ i <= units[e]
      BY <1>0, <3>1
    <3> QED  BY <3>1, <3>2 DEF Allocated
  <2> QED  BY <2>1, <2>2, <2>3
<1>2. A \cap T = {}
  BY <1>0 DEF Allocated, CTypes, Tile
<1>3. IsFiniteSet(A)
  <2>1. A \subseteq Allocated
    BY <1>1
  <2> QED  BY <2>1, FS_Subset
<1>4. Span(0, b)
  BY <1>0 DEF Span
<1> HIDE DEF A, T
<1>5. Grows(A, Allocated, b - 0)
  <2>1. A \cap Tile(e, 0, b) = {} /\ Allocated = A \cup Tile(e, 0, b)
    BY <1>1, <1>2 DEF T
  <2> QED  BY <1>3, <1>4, <2>1, UnitsJoin, Zenon
<1>6. Cardinality(A) \in Nat /\ Cardinality(Allocated) = Cardinality(A) + units[e]
  BY <1>0, <1>5 DEF Grows
<1> QED  BY <1>3, <1>6 DEF A

----------------------------------------------------------------------------
(* No unit is lost or given out twice *)

\* The entries that are neither allocated, freed nor given units.
LEMMA PoolSame ==
    ASSUME PoolInv, UNCHANGED <<units, heap, ekey>>
    PROVE  PoolInv'
BY DEF PoolInv, Allocated, Live

\* vmcache_free and Free.
LEMMA PoolFree ==
    ASSUME PoolInv, CTypes, NEW e \in Entries, FreeEntry(e)
    PROVE  PoolInv'
<1> USE ConstantsAssumption, CacheAssumption
<1>1. units[e] \in Nat /\ units[e] <= Pool + 1 /\ heap \in Nat /\ Pool \in Nat
  BY DEF PoolInv, CTypes, Live
<1>2. units' = [units EXCEPT ![e] = 0] /\ ekey' = [ekey EXCEPT ![e] = None]
      /\ heap' = heap + units[e]
  BY DEF FreeEntry
<1>3. /\ IsFiniteSet(Allocated)' /\ Cardinality(Allocated)' \in Nat
      /\ Cardinality(Allocated) = Cardinality(Allocated)' + units[e]
  BY <1>1, <1>2, UnitsFreed DEF PoolInv
<1>4. heap' \in Nat /\ heap' + Cardinality(Allocated)' = Pool
  BY <1>1, <1>2, <1>3 DEF PoolInv
<1>5. \A x \in Entries : /\ units'[x] \in Nat
                         /\ Live(x)' => units'[x] <= VSize[ekey'[x]]
                         /\ ~Live(x)' => units'[x] = 0
  BY <1>2 DEF PoolInv, CTypes, Live
<1> QED  BY <1>3, <1>4, <1>5 DEF PoolInv

\* vmemcache_entry_release.
LEMMA PoolRelease ==
    ASSUME PoolInv, CTypes, NEW e \in Entries, Release(e)
    PROVE  PoolInv'
BY PoolFree, PoolSame DEF Release

\* vmcache_alloc gives no more than what is asked and no more than there is.
LEMMA MinBelow ==
    ASSUME NEW a \in Nat, NEW b \in Nat
    PROVE  Min({a, b}) \in Nat /\ Min({a, b}) <= a /\ Min({a, b}) <= b
<1> DEFINE m == IF a <= b THEN a ELSE b
<1>1. m \in {a, b} /\ \A y \in {a, b} : m <= y
  OBVIOUS
<1> QED  BY <1>1 DEF Min

\* A put gets units for its entry.
LEMMA PoolAlloc ==
    ASSUME PoolInv, CTypes, NEW t \in Threads, ThreadEntries(t), PutAlloc(t)
    PROVE  PoolInv'
<1> USE ConstantsAssumption, CacheAssumption
<1>1. PICK e \in Entries, k \in Keys : e = pent[t] /\ k = ckey[t] /\ ekey[e] = k
  BY DEF PutAlloc, ThreadEntries, PutPCs, CTypes
<1>2. units[e] \in Nat /\ units[e] <= VSize[k] /\ VSize[k] \in 1 .. Pool + 1 /\ heap \in Nat
      /\ Pool \in Nat
  BY <1>1 DEF PoolInv, Live
<1>3. PICK n \in Nat : /\ n <= VSize[k] - units[e] /\ n <= heap
                       /\ units' = [units EXCEPT ![e] = @ + n] /\ heap' = heap - n
  <2> DEFINE m == Min({VSize[k] - units[e], heap})
  <2>1. VSize[k] - units[e] \in Nat
    BY <1>2
  <2>2. m \in Nat /\ m <= VSize[k] - units[e] /\ m <= heap
    BY <1>2, <2>1, MinBelow
  <2>3. units' = [units EXCEPT ![e] = @ + m] /\ heap' = heap - m
    BY <1>1 DEF PutAlloc
  <2> HIDE DEF m
  <2> QED  BY <2>2, <2>3
<1>4. IsFiniteSet(Allocated)' /\ Cardinality(Allocated)' = Cardinality(Allocated) + n
  <2>1. units[e] + n <= Pool + 1
    BY <1>2, <1>3
  <2> QED  BY <1>2, <1>3, <2>1, UnitsAdded DEF PoolInv
<1>5. Cardinality(Allocated) \in Nat
  BY FS_CardinalityType DEF PoolInv
<1>6. heap' \in Nat /\ heap' + Cardinality(Allocated)' = Pool
  BY <1>2, <1>3, <1>4, <1>5 DEF PoolInv
<1>7. UNCHANGED ekey
  BY DEF PutAlloc
<1>8. \A x \in Entries : /\ units'[x] \in Nat
                         /\ Live(x)' => units'[x] <= VSize[ekey'[x]]
                         /\ ~Live(x)' => units'[x] = 0
  BY <1>1, <1>2, <1>3, <1>7 DEF PoolInv, CTypes, Live
<1> QED  BY <1>4, <1>6, <1>8 DEF PoolInv

\* Every step of the cache keeps the account.
LEMMA PoolStep ==
    ASSUME CInv, PoolInv, [CNext]_vars
    PROVE  PoolInv'
<1> USE ConstantsAssumption, CacheAssumption DEF CInv
<1>1. CASE UNCHANGED vars
  BY <1>1, PoolSame DEF vars, cacheVars, entryVars
<1>2. ASSUME NEW t \in Threads, CCall(t) \/ CStep(t) PROVE PoolInv'
  <2>1. ASSUME NEW k \in Keys, NEW e \in Entries, PutStart(t, k, e) PROVE PoolInv'
    <3>1. UNCHANGED <<units, heap>> /\ ekey' = [ekey EXCEPT ![e] = k] /\ ~Live(e)
      BY <2>1 DEF PutStart
    <3>2. Allocated' = Allocated
      BY <3>1 DEF Allocated
    <3>3. \A x \in Entries : /\ units'[x] \in Nat
                             /\ Live(x)' => units'[x] <= VSize[ekey'[x]]
                             /\ ~Live(x)' => units'[x] = 0
      BY <3>1 DEF PoolInv, CTypes, Live
    <3> QED  BY <3>1, <3>2, <3>3 DEF PoolInv
  <2>2. CASE PutAlloc(t)
    BY <2>2, PoolAlloc
  <2>3. CASE PutError(t)
    <3>1. pent[t] \in Entries /\ FreeEntry(pent[t])
      BY <2>3 DEF PutError, ThreadEntries, PutPCs, CTypes
    <3> QED  BY <3>1, PoolFree
  <2>4. CASE \/ GetEnd(t) \/ ExistsEnd(t) \/ EvictCallback(t) \/ EvictRemove(t)
             \/ EvictKeyLost(t) \/ EvictKeyBusy(t) \/ EvictKeyRelease(t)
    <3>1. cent[t] \in Entries
      BY <2>4
         DEF GetEnd, ExistsEnd, EvictCallback, EvictRemove, EvictKeyLost, EvictKeyBusy,
             EvictKeyRelease, ThreadEntries, RefPCs, CTypes
    <3>2. Release(cent[t])
      BY <2>4
         DEF GetEnd, ExistsEnd, EvictCallback, EvictRemove, EvictKeyLost, EvictKeyBusy,
             EvictKeyRelease
    <3> QED  BY <3>1, <3>2, PoolRelease
  <2>5. ASSUME NEW k \in Keys, GetStart(t, k) \/ ExistsStart(t, k) \/ EvictKeyStart(t, k)
        PROVE  PoolInv'
    BY <2>5, PoolSame DEF GetStart, ExistsStart, EvictKeyStart, IndexGet
  <2>6. CASE \/ EvictStart(t) \/ PutIndex(t) \/ PutRepl(t) \/ PutIns(t) \/ GetUse(t)
             \/ EvictRepl(t) \/ EvictClaim(t) \/ EvictKeyClaim(t) \/ EvictKeyRepl(t)
             \/ EvictKeyAnswer(t) \/ EvictKeyReset(t) \/ Inside(t)
    <3>1. UNCHANGED <<units, heap, ekey>>
      BY <2>6
         DEF EvictStart, PutIndex, PutRepl, PutIns, GetUse, EvictRepl, EvictClaim, EvictKeyClaim,
             EvictKeyRepl, EvictKeyAnswer, EvictKeyReset, Inside, cacheVars, entryVars
    <3> QED  BY <3>1, PoolSame
  <2> QED  BY <1>2, <2>1, <2>2, <2>3, <2>4, <2>5, <2>6 DEF CCall, CStep
<1> QED  BY <1>1, <1>2 DEF CNext, CHalted

----------------------------------------------------------------------------
(* No entry is forgotten *)

\* One thread moves: what matters is what it knew, and what the index knew.
LEMMA KnownStays ==
    ASSUME LiveInv, NEW t \in Threads,
           \A u \in Threads : u # t => pent'[u] = pent[u] /\ cent'[u] = cent[u],
           \A x \in Entries : Live(x)' => Live(x) \/ x = pent'[t],
           \A x \in Entries : /\ Live(x)'
                              /\ Indexed(x) \/ x \in {pent[t], cent[t]}
                              => Known(x)'
    PROVE  LiveInv'
<1> SUFFICES ASSUME NEW x \in Entries, Live(x)' PROVE Known(x)'
  BY DEF LiveInv
<1>1. CASE x = pent'[t]
  BY <1>1 DEF Known
<1>2. CASE Live(x)
  <2>1. Known(x)
    BY <1>2 DEF LiveInv
  <2>2. CASE Indexed(x) \/ x \in {pent[t], cent[t]}
    BY <2>2
  <2>3. CASE \E u \in Threads : u # t /\ x \in {pent[u], cent[u]}
    BY <2>3 DEF Known
  <2> QED  BY <2>1, <2>2, <2>3 DEF Known
<1> QED  BY <1>1, <1>2

\* The last reference that is not the index's is released by its only holder.
LEMMA LastHolder ==
    ASSUME CInv, NEW t \in Threads, NEW e \in Entries, cent[t] = e, cpc[t] \in RefPCs,
           ~Indexed(e), \A u \in Threads : u # t => cent[u] # e
    PROVE  refcount[e] = 1
<1>1. ~PolicyRef(e)
  BY DEF CInv, VictimInv, PolicyRef, GotVictim, Answered
<1>2. Holders(e) = {t}
  BY DEF Holders
<1>3. Cardinality(Holders(e)) = 1
  BY <1>2, FS_Singleton
<1> QED  BY <1>1, <1>3 DEF CInv, RefcountExact

\* An eviction about to remove its entry has dropped the policy's reference.
LEMMA LastIndexed ==
    ASSUME CInv, NEW t \in Threads, NEW e \in Entries, cent[t] = e, cpc[t] = "ev_remove",
           \A u \in Threads : u # t => cent[u] # e
    PROVE  refcount[e] = 1
<1>1. GotVictim(t, e)
  BY DEF GotVictim
<1>2. /\ Indexed(e) /\ e \notin Elems(first) /\ e \notin orphans
      /\ \A u \in Threads : GotVictim(u, e) => u = t
  BY <1>1 DEF CInv, VictimInv
<1>4. ~PolicyRef(e)
  BY <1>2 DEF PolicyRef, GotVictim, Answered
<1>5. Holders(e) = {}
  BY DEF Holders, RefPCs
<1>6. Cardinality(Holders(e)) = 0
  BY <1>5, FS_EmptySet
<1> QED  BY <1>2, <1>4, <1>6 DEF CInv, RefcountExact

\* Every step of the cache keeps track of the entries that are allocated.
LEMMA LiveStep ==
    ASSUME CInv, LiveInv, [CNext]_vars
    PROVE  LiveInv'
<1> USE ConstantsAssumption, CacheAssumption
<1>1. CASE UNCHANGED vars
  BY <1>1 DEF vars, cacheVars, entryVars, LiveInv, Live, Known, Indexed
<1>2. ASSUME NEW t \in Threads, CCall(t) \/ CStep(t) PROVE LiveInv'
  <2> DEFINE Rest == \A u \in Threads : u # t => pent'[u] = pent[u] /\ cent'[u] = cent[u]
             NoNew == \A x \in Entries : Live(x)' => Live(x) \/ x = pent'[t]
             Old == \A x \in Entries :
                       Live(x)' /\ (Indexed(x) \/ x \in {pent[t], cent[t]}) => Known(x)'
  <2>0. ASSUME Rest, NoNew, Old PROVE LiveInv'
    BY <2>0, KnownStays
  <2> USE DEF CInv, CTypes, EndOp, CGoto
  <2>1. ASSUME NEW k \in Keys, NEW e \in Entries, PutStart(t, k, e) PROVE LiveInv'
    <3>1. Rest /\ NoNew
      BY <2>1 DEF PutStart, Live
    <3>2. Old
      BY <2>1 DEF PutStart, ThreadEntries, Known, Indexed
    <3> QED  BY <2>0, <3>1, <3>2
  <2>2. ASSUME NEW k \in Keys, GetStart(t, k) \/ ExistsStart(t, k) \/ EvictKeyStart(t, k)
        PROVE  LiveInv'
    <3>1. Rest /\ NoNew
      BY <2>2 DEF GetStart, ExistsStart, EvictKeyStart, IndexGet, Live
    <3>2. Old
      BY <2>2 DEF GetStart, ExistsStart, EvictKeyStart, IndexGet, ThreadEntries, Known, Indexed
    <3> QED  BY <2>0, <3>1, <3>2
  <2>3. CASE \/ PutAlloc(t) \/ GetUse(t) \/ EvictStart(t) \/ EvictKeyClaim(t)
             \/ EvictKeyRepl(t) \/ EvictKeyAnswer(t) \/ Inside(t)
    <3>1. UNCHANGED <<index, ekey, pent, cent>>
      BY <2>3
         DEF PutAlloc, GetUse, EvictStart, EvictKeyClaim, EvictKeyRepl, EvictKeyAnswer, Inside,
             cacheVars, entryVars
    <3> QED  BY <3>1 DEF LiveInv, Live, Known, Indexed
  <2>4. CASE EvictCallback(t) \/ EvictKeyBusy(t) \/ EvictKeyRelease(t)
    <3>1. cent[t] \in Entries
      BY <2>4 DEF EvictCallback, EvictKeyBusy, EvictKeyRelease, ThreadEntries, RefPCs
    <3>2. UNCHANGED <<index, pent, cent>> /\ Release(cent[t])
      BY <2>4 DEF EvictCallback, EvictKeyBusy, EvictKeyRelease
    <3>3. \A x \in Entries : Live(x)' => Live(x)
      BY <3>1, <3>2 DEF Release, FreeEntry, Live
    <3> QED  BY <3>2, <3>3 DEF LiveInv, Known, Indexed
  <2>5. CASE PutIndex(t)
    <3>1. UNCHANGED <<ekey, pent, cent>> /\ pent[t] \in Entries /\ ckey[t] \in Keys
      BY <2>5 DEF PutIndex, ThreadEntries, PutPCs
    <3>2. \A x \in Entries : Indexed(x) => Indexed(x)'
      BY <2>5, <3>1 DEF PutIndex, Indexed
    <3> QED  BY <3>1, <3>2 DEF LiveInv, Live, Known
  <2>6. CASE PutRepl(t) \/ PutIns(t)
    <3>1. /\ Rest /\ UNCHANGED <<index, ekey>> /\ cent[t] = None
          /\ pent[t] \in Entries /\ Indexed(pent[t])
      BY <2>6 DEF PutRepl, PutIns, ThreadEntries, PutPCs, PutInv
    <3>2. NoNew
      BY <3>1 DEF Live
    <3>3. Old
      BY <3>1 DEF Known, Indexed
    <3> QED  BY <2>0, <3>1, <3>2, <3>3
  <2>7. CASE PutError(t)
    <3>1. /\ Rest /\ UNCHANGED index /\ cent[t] = None /\ pent[t] \in Entries
          /\ ekey' = [ekey EXCEPT ![pent[t]] = None]
      BY <2>7 DEF PutError, FreeEntry, ThreadEntries, PutPCs
    <3>2. NoNew
      BY <3>1 DEF Live
    <3>3. Old
      BY <3>1 DEF Known, Indexed, Live
    <3> QED  BY <2>0, <3>1, <3>2, <3>3
  <2>8. CASE GetEnd(t) \/ ExistsEnd(t) \/ EvictKeyLost(t)
    <3>1. PICK e \in Entries : e = cent[t]
      BY <2>8 DEF GetEnd, ExistsEnd, EvictKeyLost, ThreadEntries, RefPCs
    <3>2. /\ Rest /\ UNCHANGED index /\ pent[t] = None
          /\ Release(e) /\ cpc[t] \in RefPCs
      BY <2>8, <3>1 DEF GetEnd, ExistsEnd, EvictKeyLost, ThreadEntries, RefPCs
    <3>3. NoNew
      BY <3>2 DEF Release, FreeEntry, Live
    <3>4. Indexed(e) \/ (\E u \in Threads : u # t /\ cent[u] = e) \/ refcount[e] = 1
      BY <3>1, <3>2, LastHolder
    <3>5. refcount[e] = 1 => ~Live(e)'
      BY <3>2 DEF Release, FreeEntry, Live
    <3>6. Old
      BY <3>1, <3>2, <3>4, <3>5 DEF Known, Indexed
    <3> QED  BY <2>0, <3>2, <3>3, <3>6
  <2>9. CASE EvictRemove(t)
    <3>1. PICK e \in Entries, k \in Keys : e = cent[t] /\ k = ekey[e]
      BY <2>9 DEF EvictRemove, ThreadEntries
    <3>2. /\ Rest /\ Release(e) /\ cpc[t] = "ev_remove"
          /\ index' = [index EXCEPT ![k] = None]
          /\ pent'[t] = pent[t]
      BY <2>9, <3>1 DEF EvictRemove, EndEvict
    <3>3. index[k] = e
      <4>1. Claims(t, e)
        BY <3>1, <3>2 DEF Claims, ClaimPCs
      <4> QED  BY <3>1, <4>1 DEF ClaimInv, IndexInv, Indexed
    <3>4. NoNew
      BY <3>2 DEF Release, FreeEntry, Live
    <3>5. (\E u \in Threads : u # t /\ cent[u] = e) \/ refcount[e] = 1
      BY <3>1, <3>2, LastIndexed
    <3>6. refcount[e] = 1 => ~Live(e)'
      BY <3>2 DEF Release, FreeEntry, Live
    <3>7. \A x \in Entries : x # e /\ Indexed(x) => Indexed(x)'
      BY <3>2, <3>3 DEF Indexed
    <3>8. Old
      BY <3>1, <3>2, <3>5, <3>6, <3>7 DEF Known
    <3> QED  BY <2>0, <3>2, <3>4, <3>8
  <2>10. CASE EvictRepl(t)
    <3>1. /\ Rest /\ UNCHANGED <<index, ekey>> /\ cent[t] = None /\ pent'[t] = pent[t]
      BY <2>10 DEF EvictRepl, NoVictim, ThreadEntries, entryVars
    <3>2. NoNew
      BY <3>1 DEF Live
    <3>3. Old
      BY <3>1 DEF Known, Indexed
    <3> QED  BY <2>0, <3>1, <3>2, <3>3
  <2>11. CASE EvictClaim(t)
    <3>1. /\ Rest /\ UNCHANGED <<index, ekey>> /\ cent[t] = None /\ pent'[t] = pent[t]
      BY <2>11 DEF EvictClaim, NoVictim, ThreadEntries
    <3>2. NoNew
      BY <3>1 DEF Live
    <3>3. Old
      BY <3>1 DEF Known, Indexed
    <3> QED  BY <2>0, <3>1, <3>2, <3>3
  <2>12. CASE EvictKeyReset(t)
    <3>1. /\ Rest /\ UNCHANGED <<index, ekey>> /\ pent[t] = None /\ cent[t] \in Entries
          /\ Claims(t, cent[t])
      BY <2>12 DEF EvictKeyReset, ThreadEntries, Claims, ClaimPCs
    <3>2. Indexed(cent[t])
      BY <3>1 DEF ClaimInv
    <3>3. NoNew
      BY <3>1 DEF Live
    <3>4. Old
      BY <3>1, <3>2 DEF Known, Indexed
    <3> QED  BY <2>0, <3>1, <3>3, <3>4
  <2> QED
    BY <1>2, <2>1, <2>2, <2>3, <2>4, <2>5, <2>6, <2>7, <2>8, <2>9, <2>10, <2>11, <2>12
       DEF CCall, CStep
<1> QED  BY <1>1, <1>2 DEF CNext, CHalted

----------------------------------------------------------------------------
(* The theorems *)

\* Both invariants hold from the start and for ever.
LEMMA PoolInvariant ==
    ASSUME NoneIsDisciplined
    PROVE  CSpec => [](CInv /\ PoolInv /\ LiveInv)
<1>1. CInit => PoolInv /\ LiveInv
  <2> SUFFICES ASSUME CInit PROVE PoolInv /\ LiveInv
    OBVIOUS
  <2> USE ConstantsAssumption, CacheAssumption
  <2>1. Allocated = {}
    BY DEF CInit, Allocated
  <2>2. IsFiniteSet(Allocated) /\ Cardinality(Allocated) = 0
    BY <2>1, FS_EmptySet
  <2> QED  BY <2>2 DEF CInit, PoolInv, LiveInv, Live
<1>2. CInv /\ (PoolInv /\ LiveInv) /\ [CNext]_vars => (PoolInv /\ LiveInv)'
  BY PoolStep, LiveStep
<1> QED  BY <1>1, <1>2, CacheInvariant, PTL DEF CSpec

\* An entry has no more units than the pool.
LEMMA UnitsInPool ==
    ASSUME CTypes, PoolInv, NEW e \in Entries
    PROVE  units[e] \in 0 .. Pool
<1>1. units[e] \in Nat /\ Pool \in Nat /\ units[e] <= Pool + 1
  BY CacheAssumption DEF PoolInv, CTypes, Live
<1>2. PICK b \in Nat : b = units[e]
  BY <1>1
<1> DEFINE T == Tile(e, 0, b)
<1>3. T \subseteq Allocated
  <2> SUFFICES ASSUME NEW p \in T PROVE p \in Allocated
    OBVIOUS
  <2>1. PICK i \in 1 .. b : p = <<e, i>>
    BY DEF Tile
  <2>2. i \in 1 .. Pool + 1 /\ i <= units[e]
    BY <1>1, <1>2, <2>1
  <2> QED  BY <2>1, <2>2 DEF Allocated
<1>4. Span(0, b)
  BY <1>2 DEF Span
<1>5. Grows({}, T, b - 0)
  <2>1. IsFiniteSet({}) /\ {} \cap Tile(e, 0, b) = {} /\ T = {} \cup Tile(e, 0, b)
    BY FS_EmptySet
  <2> QED  BY <1>4, <2>1, UnitsJoin, Zenon
<1>6. Cardinality({}) = 0
  BY FS_EmptySet
<1>7. IsFiniteSet(T) /\ Cardinality(T) = b
  BY <1>2, <1>5, <1>6 DEF Grows
<1> HIDE DEF T
<1>8. Cardinality(T) <= Cardinality(Allocated) /\ Cardinality(Allocated) \in Nat
  BY <1>3, FS_Subset, FS_CardinalityType DEF PoolInv
<1> QED  BY <1>1, <1>2, <1>7, <1>8 DEF PoolInv

\* The cache keeps its types; above all a count never exceeds the number of
\* threads by more than two and the heap never hands out what it has not got.
THEOREM CacheTypeCorrect ==
    ASSUME NoneIsDisciplined
    PROVE  CSpec => []CacheTypeOK
<1>1. CInv /\ PoolInv => CacheTypeOK
  <2> SUFFICES ASSUME CInv, PoolInv PROVE CacheTypeOK
    OBVIOUS
  <2>1. CTypes
    BY DEF CInv
  <2>2. units \in [Entries -> 0 .. Pool]
    BY <2>1, UnitsInPool DEF CTypes
  <2>3. heap \in 0 .. Pool
    <3>1. Cardinality(Allocated) \in Nat
      BY FS_CardinalityType DEF PoolInv
    <3> QED  BY <3>1, CacheAssumption DEF PoolInv
  <2>4. ASSUME NEW e \in Entries PROVE refcount[e] \in 0 .. Cardinality(Threads) + 2
    <3>1. Holders(e) \subseteq Threads
      BY DEF Holders
    <3>2. Cardinality(Holders(e)) <= Cardinality(Threads) /\ Cardinality(Threads) \in Nat
      BY <3>1, ThreadsAssumption, FS_Subset, FS_CardinalityType
    <3>3. Cardinality(Holders(e)) \in Nat
      BY HoldersCounted
    <3> QED  BY <3>2, <3>3 DEF CInv, RefcountExact
  <2>5. refcount \in [Entries -> 0 .. Cardinality(Threads) + 2]
    BY <2>1, <2>4 DEF CTypes
  <2> QED  BY <2>1, <2>2, <2>3, <2>5 DEF CTypes, CacheTypeOK
<1> QED  BY <1>1, PoolInvariant, PTL

\* When no call is in progress nothing is allocated but what the index holds and
\* the heap has all the rest, whatever the puts, failures and evictions were.
THEOREM CacheQuiescentNoLeak ==
    ASSUME NoneIsDisciplined
    PROVE  CSpec => []QuiescentNoLeak
<1>1. CInv /\ PoolInv /\ LiveInv => QuiescentNoLeak
  <2> SUFFICES ASSUME CInv, PoolInv, LiveInv, \A t \in Threads : cpc[t] = "idle"
               PROVE  /\ \A e \in Entries : Live(e) <=> Indexed(e)
                      /\ heap + Cardinality(Allocated) = Pool
    BY DEF QuiescentNoLeak
  <2>1. ASSUME NEW e \in Entries, Live(e) PROVE Indexed(e)
    BY <2>1, ConstantsAssumption DEF LiveInv, Known, CInv, ThreadEntries
  <2>2. ASSUME NEW e \in Entries, Indexed(e) PROVE Live(e)
    BY <2>2, ConstantsAssumption, CacheAssumption DEF CInv, IndexInv, Indexed, Live
  <2> QED  BY <2>1, <2>2 DEF PoolInv
<1> QED  BY <1>1, PoolInvariant, PTL
=============================================================================
