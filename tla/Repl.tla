------------------------------- MODULE Repl -------------------------------
(***************************************************************************)
(* The buffered LRU replacement policy of vmemcache_repl.c.                *)
(*                                                                         *)
(* Every cache entry has a pointer p_entry to a list node.  The pointer    *)
(* doubles as a lock: NULL means that somebody else is at work on the      *)
(* node.  A use does not touch the list: it locks the node and puts it in  *)
(* a ring buffer; whoever holds the mutex later drains the ring, moves     *)
(* each node to the tail of the list and unlocks it.  An eviction locks a  *)
(* node, unlinks it and frees it.                                          *)
(*                                                                         *)
(* A node is created for one entry and freed before the memory of the      *)
(* entry is, so a node is named by its entry.                              *)
(*                                                                         *)
(* The actions are grouped by operation; a client (Next below, or module   *)
(* Cache) starts an operation with InsertNode, Use or EvictLock and is in  *)
(* it until rpc is "idle" or "evicted" again.                              *)
(***************************************************************************)
EXTENDS RingQueue

CONSTANTS
    Threads,        \* threads that call into the policy
    None,           \* NULL
    Disciplined     \* TRUE: no client touches an entry while it is inserted

ASSUME ConstantsAssumption ==
    /\ None \notin Entries
    /\ None \notin Threads
    /\ Disciplined \in BOOLEAN

\* A process has finitely many threads: the semaphores count them.
ASSUME ThreadsAssumption == IsFiniteSet(Threads)

VARIABLES
    p_entry,    \* entry -> value.p_entry: its node, or None while locked
    node,       \* entries whose repl_p_entry is allocated
    first,      \* the TAILQ, least recently used first
    lock,       \* holder of head->lock, or None
    counter,    \* iterations of dequeue_all by the holder of the lock
    cursor,     \* position of repl_p_lru_evict in its scan of the TAILQ
    rpc,        \* thread -> where it is inside the policy
    rarg,       \* thread -> the entry it works on, or None
    errno,      \* thread -> what a failed eviction reports
    fault       \* TAILQ_REMOVE went through the NULL link of an unlinked node

listVars == <<p_entry, node, first>>
replVars == <<ringVars, listVars, lock, counter, cursor, rpc, rarg, errno,
              fault>>

Errnos == {"0", "ESRCH", "EAGAIN"}

\* Places at which a thread owns the node rarg[t] outside the ring: "in the
\* middle of being used" (repl_p_lru_use).
HoldPCs == {"use_enq", "use_lock", "use_deq", "enq_claim"}
EvictPCs == {"ev_deq", "ev_second", "ev_scan", "ev_last"}
RPCs == HoldPCs \cup EvictPCs \cup
            {"idle", "ins_lock", "enq_write", "enq_post", "evicted"}

\* Threads that hold head->lock at these places.
LockPCs == {"use_deq"} \cup EvictPCs

Holds(t, e) == rpc[t] \in HoldPCs /\ rarg[t] = e
Inserting(t, e) == rpc[t] = "ins_lock" /\ rarg[t] = e

ReplInit ==
    /\ RingInit
    /\ p_entry = [e \in Entries |-> None]
    /\ node = {}
    /\ first = <<>>
    /\ lock = None
    /\ counter = 0
    /\ cursor = 0
    /\ rpc = [t \in Threads |-> "idle"]
    /\ rarg = [t \in Threads |-> None]
    /\ errno = [t \in Threads |-> "0"]
    /\ fault = FALSE

Goto(t, pc) == rpc' = [rpc EXCEPT ![t] = pc]

----------------------------------------------------------------------------
(* The TAILQ macros of sys/queue.h. *)

\* Position of e in the list.
Pos(s, e) == CHOOSE i \in 1 .. Len(s) : s[i] = e

\* TAILQ_REMOVE of a linked node.
Unlink(s, e) ==
    [i \in 1 .. Len(s) - 1 |-> IF i < Pos(s, e) THEN s[i] ELSE s[i + 1]]

\* Faulty variant: the node is linked at the tail but not taken out before.
MoveToTail_KeepsOld(s, e) == Append(s, e)

\* TAILQ_MOVE_TO_TAIL.  A node without successor is left alone: the last one,
\* and one that was never linked.
MoveToTail(s, e) ==
    IF e \in Elems(s) THEN Append(Unlink(s, e), e) ELSE s

----------------------------------------------------------------------------
(* p_entry as a lock.  The load of p_entry and the compare-and-swap are one *)
(* step: only their outcome is visible.                                     *)

\* Faulty variant: p_entry is read but not swapped.
LockEntry_NoSwap(e) == p_entry[e] # None /\ UNCHANGED p_entry

LockEntry(e) == p_entry[e] # None /\ p_entry' = [p_entry EXCEPT ![e] = None]

\* Faulty variant: the store is missing.
UnlockEntry_Missing(e) == UNCHANGED p_entry

UnlockEntry(e) == p_entry' = [p_entry EXCEPT ![e] = e]

----------------------------------------------------------------------------
(* repl_p_lru_insert *)

\* The node is allocated, filled in and published through p_entry before the
\* lock is taken.
InsertNode(t, e) ==
    /\ rpc[t] = "idle"
    /\ e \notin node
    /\ node' = node \cup {e}
    /\ p_entry' = [p_entry EXCEPT ![e] = e]
    /\ Goto(t, "ins_lock")
    /\ rarg' = [rarg EXCEPT ![t] = e]
    /\ UNCHANGED <<ringVars, first, lock, counter, cursor, errno, fault>>

\* Under the lock the node becomes the tail of the list.
InsertTail(t) ==
    /\ rpc[t] = "ins_lock"
    /\ lock = None
    /\ first' = Append(first, rarg[t])
    /\ Goto(t, "idle")
    /\ rarg' = [rarg EXCEPT ![t] = None]
    /\ UNCHANGED <<ringVars, p_entry, node, lock, counter, cursor, errno,
                   fault>>

----------------------------------------------------------------------------
(* repl_p_lru_use *)

\* An entry whose p_entry is NULL is left alone; otherwise it is locked.
Use(t, e) ==
    /\ rpc[t] = "idle"
    /\ \/ /\ LockEntry(e)
          /\ Goto(t, "use_enq")
          /\ rarg' = [rarg EXCEPT ![t] = e]
       \/ /\ p_entry[e] = None
          /\ UNCHANGED <<p_entry, rpc, rarg>>
    /\ UNCHANGED <<ringVars, node, first, lock, counter, cursor, errno, fault>>

\* ringbuf_tryenqueue: a slot is reserved ...
UseReserve(t) ==
    /\ rpc[t] = "use_enq"
    /\ Reserve
    /\ Goto(t, "enq_claim")
    /\ UNCHANGED <<listVars, lock, counter, cursor, rarg, errno, fault>>

\* ... or the ring is full and has to be drained first.
UseFull(t) ==
    /\ rpc[t] = "use_enq"
    /\ nfree = 0
    /\ Goto(t, "use_lock")
    /\ UNCHANGED <<ringVars, listVars, lock, counter, cursor, rarg, errno,
                   fault>>

UseLock(t) ==
    /\ rpc[t] = "use_lock"
    /\ lock = None
    /\ lock' = t
    /\ Goto(t, "use_deq")
    /\ UNCHANGED <<ringVars, listVars, counter, cursor, rarg, errno, fault>>

EnqClaim(t) ==
    /\ rpc[t] = "enq_claim"
    /\ Claim(rarg[t])
    /\ Goto(t, "enq_write")
    /\ UNCHANGED <<listVars, lock, counter, cursor, rarg, errno, fault>>

EnqWrite(t) ==
    /\ rpc[t] = "enq_write"
    /\ Write(rarg[t])
    /\ Goto(t, "enq_post")
    /\ UNCHANGED <<listVars, lock, counter, cursor, rarg, errno, fault>>

EnqPost(t) ==
    /\ rpc[t] = "enq_post"
    /\ Post
    /\ Goto(t, "idle")
    /\ rarg' = [rarg EXCEPT ![t] = None]
    /\ UNCHANGED <<listVars, lock, counter, cursor, errno, fault>>

----------------------------------------------------------------------------
(* dequeue_all, run by the holder of the lock *)

\* Where the caller of dequeue_all continues.
AfterDequeue(t) ==
    IF rpc[t] = "use_deq"
    THEN Goto(t, "use_enq") /\ lock' = None
    ELSE Goto(t, "ev_second") /\ UNCHANGED lock

\* Faulty variants: one iteration too many; no limit at all.
DequeueAgain_OneMore(t) ==
    \/ counter < RingLen /\ counter' = counter + 1 /\ UNCHANGED <<rpc, lock>>
    \/ counter >= RingLen /\ counter' = 0 /\ AfterDequeue(t)
DequeueAgain_NoLimit(t) == UNCHANGED <<counter, rpc, lock>>

\* The loop ends after RingLen iterations even if the ring is being refilled.
DequeueAgain(t) ==
    \/ /\ counter + 1 < RingLen
       /\ counter' = counter + 1
       /\ UNCHANGED <<rpc, lock>>
    \/ /\ counter + 1 >= RingLen
       /\ counter' = 0
       /\ AfterDequeue(t)

\* One iteration: a node leaves the ring, goes to the tail, is unlocked.
DequeueOne(t) ==
    /\ rpc[t] \in {"use_deq", "ev_deq"}
    /\ Take
    /\ first' = MoveToTail(first, Head(ring))
    /\ UnlockEntry(Head(ring))
    /\ DequeueAgain(t)
    /\ UNCHANGED <<node, cursor, rarg, errno, fault>>

\* ringbuf_trydequeue fails: nothing is posted.
DequeueNone(t) ==
    /\ rpc[t] \in {"use_deq", "ev_deq"}
    /\ nused = 0
    /\ counter' = 0
    /\ AfterDequeue(t)
    /\ UNCHANGED <<ringVars, listVars, cursor, rarg, errno, fault>>

----------------------------------------------------------------------------
(* repl_p_lru_evict.  The argument x is None for the least recently used   *)
(* entry and otherwise the entry to evict.                                 *)

\* The entry the first and the second try go for.
Candidate(x) == IF x = None THEN Head(first) ELSE x

\* evict_found_entry: the locked node is unlinked and freed.  For a node that
\* is not linked yet, TAILQ_REMOVE stores through a NULL pointer.
Found(t, e) ==
    /\ \/ /\ e \in Elems(first)
          /\ first' = Unlink(first, e)
          /\ node' = node \ {e}
          /\ Goto(t, "evicted")
          /\ rarg' = [rarg EXCEPT ![t] = e]
          /\ lock' = None
          /\ cursor' = 0
          /\ UNCHANGED fault
       \/ /\ e \notin Elems(first)
          /\ fault' = TRUE
          /\ UNCHANGED <<first, node, rpc, rarg, lock, cursor>>
    /\ UNCHANGED <<counter, errno>>

\* The eviction gives up: NULL is returned and errno tells why.
GiveUp(t, err) ==
    /\ Goto(t, "evicted")
    /\ rarg' = [rarg EXCEPT ![t] = None]
    /\ errno' = [errno EXCEPT ![t] = err]
    /\ lock' = None
    /\ cursor' = 0
    /\ UNCHANGED <<ringVars, listVars, counter, fault>>

\* The candidate is locked and evicted.
Grab(t, e) ==
    /\ LockEntry(e)
    /\ Found(t, e)
    /\ UNCHANGED ringVars

\* The mutex is taken and the first try is made; only if that fails is the
\* mutex still held afterwards.
EvictLock(t, x) ==
    /\ rpc[t] = "idle"
    /\ lock = None
    /\ \/ /\ first = <<>>
          /\ GiveUp(t, "ESRCH")
       \/ /\ first # <<>>
          /\ Grab(t, Candidate(x))
       \/ /\ first # <<>>
          /\ p_entry[Candidate(x)] = None
          /\ lock' = t
          /\ Goto(t, "ev_deq")
          /\ rarg' = [rarg EXCEPT ![t] = x]
          /\ UNCHANGED <<ringVars, listVars, counter, cursor, errno, fault>>

\* The second try, after the ring was drained.  An eviction by key gives up
\* here, an eviction of the oldest goes on to the younger ones.
EvictSecond(t) ==
    /\ rpc[t] = "ev_second"
    /\ \/ Grab(t, Candidate(rarg[t]))
       \/ /\ p_entry[Candidate(rarg[t])] = None
          /\ \/ /\ rarg[t] # None
                /\ GiveUp(t, "EAGAIN")
             \/ /\ rarg[t] = None
                /\ Goto(t, "ev_scan")
                /\ cursor' = 1
                /\ UNCHANGED <<ringVars, listVars, lock, counter, rarg, errno,
                               fault>>

\* One TAILQ_NEXT: the next node is tried, or the list ends.
EvictScan(t) ==
    /\ rpc[t] = "ev_scan"
    /\ \/ /\ cursor < Len(first)
          /\ Grab(t, first[cursor + 1])
       \/ /\ cursor < Len(first)
          /\ p_entry[first[cursor + 1]] = None
          /\ cursor' = cursor + 1
          /\ UNCHANGED <<ringVars, listVars, lock, counter, rpc, rarg, errno,
                         fault>>
       \/ /\ cursor >= Len(first)
          /\ Goto(t, "ev_last")
          /\ UNCHANGED <<ringVars, listVars, lock, counter, cursor, rarg,
                         errno, fault>>

\* Faulty variant: no last chance.
EvictLast_GivesUp(t) == rpc[t] = "ev_last" /\ GiveUp(t, "ESRCH")

\* The last chance: evict what the ring gives, without unlocking it.
EvictLast(t) ==
    /\ rpc[t] = "ev_last"
    /\ \/ /\ Take
          /\ Found(t, Head(ring))
          /\ UNCHANGED p_entry
       \/ /\ nused = 0
          /\ GiveUp(t, "ESRCH")

\* The caller of repl_p_evict picks up the result.
Return(t) ==
    /\ rpc[t] = "evicted"
    /\ Goto(t, "idle")
    /\ rarg' = [rarg EXCEPT ![t] = None]
    /\ errno' = [errno EXCEPT ![t] = "0"]
    /\ UNCHANGED <<ringVars, listVars, lock, counter, cursor, fault>>

----------------------------------------------------------------------------
(* The policy under any client. *)

\* The steps a thread takes on its own once an operation was started.
ReplStep(t) ==
    \/ InsertTail(t)
    \/ UseReserve(t) \/ UseFull(t) \/ UseLock(t)
    \/ EnqClaim(t) \/ EnqWrite(t) \/ EnqPost(t)
    \/ DequeueOne(t) \/ DequeueNone(t)
    \/ EvictSecond(t) \/ EvictScan(t) \/ EvictLast(t)

\* A disciplined client leaves an entry alone until its insertion is over.
MayTouch(e) == Disciplined => \A u \in Threads : ~Inserting(u, e)
MayInsert(e) == Disciplined => \A u \in Threads : rarg[u] # e

Call(t) ==
    \/ \E e \in Entries : MayInsert(e) /\ InsertNode(t, e)
    \/ \E e \in Entries : MayTouch(e) /\ Use(t, e)
    \/ \E x \in Entries \cup {None} : MayTouch(x) /\ EvictLock(t, x)

\* After the fault the process is gone.
Halted == fault /\ UNCHANGED replVars

ReplNext ==
    \/ ~fault /\ \E t \in Threads : Call(t) \/ ReplStep(t) \/ Return(t)
    \/ Halted

ReplSpec == ReplInit /\ [][ReplNext]_replVars

----------------------------------------------------------------------------
(* Properties *)

\* Types of the policy's state: the list head, the ring, every thread's place
\* in repl_p_lru_insert, _use and _evict.
ReplTypeOK ==
    /\ ring \in Seq(Entries)
    /\ unwritten \subseteq Entries
    /\ nfree \in Int
    /\ nused \in Int
    /\ p_entry \in [Entries -> Entries \cup {None}]
    /\ node \subseteq Entries
    /\ first \in Seq(Entries)
    /\ lock \in Threads \cup {None}
    /\ counter \in 0 .. RingLen - 1
    /\ cursor \in Nat
    /\ rpc \in [Threads -> RPCs]
    /\ rarg \in [Threads -> Entries \cup {None}]
    /\ errno \in [Threads -> Errnos]
    /\ fault \in BOOLEAN

\* Threads at these places work on the entry rarg[t].
ArgPCs == HoldPCs \cup {"ins_lock", "enq_write", "enq_post"}
ArgOK == \A t \in Threads : rpc[t] \in ArgPCs => rarg[t] \in Entries

NoDup(s) == \A i, j \in DOMAIN s : s[i] = s[j] => i = j

\* A node is in one hand at a time.  An unlocked node (p_entry not NULL) is
\* neither in the ring nor held by a user; the ring holds a node at most once,
\* never one that a user is still about to enqueue; two users never hold the
\* same node; and everything in the ring or in a user's hand is allocated, so
\* dequeue_all never dereferences a node that repl_p_lru_evict freed.
NodeOwnership ==
    /\ \A e \in Entries :
          p_entry[e] # None => /\ e \in node
                               /\ e \notin Elems(ring)
                               /\ \A t \in Threads : ~Holds(t, e)
    /\ NoDup(ring)
    /\ Elems(ring) \subseteq node
    /\ \A t \in Threads, e \in Entries :
          Holds(t, e) => e \in node /\ e \notin Elems(ring)
    /\ \A t, u \in Threads, e \in Entries :
          Holds(t, e) /\ Holds(u, e) => t = u

\* No node is lost: one that is locked (p_entry NULL) is on its way back, in
\* the ring or in the hands of a user, until repl_p_lru_evict frees it.
NoNodeLost ==
    \A e \in node :
        \/ fault
        \/ p_entry[e] # None
        \/ e \in Elems(ring)
        \/ \E t \in Threads : Holds(t, e)

\* The TAILQ holds each allocated node exactly once, except the ones whose
\* repl_p_lru_insert has not got the lock yet, and no freed node.
ListExact ==
    /\ NoDup(first)
    /\ Elems(first) \subseteq node
    /\ \A e \in node :
          e \notin Elems(first) <=> \E t \in Threads : Inserting(t, e)

\* The strengthening ListExact needs: a node that is being inserted is allocated,
\* is not linked yet and is inserted by one thread.
InsertingOwned ==
    /\ \A t \in Threads, e \in Entries :
          Inserting(t, e) => e \in node /\ e \notin Elems(first)
    /\ \A t, u \in Threads, e \in Entries :
          Inserting(t, e) /\ Inserting(u, e) => t = u

\* The two semaphores account for every slot: free, reserved by a producer, or
\* at a claimed position; and posted or about to be.  So the ring never
\* overflows, and a consumer that got a token finds a pointer to wait for.
RingAccounting ==
    /\ nfree >= 0 /\ nused >= 0
    /\ nfree + Cardinality({t \in Threads : rpc[t] = "enq_claim"}) + Len(ring)
          = RingLen
    /\ nused + Cardinality({t \in Threads : rpc[t] \in {"enq_write", "enq_post"}})
          = Len(ring)

\* head->lock excludes: only its holder drains the ring or walks the list, and
\* the holder is in one of the loops that end by releasing it.
LockDiscipline ==
    \A t \in Threads : rpc[t] \in LockPCs <=> lock = t

\* Inside repl_p_lru_evict, after the first test, the list is never empty.
EvictNonEmpty == \A t \in Threads : rpc[t] \in EvictPCs => first # <<>>

\* What a disciplined client buys: a node that is not linked yet is unlocked,
\* and nobody is evicting its entry.
DisciplineKept ==
    Disciplined =>
        \A u \in Threads, e \in Entries : Inserting(u, e) =>
            /\ p_entry[e] # None
            /\ \A t \in Threads : rpc[t] \in EvictPCs => rarg[t] # e

\* TAILQ_REMOVE only ever unlinks a linked node.
NoFault == ~fault

\* "this loop ends for sure" (dequeue_all): whoever takes head->lock gives it
\* back, however fast other threads refill the ring.
LockReleased == \A t \in Threads : lock = t ~> lock # t

\* An eviction of the oldest finds no victim in a list that is not empty only
\* while some thread is in the middle of repl_p_lru_use: with nobody using
\* anything, an entry is always found.
MiddleOfUse(t) == rpc[t] \in HoldPCs \cup {"enq_write", "enq_post"}
EsrchOnlyUnderUse ==
    [][\A t \in Threads :
         rpc[t] = "ev_last" /\ rpc'[t] = "evicted" /\ rarg'[t] = None
           => \E u \in Threads : MiddleOfUse(u)]_replVars

============================================================================
