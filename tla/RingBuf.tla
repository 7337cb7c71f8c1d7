------------------------------ MODULE RingBuf ------------------------------
(***************************************************************************)
(* The ring buffer of ringbuf.c, one action per atomic instruction that    *)
(* another thread can observe.  Two semaphores admit producers and         *)
(* consumers; free-running 64-bit counters, reduced by len_mask, hand out  *)
(* slots; the slots themselves are filled and emptied by compare-and-swap. *)
(*                                                                         *)
(* A thread that got a position may be overtaken by threads that got a     *)
(* later one, so a consumer may find its slot still empty and a producer   *)
(* may find its slot still full: both then spin.                           *)
(*                                                                         *)
(* The clients hand over a pointer at most once before they get it back.   *)
(* The load and the compare-and-swap of ringbuf_dequeue_atomic are one     *)
(* step: a swap that fails leads back to the load.                         *)
(***************************************************************************)
EXTENDS Integers, Sequences, FiniteSets

CONSTANTS
    Producers,  \* threads calling ringbuf_tryenqueue
    Consumers,  \* threads calling ringbuf_trydequeue
    Entries,    \* the pointers
    RingLen,    \* length of the ring, a power of two
    PosMod,     \* 2^64: read_pos and write_pos wrap around
    None        \* NULL

ASSUME RingBufAssumption ==
    /\ RingLen \in Nat \ {0}
    /\ PosMod \in Nat
    /\ PosMod > RingLen
    /\ PosMod % RingLen = 0
    /\ None \notin Entries
    /\ IsFiniteSet(Producers) /\ IsFiniteSet(Consumers)

VARIABLES
    read_pos, write_pos,    \* next position to read, to write
    nfree, nused,           \* semaphores
    data,                   \* slot -> pointer or None
    ppc, pdata, w,          \* producer -> place, pointer, claimed position
    cpc, cdata, r,          \* consumer -> place, pointer, claimed position
    avail                   \* pointers in the hands of the clients

prodVars == <<ppc, pdata, w>>
consVars == <<cpc, cdata, r>>
vars == <<read_pos, write_pos, nfree, nused, data, prodVars, consVars, avail>>

Positions == 0 .. PosMod - 1
Slots == 0 .. RingLen - 1

\* pos & len_mask
Slot(pos) == pos % RingLen

\* util_fetch_and_add64 on a position counter.
Next64(pos) == (pos + 1) % PosMod

\* ringbuf_new
Init ==
    /\ read_pos = 0
    /\ write_pos = 0
    /\ nfree = RingLen
    /\ nused = 0
    /\ data = [s \in Slots |-> None]
    /\ ppc = [p \in Producers |-> "idle"]
    /\ pdata = [p \in Producers |-> None]
    /\ w = [p \in Producers |-> 0]
    /\ cpc = [c \in Consumers |-> "idle"]
    /\ cdata = [c \in Consumers |-> None]
    /\ r = [c \in Consumers |-> 0]
    /\ avail = Entries

----------------------------------------------------------------------------
\* A semaphore is tried again when a signal interrupts; otherwise trywait takes a
\* token or finds none.
util_semaphore_trywait(sem) == sem > 0 /\ sem' = sem - 1
util_semaphore_post(sem) == sem' = sem + 1

----------------------------------------------------------------------------
(* ringbuf_tryenqueue *)

\* A token of nfree is taken; without one the call fails and changes nothing.
TryEnqueue(p, x) ==
    /\ ppc[p] = "idle"
    /\ x \in avail
    /\ util_semaphore_trywait(nfree)
    /\ ppc' = [ppc EXCEPT ![p] = "fetch"]
    /\ pdata' = [pdata EXCEPT ![p] = x]
    /\ avail' = avail \ {x}
    /\ UNCHANGED <<read_pos, write_pos, nused, data, w, consVars>>

\* Faulty variant: the position is read but not advanced.
EnqueueFetch_NoAdvance(p) ==
    /\ ppc[p] = "fetch"
    /\ w' = [w EXCEPT ![p] = write_pos]
    /\ ppc' = [ppc EXCEPT ![p] = "store"]
    /\ UNCHANGED <<read_pos, write_pos, nfree, nused, data, pdata, consVars, avail>>

EnqueueFetch(p) ==
    /\ ppc[p] = "fetch"
    /\ w' = [w EXCEPT ![p] = write_pos]
    /\ write_pos' = Next64(write_pos)
    /\ ppc' = [ppc EXCEPT ![p] = "store"]
    /\ UNCHANGED <<read_pos, nfree, nused, data, pdata, consVars, avail>>

\* The producer leaves its spin loop when the slot is empty.
EnqueueStore(p) ==
    /\ ppc[p] = "store"
    /\ data[Slot(w[p])] = None
    /\ data' = [data EXCEPT ![Slot(w[p])] = pdata[p]]
    /\ ppc' = [ppc EXCEPT ![p] = "post"]
    /\ pdata' = [pdata EXCEPT ![p] = None]
    /\ w' = [w EXCEPT ![p] = 0]
    /\ UNCHANGED <<read_pos, write_pos, nfree, nused, consVars, avail>>

EnqueuePost(p) ==
    /\ ppc[p] = "post"
    /\ util_semaphore_post(nused)
    /\ ppc' = [ppc EXCEPT ![p] = "idle"]
    /\ UNCHANGED <<read_pos, write_pos, nfree, data, pdata, w, consVars, avail>>

----------------------------------------------------------------------------
(* ringbuf_trydequeue *)

\* Faulty variant: the semaphore is decremented without being tried.
TryDequeue_NoToken(c) ==
    /\ cpc[c] = "idle"
    /\ nused' = nused - 1
    /\ cpc' = [cpc EXCEPT ![c] = "fetch"]
    /\ UNCHANGED <<read_pos, write_pos, nfree, data, prodVars, cdata, r, avail>>

\* A token of nused is taken; without one the call returns NULL.
TryDequeue(c) ==
    /\ cpc[c] = "idle"
    /\ util_semaphore_trywait(nused)
    /\ cpc' = [cpc EXCEPT ![c] = "fetch"]
    /\ UNCHANGED <<read_pos, write_pos, nfree, data, prodVars, cdata, r, avail>>

DequeueFetch(c) ==
    /\ cpc[c] = "fetch"
    /\ r' = [r EXCEPT ![c] = read_pos]
    /\ read_pos' = Next64(read_pos)
    /\ cpc' = [cpc EXCEPT ![c] = "swap"]
    /\ UNCHANGED <<write_pos, nfree, nused, data, prodVars, cdata, avail>>

\* The consumer leaves its spin loop when the slot is full, and empties it.
DequeueSwap(c) ==
    /\ cpc[c] = "swap"
    /\ data[Slot(r[c])] # None
    /\ cdata' = [cdata EXCEPT ![c] = data[Slot(r[c])]]
    /\ data' = [data EXCEPT ![Slot(r[c])] = None]
    /\ cpc' = [cpc EXCEPT ![c] = "post"]
    /\ r' = [r EXCEPT ![c] = 0]
    /\ UNCHANGED <<read_pos, write_pos, nfree, nused, prodVars, avail>>

DequeuePost(c) ==
    /\ cpc[c] = "post"
    /\ util_semaphore_post(nfree)
    /\ cpc' = [cpc EXCEPT ![c] = "idle"]
    /\ cdata' = [cdata EXCEPT ![c] = None]
    /\ avail' = avail \cup {cdata[c]}
    /\ UNCHANGED <<read_pos, write_pos, nused, data, prodVars, r>>

----------------------------------------------------------------------------
ProducerStep(p) == EnqueueFetch(p) \/ EnqueueStore(p) \/ EnqueuePost(p)
ConsumerStep(c) == DequeueFetch(c) \/ DequeueSwap(c) \/ DequeuePost(c)

Next ==
    \/ \E p \in Producers : (\E x \in avail : TryEnqueue(p, x)) \/ ProducerStep(p)
    \/ \E c \in Consumers : TryDequeue(c) \/ ConsumerStep(c)

Spec == Init /\ [][Next]_vars

\* A thread that has begun an operation is scheduled until it is through;
\* nobody has to begin one.
Fairness ==
    /\ \A p \in Producers : WF_vars(ProducerStep(p))
    /\ \A c \in Consumers : WF_vars(ConsumerStep(c))

FairSpec == Spec /\ Fairness

----------------------------------------------------------------------------
(* Properties *)

\* Number of positions claimed for writing from position q on.
Claimed(q) == (write_pos - q) % PosMod

\* With the single consumer that head->lock allows, the slot a producer was
\* given is always empty: the spin loop of ringbuf_enqueue_atomic never spins.
StoreNeverWaits ==
    \A p \in Producers : ppc[p] = "store" => data[Slot(w[p])] = None

\* A consumer that took a token gets a pointer, and a producer that took one
\* gets its pointer in: neither spins for ever.
OperationsEnd ==
    /\ \A c \in Consumers : cpc[c] = "fetch" ~> cpc[c] = "idle"
    /\ \A p \in Producers : ppc[p] = "fetch" ~> ppc[p] = "idle"

----------------------------------------------------------------------------
(* Refinement: with one consumer the ring is the bounded FIFO RingQueue.   *)

\* Oldest position not yet emptied: the consumer's, if it has claimed one.
Oldest ==
    IF \E c \in Consumers : cpc[c] = "swap"
    THEN r[CHOOSE c \in Consumers : cpc[c] = "swap"]
    ELSE read_pos

PointerAt(q) ==
    IF \E p \in Producers : ppc[p] = "store" /\ w[p] = q
    THEN pdata[CHOOSE p \in Producers : ppc[p] = "store" /\ w[p] = q]
    ELSE data[Slot(q)]

QueueRing ==
    [i \in 1 .. Claimed(Oldest) |-> PointerAt((Oldest + i - 1) % PosMod)]
QueueUnwritten == {pdata[p] : p \in {q \in Producers : ppc[q] = "store"}}
QueueFree == nfree + Cardinality({c \in Consumers : cpc[c] = "post"})
QueueUsed == nused + Cardinality({c \in Consumers : cpc[c] \in {"fetch", "swap"}})

Queue == INSTANCE RingQueue WITH
    ring <- QueueRing, unwritten <- QueueUnwritten, nfree <- QueueFree,
    nused <- QueueUsed

\* What the policy relies on: pointers leave the ring in the order in which
\* ringbuf_enqueue_atomic claimed their positions.
FifoQueue == Queue!RingSpec
=============================================================================
