----------------------------- MODULE RingQueue -----------------------------
(***************************************************************************)
(* What ringbuf.c promises to the replacement policy: a bounded FIFO of    *)
(* pointers, filled by many threads without a lock and drained by one      *)
(* thread at a time (the holder of the policy's mutex).  Module RingBuf    *)
(* is the algorithm itself and is shown to implement Spec below; module    *)
(* Repl uses the actions of this module for its ring buffer.               *)
(*                                                                         *)
(* An enqueue is visible in four atomic steps, because the drain can tell  *)
(* them apart: a semaphore token is taken (Reserve), a position is claimed *)
(* (Claim), the pointer is stored in the claimed slot (Write), and only    *)
(* then is the element counted as used (Post).  A pointer that was claimed *)
(* early and is stored late holds up everything behind it, and a token     *)
(* posted by one producer may be spent on the pointer of another.          *)
(***************************************************************************)
EXTENDS Integers, Sequences, FiniteSets

CONSTANTS
    Entries,    \* the pointers the ring carries, each at most once
    RingLen     \* LEN_RING_BUF: number of slots

ASSUME RingLenAssumption == RingLen \in Nat \ {0}

VARIABLES
    ring,       \* pointers at the positions read_pos .. write_pos - 1
    unwritten,  \* pointers of ring whose producer has not stored them yet
    nfree,      \* semaphore: slots a producer may still reserve
    nused       \* semaphore: pointers a consumer may still take

ringVars == <<ring, unwritten, nfree, nused>>

\* The elements of a sequence.
Elems(s) == {s[i] : i \in DOMAIN s}

RingInit ==
    /\ ring = <<>>
    /\ unwritten = {}
    /\ nfree = RingLen
    /\ nused = 0

\* ringbuf_tryenqueue: a token of nfree is available and is taken.
Reserve ==
    /\ nfree > 0
    /\ nfree' = nfree - 1
    /\ UNCHANGED <<ring, unwritten, nused>>

\* ringbuf_enqueue_atomic: the next write position is claimed for x.
Claim(x) ==
    /\ ring' = Append(ring, x)
    /\ unwritten' = unwritten \cup {x}
    /\ UNCHANGED <<nfree, nused>>

\* ringbuf_enqueue_atomic: x is stored in its slot.
Write(x) ==
    /\ unwritten' = unwritten \ {x}
    /\ UNCHANGED <<ring, nfree, nused>>

\* ringbuf_tryenqueue: the stored pointer is counted.
Post ==
    /\ nused' = nused + 1
    /\ UNCHANGED <<ring, unwritten, nfree>>

\* The consumer gets past the spin loop of ringbuf_dequeue_atomic.
HeadStored == ring # <<>> /\ Head(ring) \notin unwritten

\* Faulty variant: the slot is not given back.
Take_KeepsSlot ==
    /\ nused > 0
    /\ HeadStored
    /\ ring' = Tail(ring)
    /\ nused' = nused - 1
    /\ UNCHANGED <<unwritten, nfree>>

\* ringbuf_trydequeue, successful: a token of nused is taken, the pointer at
\* the read position is awaited and removed, its slot is given back.  Nothing
\* but another consumer can see the steps in between.
Take ==
    /\ nused > 0
    /\ HeadStored
    /\ ring' = Tail(ring)
    /\ nused' = nused - 1
    /\ nfree' = nfree + 1
    /\ UNCHANGED unwritten

(***************************************************************************)
(* The specification of the ring alone.  Its clients never hand over a     *)
(* pointer that is still in the ring; a position is claimed only by a      *)
(* producer that holds a token, and posted only once stored.               *)
(***************************************************************************)
Reserved == RingLen - nfree - Len(ring)

Unposted == Len(ring) - nused

RingNext ==
    \/ Reserve
    \/ \E x \in Entries : Reserved > 0 /\ x \notin Elems(ring) /\ Claim(x)
    \/ \E x \in unwritten : Write(x)
    \/ Unposted > Cardinality(unwritten) /\ Post
    \/ Take

RingSpec == RingInit /\ [][RingNext]_ringVars
============================================================================
