----------------------------- MODULE ReplProofs -----------------------------
(***************************************************************************)
(* Proofs about the buffered LRU policy (module Repl), for any number of   *)
(* threads and entries, any length of the ring, and clients with or        *)
(* without discipline: the list and who owns what; and the ring, where no  *)
(* node is lost, the two semaphores account for every slot, and an         *)
(* eviction gives up only while somebody is in the middle of a use.        *)
(***************************************************************************)
EXTENDS Repl, FiniteSetTheorems, TLAPS

----------------------------------------------------------------------------
(* The list and the ring as sequences without duplicates. *)

\* TAILQ_INSERT_TAIL and the claim of a ring position add one element.
LEMMA AppendFacts ==
    ASSUME NEW S, NEW s \in Seq(S), NEW x \in S
    PROVE  /\ Append(s, x) \in Seq(S)
           /\ Elems(Append(s, x)) = Elems(s) \cup {x}
           /\ NoDup(s) /\ x \notin Elems(s) => NoDup(Append(s, x))
<1>1. /\ Append(s, x) \in Seq(S)
      /\ DOMAIN Append(s, x) = 1 .. Len(s) + 1
      /\ DOMAIN s = 1 .. Len(s)
      /\ Len(s) \in Nat
      /\ \A i \in 1 .. Len(s) : Append(s, x)[i] = s[i]
      /\ Append(s, x)[Len(s) + 1] = x
  OBVIOUS
<1>2. Elems(Append(s, x)) = Elems(s) \cup {x}
  <2>1. ASSUME NEW y \in Elems(Append(s, x)) PROVE y \in Elems(s) \cup {x}
    BY <1>1 DEF Elems
  <2>2. ASSUME NEW y \in Elems(s) PROVE y \in Elems(Append(s, x))
    BY <1>1 DEF Elems
  <2>3. x \in Elems(Append(s, x))
    BY <1>1 DEF Elems
  <2> QED  BY <2>1, <2>2, <2>3
<1>3. NoDup(s) /\ x \notin Elems(s) => NoDup(Append(s, x))
  BY <1>1 DEF NoDup, Elems
<1> QED  BY <1>1, <1>2, <1>3

\* What a dequeue leaves in the ring.
LEMMA TailFacts ==
    ASSUME NEW S, NEW s \in Seq(S), s # <<>>
    PROVE  /\ Head(s) \in S
           /\ Head(s) \in Elems(s)
           /\ Tail(s) \in Seq(S)
           /\ Elems(Tail(s)) \subseteq Elems(s)
           /\ NoDup(s) => NoDup(Tail(s)) /\ Elems(Tail(s)) = Elems(s) \ {Head(s)}
<1>1. /\ Tail(s) \in Seq(S)
      /\ Len(s) \in Nat /\ Len(s) >= 1
      /\ DOMAIN s = 1 .. Len(s)
      /\ DOMAIN Tail(s) = 1 .. Len(s) - 1
      /\ \A i \in 1 .. Len(s) - 1 : Tail(s)[i] = s[i + 1]
      /\ Head(s) = s[1]
      /\ Head(s) \in S
  OBVIOUS
<1>2. Head(s) \in Elems(s)
  BY <1>1 DEF Elems
<1>3. Elems(Tail(s)) \subseteq Elems(s)
  BY <1>1 DEF Elems
<1>4. ASSUME NoDup(s) PROVE NoDup(Tail(s)) /\ Elems(Tail(s)) = Elems(s) \ {Head(s)}
  <2>1. NoDup(Tail(s))
    BY <1>1, <1>4 DEF NoDup
  <2>2. Head(s) \notin Elems(Tail(s))
    BY <1>1, <1>4 DEF NoDup, Elems
  <2>3. ASSUME NEW y \in Elems(s), y # Head(s) PROVE y \in Elems(Tail(s))
    <3>1. PICK i \in 1 .. Len(s) : s[i] = y
      BY <1>1 DEF Elems
    <3>2. i - 1 \in 1 .. Len(s) - 1 /\ Tail(s)[i - 1] = y
      BY <1>1, <2>3, <3>1
    <3> QED  BY <1>1, <3>2 DEF Elems
  <2> QED  BY <1>3, <2>1, <2>2, <2>3
<1> QED  BY <1>1, <1>2, <1>3, <1>4

\* TAILQ_REMOVE of a linked node takes out that node and nothing else.
LEMMA UnlinkFacts ==
    ASSUME NEW S, NEW s \in Seq(S), NEW e \in Elems(s)
    PROVE  /\ Unlink(s, e) \in Seq(S)
           /\ NoDup(s) => /\ NoDup(Unlink(s, e))
                          /\ Elems(Unlink(s, e)) = Elems(s) \ {e}
<1> DEFINE p == Pos(s, e)
<1>1. /\ Len(s) \in Nat
      /\ DOMAIN s = 1 .. Len(s)
      /\ p \in 1 .. Len(s) /\ s[p] = e
  BY DEF Pos, Elems
<1> DEFINE u == Unlink(s, e)
<1>2. /\ u = [i \in 1 .. Len(s) - 1 |-> IF i < p THEN s[i] ELSE s[i + 1]]
      /\ DOMAIN u = 1 .. Len(s) - 1
  BY DEF Unlink
<1> HIDE DEF p, u
<1>3. /\ \A i \in 1 .. Len(s) - 1 : i < p => u[i] = s[i]
      /\ \A i \in 1 .. Len(s) - 1 : ~(i < p) => u[i] = s[i + 1]
  BY <1>1, <1>2
<1>4. u \in Seq(S)
  <2>1. Len(s) - 1 \in Nat
    BY <1>1
  <2>2. \A i \in 1 .. Len(s) - 1 : u[i] \in S
    BY <1>1, <1>3
  <2> QED  BY <1>2, <2>1, <2>2
<1>5. ASSUME NoDup(s) PROVE NoDup(u)
  <2>1. SUFFICES ASSUME NEW i \in 1 .. Len(s) - 1, NEW j \in 1 .. Len(s) - 1,
                        u[i] = u[j]
                 PROVE  i = j
    BY <1>2 DEF NoDup
  <2>2. \A a, b \in 1 .. Len(s) : s[a] = s[b] => a = b
    BY <1>1, <1>5 DEF NoDup
  <2>3. CASE i < p /\ j < p
    BY <1>1, <1>3, <2>1, <2>2, <2>3
  <2>4. CASE i < p /\ ~(j < p)
    BY <1>1, <1>3, <2>1, <2>2, <2>4
  <2>5. CASE ~(i < p) /\ j < p
    BY <1>1, <1>3, <2>1, <2>2, <2>5
  <2>6. CASE ~(i < p) /\ ~(j < p)
    BY <1>1, <1>3, <2>1, <2>2, <2>6
  <2> QED  BY <2>3, <2>4, <2>5, <2>6
<1>6. ASSUME NoDup(s) PROVE Elems(u) = Elems(s) \ {e}
  <2>1. ASSUME NEW y \in Elems(u) PROVE y \in Elems(s) /\ y # e
    <3>1. PICK i \in 1 .. Len(s) - 1 : u[i] = y
      BY <1>2 DEF Elems
    <3>2. CASE i < p
      BY <1>1, <1>3, <1>6, <3>1, <3>2 DEF Elems, NoDup
    <3>3. CASE ~(i < p)
      BY <1>1, <1>3, <1>6, <3>1, <3>3 DEF Elems, NoDup
    <3> QED  BY <3>2, <3>3
  <2>2. ASSUME NEW y \in Elems(s), y # e PROVE y \in Elems(u)
    <3>1. PICK i \in 1 .. Len(s) : s[i] = y
      BY <1>1 DEF Elems
    <3>2. CASE i < p
      <4>1. i \in 1 .. Len(s) - 1 /\ u[i] = y
        BY <1>1, <1>3, <3>1, <3>2
      <4> QED  BY <1>2, <4>1 DEF Elems
    <3>3. CASE i > p
      <4>1. i - 1 \in 1 .. Len(s) - 1 /\ u[i - 1] = y
        BY <1>1, <1>3, <3>1, <3>3
      <4> QED  BY <1>2, <4>1 DEF Elems
    <3>4. i # p
      BY <1>1, <2>2, <3>1
    <3> QED  BY <1>1, <3>2, <3>3, <3>4
  <2> QED  BY <2>1, <2>2
<1> QED  BY <1>4, <1>5, <1>6 DEF u

\* TAILQ_MOVE_TO_TAIL neither loses nor duplicates a node.
LEMMA MoveToTailFacts ==
    ASSUME NEW S, NEW s \in Seq(S), NEW e \in S
    PROVE  /\ MoveToTail(s, e) \in Seq(S)
           /\ NoDup(s) => /\ NoDup(MoveToTail(s, e))
                          /\ Elems(MoveToTail(s, e)) = Elems(s)
           /\ s # <<>> => MoveToTail(s, e) # <<>>
<1>1. CASE e \in Elems(s)
  <2>1. MoveToTail(s, e) = Append(Unlink(s, e), e)
    BY <1>1 DEF MoveToTail
  <2>2. /\ Unlink(s, e) \in Seq(S)
        /\ NoDup(s) => /\ NoDup(Unlink(s, e))
                       /\ Elems(Unlink(s, e)) = Elems(s) \ {e}
    BY <1>1, UnlinkFacts
  <2>3. /\ Append(Unlink(s, e), e) \in Seq(S)
        /\ Elems(Append(Unlink(s, e), e)) = Elems(Unlink(s, e)) \cup {e}
        /\ NoDup(Unlink(s, e)) /\ e \notin Elems(Unlink(s, e))
             => NoDup(Append(Unlink(s, e), e))
    BY <2>2, AppendFacts
  <2>4. Append(Unlink(s, e), e) # <<>>
    BY <2>2
  <2> QED  BY <1>1, <2>1, <2>2, <2>3, <2>4
<1>2. CASE e \notin Elems(s)
  BY <1>2 DEF MoveToTail
<1> QED  BY <1>1, <1>2

----------------------------------------------------------------------------
(* Type correctness.  A thread that is about to link, claim or write has an *)
(* entry to do it with, hence ArgOK.                                        *)

\* The initial state satisfies the type invariant.
LEMMA TypeInit == ReplInit => ReplTypeOK /\ ArgOK
<1> SUFFICES ASSUME ReplInit PROVE ReplTypeOK /\ ArgOK
  OBVIOUS
<1>1. /\ ring \in Seq(Entries) /\ unwritten \subseteq Entries
      /\ nfree \in Int /\ nused \in Int /\ counter \in 0 .. RingLen - 1
      /\ cursor \in Nat
  BY RingLenAssumption DEF ReplInit, RingInit
<1>2. /\ p_entry \in [Entries -> Entries \cup {None}] /\ node \subseteq Entries
      /\ first \in Seq(Entries) /\ lock \in Threads \cup {None}
  BY DEF ReplInit
<1>5. fault \in BOOLEAN
  BY DEF ReplInit
<1>3. /\ rpc \in [Threads -> RPCs] /\ rarg \in [Threads -> Entries \cup {None}]
      /\ errno \in [Threads -> Errnos]
  BY DEF ReplInit, RPCs, Errnos
<1>4. ArgOK
  BY DEF ReplInit, ArgOK, ArgPCs, HoldPCs
<1> QED  BY <1>1, <1>2, <1>3, <1>4, <1>5 DEF ReplTypeOK

\* Evicting a node keeps the types, whatever node it is.
LEMMA FoundType ==
    ASSUME ReplTypeOK, ArgOK, NEW t \in Threads, NEW e, Found(t, e)
    PROVE  /\ node' \subseteq Entries
           /\ first' \in Seq(Entries)
           /\ lock' \in Threads \cup {None}
           /\ counter' \in 0 .. RingLen - 1
           /\ cursor' \in Nat
           /\ rpc' \in [Threads -> RPCs]
           /\ rarg' \in [Threads -> Entries \cup {None}]
           /\ errno' \in [Threads -> Errnos]
           /\ fault' \in BOOLEAN
           /\ ArgOK'
<1>1. CASE e \in Elems(first)
  <2>1. Unlink(first, e) \in Seq(Entries) /\ e \in Entries
    <3>1. first \in Seq(Entries)
      BY DEF ReplTypeOK
    <3> QED  BY <1>1, <3>1, UnlinkFacts DEF Elems
  <2>2. /\ first' = Unlink(first, e)
        /\ node' = node \ {e}
        /\ rpc' = [rpc EXCEPT ![t] = "evicted"]
        /\ rarg' = [rarg EXCEPT ![t] = e]
        /\ lock' = None /\ cursor' = 0 /\ UNCHANGED <<fault, counter, errno>>
    BY <1>1 DEF Found, Goto
  <2>3. ArgOK'
    BY <2>1, <2>2 DEF ReplTypeOK, ArgOK, ArgPCs, HoldPCs
  <2> QED
    BY <2>1, <2>2, <2>3 DEF ReplTypeOK, RPCs
<1>2. CASE e \notin Elems(first)
  BY <1>2 DEF Found, ReplTypeOK, ArgOK
<1> QED  BY <1>1, <1>2

\* Every step of the policy keeps the types.
LEMMA TypeStep == ReplTypeOK /\ ArgOK /\ [ReplNext]_replVars => ReplTypeOK' /\ ArgOK'
<1> SUFFICES ASSUME ReplTypeOK, ArgOK, [ReplNext]_replVars
             PROVE  ReplTypeOK' /\ ArgOK'
  OBVIOUS
<1> USE RingLenAssumption, ConstantsAssumption
<1>1. ASSUME NEW t \in Threads, NEW e \in Entries, InsertNode(t, e)
      PROVE  ReplTypeOK' /\ ArgOK'
  BY <1>1 DEF InsertNode, Goto, ringVars, ReplTypeOK, ArgOK, ArgPCs, HoldPCs, RPCs
<1>2. ASSUME NEW t \in Threads, InsertTail(t) PROVE ReplTypeOK' /\ ArgOK'
  <2>1. rarg[t] \in Entries
    BY <1>2 DEF InsertTail, ArgOK, ArgPCs
  <2> QED
    BY <1>2, <2>1 DEF InsertTail, Goto, ringVars, ReplTypeOK, ArgOK, ArgPCs, HoldPCs, RPCs
<1>3. ASSUME NEW t \in Threads, NEW e \in Entries, Use(t, e)
      PROVE  ReplTypeOK' /\ ArgOK'
  BY <1>3 DEF Use, LockEntry, Goto, ringVars, ReplTypeOK, ArgOK, ArgPCs, HoldPCs, RPCs
<1>4. ASSUME NEW t \in Threads, UseReserve(t) \/ UseFull(t) \/ UseLock(t)
      PROVE  ReplTypeOK' /\ ArgOK'
  <2>1. CASE UseReserve(t)
    BY <2>1 DEF UseReserve, Reserve, Goto, listVars, ReplTypeOK, ArgOK, ArgPCs, HoldPCs,
                RPCs
  <2>2. CASE UseFull(t)
    BY <2>2 DEF UseFull, Goto, ringVars, listVars, ReplTypeOK, ArgOK, ArgPCs, HoldPCs,
                RPCs
  <2>3. CASE UseLock(t)
    BY <2>3 DEF UseLock, Goto, ringVars, listVars, ReplTypeOK, ArgOK, ArgPCs, HoldPCs,
                RPCs
  <2> QED  BY <1>4, <2>1, <2>2, <2>3
<1>5. ASSUME NEW t \in Threads, EnqClaim(t) \/ EnqWrite(t) \/ EnqPost(t)
      PROVE  ReplTypeOK' /\ ArgOK'
  <2>1. rarg[t] \in Entries
    BY <1>5 DEF EnqClaim, EnqWrite, EnqPost, ArgOK, ArgPCs, HoldPCs
  <2>2. CASE EnqClaim(t)
    <3>1. Append(ring, rarg[t]) \in Seq(Entries)
      BY <2>1, AppendFacts DEF ReplTypeOK
    <3> QED
      BY <2>1, <2>2, <3>1 DEF EnqClaim, Claim, Goto, listVars, ReplTypeOK, ArgOK, ArgPCs,
                              HoldPCs, RPCs
  <2>3. CASE EnqWrite(t)
    BY <2>1, <2>3 DEF EnqWrite, Write, Goto, listVars, ReplTypeOK, ArgOK, ArgPCs, HoldPCs,
                      RPCs
  <2>4. CASE EnqPost(t)
    BY <2>4 DEF EnqPost, Post, Goto, listVars, ReplTypeOK, ArgOK, ArgPCs, HoldPCs, RPCs
  <2> QED  BY <1>5, <2>2, <2>3, <2>4
<1>6. ASSUME NEW t \in Threads, DequeueOne(t) PROVE ReplTypeOK' /\ ArgOK'
  <2>1. ring \in Seq(Entries) /\ ring # <<>> /\ first \in Seq(Entries)
    BY <1>6 DEF DequeueOne, Take, HeadStored, ReplTypeOK
  <2>2. Head(ring) \in Entries /\ Tail(ring) \in Seq(Entries)
    BY <2>1, TailFacts
  <2>3. MoveToTail(first, Head(ring)) \in Seq(Entries)
    BY <2>1, <2>2, MoveToTailFacts
  <2>4. /\ counter' \in 0 .. RingLen - 1
        /\ lock' \in Threads \cup {None}
        /\ rpc' \in [Threads -> RPCs]
        /\ ArgOK'
    BY <1>6 DEF DequeueOne, DequeueAgain, AfterDequeue, Goto, ReplTypeOK, ArgOK, ArgPCs,
                HoldPCs, EvictPCs, RPCs
  <2>5. /\ ring' \in Seq(Entries) /\ nused' \in Int /\ nfree' \in Int
        /\ unwritten' \subseteq Entries
    BY <1>6, <2>2 DEF DequeueOne, Take, ReplTypeOK
  <2>6. p_entry' \in [Entries -> Entries \cup {None}]
    BY <1>6 DEF DequeueOne, UnlockEntry, ReplTypeOK
  <2> QED
    BY <1>6, <2>3, <2>4, <2>5, <2>6 DEF DequeueOne, ReplTypeOK
<1>7. ASSUME NEW t \in Threads, DequeueNone(t) PROVE ReplTypeOK' /\ ArgOK'
  BY <1>7 DEF DequeueNone, AfterDequeue, Goto, ringVars, listVars,
              ReplTypeOK, ArgOK, ArgPCs, HoldPCs, EvictPCs, RPCs
<1>8. ASSUME NEW t \in Threads, NEW e, Grab(t, e) PROVE ReplTypeOK' /\ ArgOK'
  <2>1. Found(t, e)
    BY <1>8 DEF Grab
  <2> QED
    BY <1>8, <2>1, FoundType DEF Grab, LockEntry, ringVars, ReplTypeOK
<1>9. ASSUME NEW t \in Threads, NEW err \in Errnos, GiveUp(t, err)
      PROVE  ReplTypeOK' /\ ArgOK'
  BY <1>9 DEF GiveUp, Goto, ringVars, listVars, ReplTypeOK, ArgOK, ArgPCs, HoldPCs, RPCs
<1>10. ASSUME NEW t \in Threads, NEW x \in Entries \cup {None}, EvictLock(t, x)
       PROVE  ReplTypeOK' /\ ArgOK'
  <2>1. CASE GiveUp(t, "ESRCH")
    BY <1>9, <2>1 DEF Errnos
  <2>2. CASE Grab(t, Candidate(x))
    BY <1>8, <2>2
  <2>3. CASE ~GiveUp(t, "ESRCH") /\ ~Grab(t, Candidate(x))
    BY <1>10, <2>3 DEF EvictLock, Goto, ringVars, listVars, ReplTypeOK, ArgOK, ArgPCs,
                       HoldPCs, EvictPCs, RPCs
  <2> QED  BY <2>1, <2>2, <2>3
<1>11. ASSUME NEW t \in Threads, EvictSecond(t) PROVE ReplTypeOK' /\ ArgOK'
  <2>1. CASE GiveUp(t, "EAGAIN")
    BY <1>9, <2>1 DEF Errnos
  <2>2. CASE Grab(t, Candidate(rarg[t]))
    BY <1>8, <2>2
  <2>3. CASE ~GiveUp(t, "EAGAIN") /\ ~Grab(t, Candidate(rarg[t]))
    BY <1>11, <2>3 DEF EvictSecond, Goto, ringVars, listVars, ReplTypeOK, ArgOK, ArgPCs,
                       HoldPCs, EvictPCs, RPCs
  <2> QED  BY <2>1, <2>2, <2>3
<1>12. ASSUME NEW t \in Threads, EvictScan(t) PROVE ReplTypeOK' /\ ArgOK'
  <2>1. CASE Grab(t, first[cursor + 1])
    BY <1>8, <2>1
  <2>2. CASE ~Grab(t, first[cursor + 1])
    BY <1>12, <2>2 DEF EvictScan, Goto, ringVars, listVars, ReplTypeOK, ArgOK, ArgPCs,
                       HoldPCs, EvictPCs, RPCs
  <2> QED  BY <2>1, <2>2
<1>13. ASSUME NEW t \in Threads, EvictLast(t) PROVE ReplTypeOK' /\ ArgOK'
  <2>1. CASE GiveUp(t, "ESRCH")
    BY <1>9, <2>1 DEF Errnos
  <2>2. CASE Take /\ Found(t, Head(ring)) /\ UNCHANGED p_entry
    <3>1. Tail(ring) \in Seq(Entries)
      BY <2>2, TailFacts DEF Take, HeadStored, ReplTypeOK
    <3> QED
      BY <2>2, <3>1, FoundType DEF Take, ReplTypeOK
  <2> QED  BY <1>13, <2>1, <2>2 DEF EvictLast
<1>14. ASSUME NEW t \in Threads, Return(t) PROVE ReplTypeOK' /\ ArgOK'
  BY <1>14 DEF Return, Goto, ringVars, listVars, ReplTypeOK, ArgOK, ArgPCs, HoldPCs, RPCs,
               Errnos
<1>15. CASE UNCHANGED replVars
  BY <1>15 DEF replVars, ringVars, listVars, ReplTypeOK, ArgOK
<1> QED
  BY <1>1, <1>2, <1>3, <1>4, <1>5, <1>6, <1>7, <1>10, <1>11, <1>12, <1>13, <1>14, <1>15
     DEF ReplNext, Call, ReplStep, Halted

\* The policy's variables keep their types, and a thread that links, claims or
\* writes has an entry in hand.
THEOREM ReplTypeCorrect == ReplSpec => [](ReplTypeOK /\ ArgOK)
BY TypeInit, TypeStep, PTL DEF ReplSpec

----------------------------------------------------------------------------
(* Ownership of the nodes.  Given the types, NodeOwnership is inductive.    *)

\* A node is freed only when nobody else can reach it any more.
LEMMA FoundOwnership ==
    ASSUME ReplTypeOK, NodeOwnership, NEW t \in Threads, NEW e,
           rpc[t] \notin HoldPCs,
           Found(t, e),
           ring' \in Seq(Entries), NoDup(ring'), Elems(ring') \subseteq Elems(ring),
           e \notin Elems(ring'),
           p_entry' = [p_entry EXCEPT ![e] = None],
           \A u \in Threads : ~Holds(u, e)
    PROVE  NodeOwnership'
<1>1. \A u \in Threads, x \in Entries : Holds(u, x)' => Holds(u, x) /\ x # e
  BY DEF Found, Goto, Holds, HoldPCs, ReplTypeOK
<1>2. \A x \in Entries : x \in node /\ x # e => x \in node'
  BY DEF Found
<1>3. \A x \in Entries : p_entry'[x] # None => p_entry[x] # None /\ x # e
  BY DEF ReplTypeOK
<1>4. Elems(ring) \subseteq Entries
  BY DEF ReplTypeOK, Elems
<1> QED  BY <1>1, <1>2, <1>3, <1>4 DEF NodeOwnership

\* An eviction takes a node that nobody holds.
LEMMA GrabOwnership ==
    ASSUME ReplTypeOK, NodeOwnership, NEW t \in Threads, NEW e,
           rpc[t] \notin HoldPCs, Grab(t, e)
    PROVE  NodeOwnership'
<1>1. Found(t, e) /\ p_entry[e] # None /\ UNCHANGED ring
      /\ p_entry' = [p_entry EXCEPT ![e] = None]
  BY DEF Grab, LockEntry, ringVars
<1>2. CASE e \in Entries
  <2>1. e \notin Elems(ring) /\ \A u \in Threads : ~Holds(u, e)
    BY <1>1, <1>2 DEF NodeOwnership
  <2>2. ring \in Seq(Entries) /\ NoDup(ring)
    BY DEF ReplTypeOK, NodeOwnership
  <2> QED  BY <1>1, <2>1, <2>2, FoundOwnership
<1>3. CASE e \notin Entries
  <2>1. e \notin Elems(first)
    BY <1>3 DEF ReplTypeOK, Elems
  <2>2. UNCHANGED <<node, rpc, rarg, ring>>
    BY <1>1, <2>1 DEF Found
  <2>3. \A x \in Entries : p_entry'[x] = p_entry[x]
    BY <1>1, <1>3 DEF ReplTypeOK
  <2> QED  BY <2>2, <2>3 DEF NodeOwnership, Holds
<1> QED  BY <1>2, <1>3

\* Steps that change neither the ring, nor a node, nor who holds one.
LEMMA SameOwnership ==
    ASSUME NodeOwnership, UNCHANGED <<ring, p_entry, node>>,
           \A u \in Threads, x \in Entries : Holds(u, x)' <=> Holds(u, x)
    PROVE  NodeOwnership'
BY DEF NodeOwnership

\* Every step of the policy keeps the ownership of the nodes.
LEMMA OwnershipStep ==
    ReplTypeOK /\ ArgOK /\ NodeOwnership /\ [ReplNext]_replVars => NodeOwnership'
<1> SUFFICES ASSUME ReplTypeOK, ArgOK, NodeOwnership, [ReplNext]_replVars
             PROVE  NodeOwnership'
  OBVIOUS
<1> USE ConstantsAssumption
<1>1. ASSUME NEW t \in Threads, NEW e \in Entries, InsertNode(t, e)
      PROVE  NodeOwnership'
  <2>1. e \notin Elems(ring) /\ \A u \in Threads : ~Holds(u, e)
    BY <1>1 DEF InsertNode, NodeOwnership
  <2>2. \A u \in Threads, x \in Entries : Holds(u, x)' <=> Holds(u, x)
    BY <1>1 DEF InsertNode, Goto, Holds, HoldPCs, ReplTypeOK
  <2>3. /\ node' = node \cup {e} /\ UNCHANGED ring
        /\ \A x \in Entries : x # e => p_entry'[x] = p_entry[x]
    BY <1>1 DEF InsertNode, ringVars, ReplTypeOK
  <2> QED  BY <2>1, <2>2, <2>3 DEF NodeOwnership
<1>2. ASSUME NEW t \in Threads, InsertTail(t) PROVE NodeOwnership'
  <2>1. \A u \in Threads, x \in Entries : Holds(u, x)' <=> Holds(u, x)
    BY <1>2 DEF InsertTail, Goto, Holds, HoldPCs, ReplTypeOK
  <2> QED  BY <1>2, <2>1, SameOwnership DEF InsertTail, ringVars
<1>3. ASSUME NEW t \in Threads, NEW e \in Entries, Use(t, e) PROVE NodeOwnership'
  <2>1. CASE p_entry[e] = None
    <3>1. UNCHANGED <<ring, p_entry, node, rpc, rarg>>
      BY <1>3, <2>1 DEF Use, LockEntry, ringVars
    <3> QED  BY <3>1 DEF NodeOwnership, Holds
  <2>2. CASE p_entry[e] # None
    <3>1. /\ UNCHANGED <<ring, node>>
          /\ p_entry' = [p_entry EXCEPT ![e] = None]
          /\ rpc' = [rpc EXCEPT ![t] = "use_enq"]
          /\ rarg' = [rarg EXCEPT ![t] = e]
          /\ rpc[t] = "idle"
      BY <1>3, <2>2 DEF Use, LockEntry, Goto, ringVars
    <3>2. /\ e \in node /\ e \notin Elems(ring)
          /\ \A u \in Threads : ~Holds(u, e)
      BY <2>2 DEF NodeOwnership
    <3>3. /\ Holds(t, e)'
          /\ \A u \in Threads, x \in Entries :
               Holds(u, x)' => Holds(u, x) \/ (u = t /\ x = e)
      BY <3>1 DEF Holds, HoldPCs, ReplTypeOK
    <3>4. /\ p_entry'[e] = None
          /\ \A x \in Entries : x # e => p_entry'[x] = p_entry[x]
      BY <3>1 DEF ReplTypeOK
    <3> QED  BY <3>1, <3>2, <3>3, <3>4 DEF NodeOwnership
  <2> QED  BY <2>1, <2>2
<1>4. ASSUME NEW t \in Threads, UseReserve(t) \/ UseFull(t) \/ UseLock(t)
      PROVE  NodeOwnership'
  <2>1. UNCHANGED <<ring, p_entry, node, rarg>>
    BY <1>4 DEF UseReserve, UseFull, UseLock, Reserve, ringVars, listVars
  <2>2. /\ rpc[t] \in HoldPCs
        /\ rpc'[t] \in HoldPCs
        /\ \A u \in Threads : u # t => rpc'[u] = rpc[u]
    BY <1>4 DEF UseReserve, UseFull, UseLock, Goto, HoldPCs, ReplTypeOK
  <2>3. \A u \in Threads, x \in Entries : Holds(u, x)' <=> Holds(u, x)
    BY <2>1, <2>2 DEF Holds
  <2> QED  BY <2>1, <2>3, SameOwnership
<1>5. ASSUME NEW t \in Threads, EnqClaim(t) PROVE NodeOwnership'
  <2>1. rarg[t] \in Entries /\ Holds(t, rarg[t])
    BY <1>5 DEF EnqClaim, ArgOK, ArgPCs, Holds, HoldPCs
  <2>2. /\ rarg[t] \in node /\ rarg[t] \notin Elems(ring)
        /\ p_entry[rarg[t]] = None
        /\ \A u \in Threads : Holds(u, rarg[t]) => u = t
    BY <2>1 DEF NodeOwnership
  <2>3. ring' = Append(ring, rarg[t]) /\ UNCHANGED <<p_entry, node, rarg>>
    BY <1>5 DEF EnqClaim, Claim, listVars
  <2>4. ring \in Seq(Entries)
    BY DEF ReplTypeOK
  <2>5. Elems(ring') = Elems(ring) \cup {rarg[t]} /\ NoDup(ring')
    BY <2>1, <2>2, <2>3, <2>4, AppendFacts DEF NodeOwnership
  <2>6. \A u \in Threads, x \in Entries :
          Holds(u, x)' <=> Holds(u, x) /\ u # t
    BY <1>5, <2>3 DEF EnqClaim, Goto, Holds, HoldPCs, ReplTypeOK
  <2> QED  BY <2>1, <2>2, <2>3, <2>5, <2>6 DEF NodeOwnership
<1>6. ASSUME NEW t \in Threads, EnqWrite(t) \/ EnqPost(t) PROVE NodeOwnership'
  <2>1. UNCHANGED <<ring, p_entry, node>>
    BY <1>6 DEF EnqWrite, EnqPost, Write, Post, listVars
  <2>2. \A u \in Threads, x \in Entries : Holds(u, x)' <=> Holds(u, x)
    BY <1>6 DEF EnqWrite, EnqPost, Goto, Holds, HoldPCs, ReplTypeOK
  <2> QED  BY <2>1, <2>2, SameOwnership
<1>7. ASSUME NEW t \in Threads, DequeueOne(t) PROVE NodeOwnership'
  <2> DEFINE e == Head(ring)
  <2>1. ring \in Seq(Entries) /\ ring # <<>> /\ ring' = Tail(ring) /\ NoDup(ring)
    BY <1>7 DEF DequeueOne, Take, HeadStored, ReplTypeOK, NodeOwnership
  <2>2. /\ e \in Entries /\ e \in Elems(ring)
        /\ NoDup(ring') /\ Elems(ring') = Elems(ring) \ {e}
    BY <2>1, TailFacts
  <2> HIDE DEF e
  <2>3. /\ UNCHANGED <<node, rarg>>
        /\ p_entry' = [p_entry EXCEPT ![e] = e]
    BY <1>7 DEF DequeueOne, UnlockEntry, e
  <2>4. e \in node /\ \A u \in Threads : ~Holds(u, e)
    BY <2>2 DEF NodeOwnership
  <2>5. /\ rpc'[t] \in HoldPCs <=> rpc[t] \in HoldPCs
        /\ \A u \in Threads : u # t => rpc'[u] = rpc[u]
    BY <1>7 DEF DequeueOne, DequeueAgain, AfterDequeue, Goto, HoldPCs, ReplTypeOK
  <2>6. \A u \in Threads, x \in Entries : Holds(u, x)' <=> Holds(u, x)
    BY <2>3, <2>5 DEF Holds
  <2>7. \A x \in Entries : x # e => p_entry'[x] = p_entry[x]
    BY <2>3 DEF ReplTypeOK
  <2> QED  BY <2>2, <2>3, <2>4, <2>6, <2>7 DEF NodeOwnership
<1>8. ASSUME NEW t \in Threads, DequeueNone(t) PROVE NodeOwnership'
  <2>1. UNCHANGED <<ring, p_entry, node, rarg>>
    BY <1>8 DEF DequeueNone, ringVars, listVars
  <2>2. /\ rpc'[t] \in HoldPCs <=> rpc[t] \in HoldPCs
        /\ \A u \in Threads : u # t => rpc'[u] = rpc[u]
    BY <1>8 DEF DequeueNone, AfterDequeue, Goto, HoldPCs, ReplTypeOK
  <2>3. \A u \in Threads, x \in Entries : Holds(u, x)' <=> Holds(u, x)
    BY <2>1, <2>2 DEF Holds
  <2> QED  BY <2>1, <2>3, SameOwnership
<1>9. ASSUME NEW t \in Threads, rpc[t] \notin HoldPCs, NEW pc \in RPCs \ HoldPCs,
             Goto(t, pc), UNCHANGED <<ring, p_entry, node>>,
             NEW a, rarg' = [rarg EXCEPT ![t] = a]
      PROVE  NodeOwnership'
  <2>1. \A u \in Threads, x \in Entries : Holds(u, x)' <=> Holds(u, x)
    BY <1>9 DEF Goto, Holds, ReplTypeOK
  <2> QED  BY <1>9, <2>1, SameOwnership
<1>10. ASSUME NEW t \in Threads, rpc[t] \notin HoldPCs, NEW err, GiveUp(t, err)
       PROVE  NodeOwnership'
  <2>1. "evicted" \in RPCs \ HoldPCs
    BY DEF RPCs, HoldPCs
  <2> QED  BY <1>9, <1>10, <2>1 DEF GiveUp, ringVars, listVars
<1>11. ASSUME NEW t \in Threads, NEW x \in Entries \cup {None}, EvictLock(t, x)
       PROVE  NodeOwnership'
  <2>1. rpc[t] \notin HoldPCs /\ "ev_deq" \in RPCs \ HoldPCs
    BY <1>11 DEF EvictLock, HoldPCs, EvictPCs, RPCs
  <2>2. CASE GiveUp(t, "ESRCH")
    BY <1>10, <2>1, <2>2
  <2>3. CASE Grab(t, Candidate(x))
    BY <2>1, <2>3, GrabOwnership
  <2>4. CASE ~GiveUp(t, "ESRCH") /\ ~Grab(t, Candidate(x))
    BY <1>9, <1>11, <2>1, <2>4 DEF EvictLock, ringVars, listVars
  <2> QED  BY <2>2, <2>3, <2>4
<1>12. ASSUME NEW t \in Threads, EvictSecond(t) PROVE NodeOwnership'
  <2>1. rpc[t] \notin HoldPCs /\ "ev_scan" \in RPCs \ HoldPCs
    BY <1>12 DEF EvictSecond, HoldPCs, EvictPCs, RPCs
  <2>2. CASE GiveUp(t, "EAGAIN")
    BY <1>10, <2>1, <2>2
  <2>3. CASE Grab(t, Candidate(rarg[t]))
    BY <2>1, <2>3, GrabOwnership
  <2>4. CASE ~GiveUp(t, "EAGAIN") /\ ~Grab(t, Candidate(rarg[t]))
    <3>1. Goto(t, "ev_scan") /\ UNCHANGED <<ring, p_entry, node, rarg>>
      BY <1>12, <2>4 DEF EvictSecond, ringVars, listVars
    <3>2. rarg' = [rarg EXCEPT ![t] = rarg[t]]
      BY <3>1 DEF ReplTypeOK
    <3> QED  BY <1>9, <2>1, <3>1, <3>2
  <2> QED  BY <2>2, <2>3, <2>4
<1>13. ASSUME NEW t \in Threads, EvictScan(t) PROVE NodeOwnership'
  <2>1. rpc[t] \notin HoldPCs /\ {"ev_scan", "ev_last"} \subseteq RPCs \ HoldPCs
    BY <1>13 DEF EvictScan, HoldPCs, EvictPCs, RPCs
  <2>2. CASE Grab(t, first[cursor + 1])
    BY <2>1, <2>2, GrabOwnership
  <2>3. CASE ~Grab(t, first[cursor + 1])
    <3>1. /\ Goto(t, "ev_last") \/ UNCHANGED rpc
          /\ UNCHANGED <<ring, p_entry, node, rarg>>
      BY <1>13, <2>3 DEF EvictScan, ringVars, listVars
    <3>2. \A u \in Threads, x \in Entries : Holds(u, x)' <=> Holds(u, x)
      BY <2>1, <3>1 DEF Goto, Holds, ReplTypeOK
    <3> QED  BY <3>1, <3>2, SameOwnership
  <2> QED  BY <2>2, <2>3
<1>14. ASSUME NEW t \in Threads, EvictLast(t) PROVE NodeOwnership'
  <2>1. rpc[t] \notin HoldPCs
    BY <1>14 DEF EvictLast, HoldPCs
  <2>2. CASE GiveUp(t, "ESRCH")
    BY <1>10, <2>1, <2>2
  <2>3. CASE Take /\ Found(t, Head(ring)) /\ UNCHANGED p_entry
    <3> DEFINE e == Head(ring)
    <3>1. ring \in Seq(Entries) /\ ring # <<>> /\ ring' = Tail(ring) /\ NoDup(ring)
      BY <2>3 DEF Take, HeadStored, ReplTypeOK, NodeOwnership
    <3>2. /\ e \in Entries /\ e \in Elems(ring) /\ ring' \in Seq(Entries)
          /\ NoDup(ring') /\ Elems(ring') = Elems(ring) \ {e}
      BY <3>1, TailFacts
    <3> HIDE DEF e
    <3>3. p_entry[e] = None /\ \A u \in Threads : ~Holds(u, e)
      BY <3>2 DEF NodeOwnership
    <3>4. p_entry' = [p_entry EXCEPT ![e] = None]
      BY <2>3, <3>2, <3>3 DEF ReplTypeOK
    <3>5. Found(t, e)
      BY <2>3 DEF e
    <3> QED  BY <2>1, <3>2, <3>3, <3>4, <3>5, FoundOwnership
  <2> QED  BY <1>14, <2>2, <2>3 DEF EvictLast
<1>15. ASSUME NEW t \in Threads, Return(t) PROVE NodeOwnership'
  <2>1. rpc[t] \notin HoldPCs /\ "idle" \in RPCs \ HoldPCs
    BY <1>15 DEF Return, HoldPCs, RPCs
  <2> QED  BY <1>9, <1>15, <2>1 DEF Return, ringVars, listVars
<1>16. CASE UNCHANGED replVars
  BY <1>16 DEF replVars, ringVars, listVars, NodeOwnership, Holds
<1> QED
  BY <1>1, <1>2, <1>3, <1>4, <1>5, <1>6, <1>7, <1>8, <1>11, <1>12, <1>13, <1>14, <1>15,
     <1>16 DEF ReplNext, Call, ReplStep, Halted

\* In every reachable state of the policy, under any client, a node is in one
\* hand at a time, and the ring and the users never have a freed one.
THEOREM ReplOwnership == ReplSpec => []NodeOwnership
<1>1. ReplInit => NodeOwnership
  BY DEF ReplInit, RingInit, NodeOwnership, NoDup, Elems, Holds, HoldPCs
<1> QED  BY <1>1, ReplTypeCorrect, OwnershipStep, PTL DEF ReplSpec

----------------------------------------------------------------------------
(* The list holds the nodes, each once.  ListExact is inductive together    *)
(* with InsertingOwned.                                                     *)

ListInv == ListExact /\ InsertingOwned

\* Steps that touch neither the list, nor the set of nodes, nor an insertion.
LEMMA SameList ==
    ASSUME ListInv, node \subseteq Entries, node' = node,
           NoDup(first'), Elems(first') = Elems(first),
           \A u \in Threads, x \in Entries : Inserting(u, x)' <=> Inserting(u, x)
    PROVE  ListInv'
<1>1. ListExact'
  BY DEF ListInv, ListExact
<1>2. InsertingOwned'
  BY DEF ListInv, InsertingOwned
<1> QED  BY <1>1, <1>2 DEF ListInv

\* Unlinking and freeing a node, or not finding it in the list.
LEMMA FoundList ==
    ASSUME ReplTypeOK, ListInv, NEW t \in Threads, NEW e, rpc[t] # "ins_lock",
           Found(t, e)
    PROVE  ListInv'
<1>1. first \in Seq(Entries) /\ NoDup(first) /\ node \subseteq Entries
  BY DEF ReplTypeOK, ListInv, ListExact
<1>2. \A u \in Threads, x \in Entries : Inserting(u, x)' <=> Inserting(u, x)
  BY DEF Found, Goto, Inserting, ReplTypeOK
<1>3. CASE e \in Elems(first)
  <2>1. first' = Unlink(first, e) /\ node' = node \ {e}
    BY <1>3 DEF Found
  <2>2. NoDup(first') /\ Elems(first') = Elems(first) \ {e}
    BY <1>1, <1>3, <2>1, UnlinkFacts
  <2>3. node \subseteq Entries
    BY DEF ReplTypeOK
  <2>4. ListExact'
    BY <1>2, <2>1, <2>2, <2>3 DEF ListInv, ListExact
  <2>5. InsertingOwned'
    BY <1>2, <1>3, <2>1, <2>2 DEF ListInv, InsertingOwned
  <2> QED  BY <2>4, <2>5 DEF ListInv
<1>4. CASE e \notin Elems(first)
  BY <1>1, <1>2, <1>4, SameList DEF Found
<1> QED  BY <1>3, <1>4

\* Every step of the policy keeps the list exact.
LEMMA ListStep ==
    ReplTypeOK /\ ArgOK /\ ListInv /\ [ReplNext]_replVars => ListInv'
<1> SUFFICES ASSUME ReplTypeOK, ArgOK, ListInv, [ReplNext]_replVars
             PROVE  ListInv'
  OBVIOUS
<1> USE ConstantsAssumption
<1>0. first \in Seq(Entries) /\ NoDup(first) /\ node \subseteq Entries
  BY DEF ReplTypeOK, ListInv, ListExact
<1>1. ASSUME NEW t \in Threads, NEW e \in Entries, InsertNode(t, e) PROVE ListInv'
  <2>1. e \notin node /\ node' = node \cup {e} /\ first' = first
    BY <1>1 DEF InsertNode
  <2>2. e \notin Elems(first)
    BY <2>1 DEF ListInv, ListExact
  <2>3. \A u \in Threads : ~Inserting(u, e)
    BY <2>1 DEF ListInv, InsertingOwned
  <2>4. \A u \in Threads, x \in Entries :
          Inserting(u, x)' <=> Inserting(u, x) \/ (u = t /\ x = e)
    BY <1>1 DEF InsertNode, Goto, Inserting, ReplTypeOK
  <2>5. ListExact'
    BY <1>0, <2>1, <2>2, <2>4 DEF ListInv, ListExact
  <2>6. InsertingOwned'
    BY <2>1, <2>2, <2>3, <2>4 DEF ListInv, InsertingOwned
  <2> QED  BY <2>5, <2>6 DEF ListInv
<1>2. ASSUME NEW t \in Threads, InsertTail(t) PROVE ListInv'
  <2> DEFINE e == rarg[t]
  <2>1. e \in Entries /\ Inserting(t, e)
    BY <1>2 DEF InsertTail, ArgOK, ArgPCs, Inserting
  <2>2. node' = node /\ first' = Append(first, e)
    BY <1>2 DEF InsertTail
  <2> HIDE DEF e
  <2>3. e \in node /\ e \notin Elems(first) /\ \A u \in Threads : Inserting(u, e) => u = t
    BY <2>1 DEF ListInv, InsertingOwned
  <2>4. NoDup(first') /\ Elems(first') = Elems(first) \cup {e}
    BY <1>0, <2>1, <2>2, <2>3, AppendFacts
  <2>5. \A u \in Threads, x \in Entries :
          Inserting(u, x)' <=> Inserting(u, x) /\ u # t
    BY <1>2 DEF InsertTail, Goto, Inserting, ReplTypeOK
  <2>6. \A x \in Entries : Inserting(t, x) => x = e
    BY <2>1 DEF Inserting
  <2>7. ListExact'
    BY <1>0, <2>2, <2>3, <2>4, <2>5, <2>6 DEF ListInv, ListExact
  <2>8. InsertingOwned'
    BY <2>2, <2>3, <2>4, <2>5, <2>6 DEF ListInv, InsertingOwned
  <2> QED  BY <2>7, <2>8 DEF ListInv
<1>3. ASSUME NEW t \in Threads, rpc[t] # "ins_lock", rpc'[t] # "ins_lock",
             \A u \in Threads : u # t => rpc'[u] = rpc[u] /\ rarg'[u] = rarg[u],
             UNCHANGED <<node, first>>
      PROVE  ListInv'
  <2>1. \A u \in Threads, x \in Entries : Inserting(u, x)' <=> Inserting(u, x)
    BY <1>3 DEF Inserting
  <2> QED  BY <1>0, <1>3, <2>1, SameList
<1>4. ASSUME NEW t \in Threads, NEW e \in Entries, Use(t, e) PROVE ListInv'
  <2>1. /\ rpc[t] # "ins_lock" /\ rpc'[t] # "ins_lock" /\ UNCHANGED <<node, first>>
        /\ \A u \in Threads : u # t => rpc'[u] = rpc[u] /\ rarg'[u] = rarg[u]
    BY <1>4 DEF Use, Goto, ReplTypeOK
  <2> QED  BY <1>3, <2>1
<1>5. ASSUME NEW t \in Threads,
             \/ UseReserve(t) \/ UseFull(t) \/ UseLock(t) \/ EnqClaim(t)
             \/ EnqWrite(t) \/ EnqPost(t) \/ Return(t) \/ DequeueNone(t)
      PROVE  ListInv'
  <2>1. rpc[t] # "ins_lock" /\ UNCHANGED <<node, first>>
    BY <1>5 DEF UseReserve, UseFull, UseLock, EnqClaim, EnqWrite, EnqPost, Return,
                DequeueNone, listVars
  <2>2. /\ rpc'[t] # "ins_lock"
        /\ \A u \in Threads : u # t => rpc'[u] = rpc[u] /\ rarg'[u] = rarg[u]
    BY <1>5 DEF UseReserve, UseFull, UseLock, EnqClaim, EnqWrite, EnqPost, Return,
                DequeueNone, AfterDequeue, Goto, ReplTypeOK
  <2> QED  BY <1>3, <2>1, <2>2
<1>6. ASSUME NEW t \in Threads, DequeueOne(t) PROVE ListInv'
  <2>1. /\ ring \in Seq(Entries) /\ ring # <<>>
        /\ node' = node /\ first' = MoveToTail(first, Head(ring))
    BY <1>6 DEF DequeueOne, Take, HeadStored, ReplTypeOK
  <2>2. Head(ring) \in Entries
    BY <2>1, TailFacts
  <2>3. NoDup(first') /\ Elems(first') = Elems(first)
    BY <1>0, <2>1, <2>2, MoveToTailFacts
  <2>4. \A u \in Threads, x \in Entries : Inserting(u, x)' <=> Inserting(u, x)
    BY <1>6 DEF DequeueOne, DequeueAgain, AfterDequeue, Goto, Inserting, ReplTypeOK
  <2> QED  BY <1>0, <2>1, <2>3, <2>4, SameList
<1>7. ASSUME NEW t \in Threads, rpc[t] # "ins_lock", NEW err, GiveUp(t, err)
      PROVE  ListInv'
  <2>1. /\ rpc'[t] # "ins_lock" /\ UNCHANGED <<node, first>>
        /\ \A u \in Threads : u # t => rpc'[u] = rpc[u] /\ rarg'[u] = rarg[u]
    BY <1>7 DEF GiveUp, Goto, listVars, ReplTypeOK
  <2> QED  BY <1>3, <1>7, <2>1
<1>8. ASSUME NEW t \in Threads, NEW x \in Entries \cup {None}, EvictLock(t, x)
      PROVE  ListInv'
  <2>1. rpc[t] # "ins_lock"
    BY <1>8 DEF EvictLock
  <2>2. CASE GiveUp(t, "ESRCH")
    BY <1>7, <2>1, <2>2
  <2>3. CASE Grab(t, Candidate(x))
    BY <2>1, <2>3, FoundList DEF Grab
  <2>4. CASE ~GiveUp(t, "ESRCH") /\ ~Grab(t, Candidate(x))
    <3>1. /\ rpc'[t] # "ins_lock" /\ UNCHANGED <<node, first>>
          /\ \A u \in Threads : u # t => rpc'[u] = rpc[u] /\ rarg'[u] = rarg[u]
      BY <1>8, <2>4 DEF EvictLock, Goto, listVars, ReplTypeOK
    <3> QED  BY <1>3, <2>1, <3>1
  <2> QED  BY <2>2, <2>3, <2>4
<1>9. ASSUME NEW t \in Threads, EvictSecond(t) PROVE ListInv'
  <2>1. rpc[t] # "ins_lock"
    BY <1>9 DEF EvictSecond
  <2>2. CASE GiveUp(t, "EAGAIN")
    BY <1>7, <2>1, <2>2
  <2>3. CASE Grab(t, Candidate(rarg[t]))
    BY <2>1, <2>3, FoundList DEF Grab
  <2>4. CASE ~GiveUp(t, "EAGAIN") /\ ~Grab(t, Candidate(rarg[t]))
    <3>1. /\ rpc'[t] # "ins_lock" /\ UNCHANGED <<node, first>>
          /\ \A u \in Threads : u # t => rpc'[u] = rpc[u] /\ rarg'[u] = rarg[u]
      BY <1>9, <2>4 DEF EvictSecond, Goto, listVars, ReplTypeOK
    <3> QED  BY <1>3, <2>1, <3>1
  <2> QED  BY <2>2, <2>3, <2>4
<1>10. ASSUME NEW t \in Threads, EvictScan(t) PROVE ListInv'
  <2>1. rpc[t] # "ins_lock"
    BY <1>10 DEF EvictScan
  <2>2. CASE Grab(t, first[cursor + 1])
    BY <2>1, <2>2, FoundList DEF Grab
  <2>3. CASE ~Grab(t, first[cursor + 1])
    <3>1. /\ rpc'[t] # "ins_lock" /\ UNCHANGED <<node, first>>
          /\ \A u \in Threads : u # t => rpc'[u] = rpc[u] /\ rarg'[u] = rarg[u]
      BY <1>10, <2>3 DEF EvictScan, Goto, listVars, ReplTypeOK
    <3> QED  BY <1>3, <2>1, <3>1
  <2> QED  BY <2>2, <2>3
<1>11. ASSUME NEW t \in Threads, EvictLast(t) PROVE ListInv'
  <2>1. rpc[t] # "ins_lock"
    BY <1>11 DEF EvictLast
  <2> QED  BY <1>7, <1>11, <2>1, FoundList DEF EvictLast
<1>12. CASE UNCHANGED replVars
  BY <1>12 DEF replVars, listVars, ListInv, ListExact, InsertingOwned, Inserting
<1> QED
  BY <1>1, <1>2, <1>4, <1>5, <1>6, <1>8, <1>9, <1>10, <1>11, <1>12
     DEF ReplNext, Call, ReplStep, Halted

\* In every reachable state of the policy, under any client, the TAILQ holds
\* each allocated node once, but for those still on their way in.
THEOREM ReplList == ReplSpec => [](ListExact /\ InsertingOwned)
<1>1. ReplInit => ListInv
  BY DEF ReplInit, ListInv, ListExact, InsertingOwned, NoDup, Elems, Inserting
<1> QED  BY <1>1, ReplTypeCorrect, ListStep, PTL DEF ReplSpec, ListInv

----------------------------------------------------------------------------
(* No fault under a disciplined client.  A node that is not linked belongs  *)
(* to an insertion; under the discipline such a node is unlocked and nobody *)
(* is after it, while all that an eviction takes is locked by it (p_entry), *)
(* in the ring (so locked by a user), or in the list.                       *)

SafeInv == NoFault /\ LockDiscipline /\ EvictNonEmpty /\ DisciplineKept

\* A node that nobody is inserting is linked.
LEMMA Linked ==
    ASSUME ListInv, NEW e \in node, \A u \in Threads : ~Inserting(u, e)
    PROVE  e \in Elems(first)
BY DEF ListInv, ListExact

\* Steps that leave the mutex, the list's emptiness and the faults alone.
LEMMA SameSafe ==
    ASSUME SafeInv, fault' = fault,
           first # <<>> => first' # <<>>,
           \A u \in Threads : rpc'[u] \in LockPCs <=> lock' = u,
           \A u \in Threads : rpc'[u] \in EvictPCs =>
               /\ first' # <<>>
               /\ rpc[u] \in EvictPCs /\ rarg'[u] = rarg[u],
           \A u \in Threads, x \in Entries : Inserting(u, x)' => Inserting(u, x),
           \A u \in Threads, x \in Entries :
               Inserting(u, x)' /\ p_entry[x] # None => p_entry'[x] # None
    PROVE  SafeInv'
<1>1. NoFault' /\ LockDiscipline' /\ EvictNonEmpty'
  BY DEF SafeInv, NoFault, LockDiscipline, EvictNonEmpty
<1>2. DisciplineKept'
  BY DEF SafeInv, DisciplineKept
<1> QED  BY <1>1, <1>2 DEF SafeInv

\* The thread that may hold the mutex evicts a linked node.
LEMMA FoundSafe ==
    ASSUME ReplTypeOK, ListInv, SafeInv, NEW t \in Threads, rpc[t] # "ins_lock",
           lock \in {t, None},
           NEW e \in Elems(first), Found(t, e),
           p_entry' = p_entry \/ p_entry' = [p_entry EXCEPT ![e] = None]
    PROVE  SafeInv'
<1> USE ConstantsAssumption
<1>1. /\ rpc' = [rpc EXCEPT ![t] = "evicted"]
      /\ rarg' = [rarg EXCEPT ![t] = e]
      /\ lock' = None /\ fault' = fault
  BY DEF Found, Goto
<1>2. \A u \in Threads : u # t => rpc[u] \notin LockPCs
  BY DEF SafeInv, LockDiscipline
<1>3. \A u \in Threads : rpc'[u] \notin LockPCs
  BY <1>1, <1>2 DEF ReplTypeOK, LockPCs, EvictPCs
<1>4. EvictPCs \subseteq LockPCs
  BY DEF LockPCs
<1>5. \A u \in Threads, x \in Entries : Inserting(u, x)' => Inserting(u, x) /\ x # e
  BY <1>1 DEF Inserting, ReplTypeOK, ListInv, InsertingOwned
<1>6. \A x \in Entries : x # e => p_entry'[x] = p_entry[x]
  BY DEF ReplTypeOK
<1>7. NoFault' /\ LockDiscipline' /\ EvictNonEmpty'
  BY <1>1, <1>3, <1>4 DEF SafeInv, NoFault, LockDiscipline, EvictNonEmpty
<1>8. DisciplineKept'
  BY <1>3, <1>4, <1>5, <1>6 DEF SafeInv, DisciplineKept
<1> QED  BY <1>7, <1>8 DEF SafeInv

\* Under the discipline no step faults, and the discipline's fruits are kept.
LEMMA SafeStep ==
    ASSUME Disciplined, ReplTypeOK, ArgOK, NodeOwnership, ListInv, SafeInv,
           [ReplNext]_replVars
    PROVE  SafeInv'
<1> USE ConstantsAssumption
<1>0. /\ first \in Seq(Entries) /\ node \subseteq Entries
      /\ \A u \in Threads : rpc[u] \in LockPCs <=> lock = u
      /\ \A u \in Threads : rpc[u] \in EvictPCs => first # <<>>
      /\ EvictPCs \subseteq LockPCs
  BY DEF ReplTypeOK, SafeInv, LockDiscipline, EvictNonEmpty, LockPCs
<1>1. ASSUME NEW t \in Threads, NEW e \in Entries, MayInsert(e), InsertNode(t, e)
      PROVE  SafeInv'
  <2>1. /\ rpc[t] = "idle" /\ e \notin node
        /\ rpc' = [rpc EXCEPT ![t] = "ins_lock"] /\ rarg' = [rarg EXCEPT ![t] = e]
        /\ p_entry' = [p_entry EXCEPT ![e] = e]
        /\ UNCHANGED <<first, lock, fault>>
    BY <1>1 DEF InsertNode, Goto
  <2>2. \A u \in Threads : rarg[u] # e
    BY <1>1 DEF MayInsert
  <2>3. \A u \in Threads :
          /\ rpc'[u] \in LockPCs <=> rpc[u] \in LockPCs
          /\ rpc'[u] \in EvictPCs <=> rpc[u] \in EvictPCs
          /\ rpc'[u] \in EvictPCs => rarg'[u] = rarg[u]
    BY <2>1 DEF ReplTypeOK, LockPCs, EvictPCs
  <2>4. \A u \in Threads, x \in Entries :
          Inserting(u, x)' => x = e \/ (Inserting(u, x) /\ x # e)
    BY <2>1 DEF Inserting, ReplTypeOK, ListInv, InsertingOwned
  <2>5. p_entry'[e] # None /\ \A x \in Entries : x # e => p_entry'[x] = p_entry[x]
    BY <2>1 DEF ReplTypeOK
  <2>6. NoFault' /\ LockDiscipline' /\ EvictNonEmpty'
    BY <2>1, <2>3 DEF SafeInv, NoFault, LockDiscipline, EvictNonEmpty
  <2>7. DisciplineKept'
    BY <2>2, <2>3, <2>4, <2>5 DEF SafeInv, DisciplineKept
  <2> QED  BY <2>6, <2>7 DEF SafeInv
<1>2. ASSUME NEW t \in Threads, InsertTail(t) PROVE SafeInv'
  <2>1. /\ rpc[t] = "ins_lock" /\ lock = None
        /\ rpc' = [rpc EXCEPT ![t] = "idle"] /\ rarg' = [rarg EXCEPT ![t] = None]
        /\ UNCHANGED <<p_entry, lock, fault>>
        /\ first' = Append(first, rarg[t])
    BY <1>2 DEF InsertTail, Goto
  <2>2. \A u \in Threads : rpc'[u] \notin LockPCs
    BY <1>0, <2>1 DEF ReplTypeOK, LockPCs, EvictPCs
  <2>3. \A u \in Threads, x \in Entries : Inserting(u, x)' => Inserting(u, x)
    BY <2>1 DEF Inserting, ReplTypeOK
  <2>4. rarg[t] \in Entries
    BY <2>1 DEF ArgOK, ArgPCs
  <2>5. first' # <<>>
    BY <1>0, <2>1, <2>4, AppendFacts DEF Elems
  <2> QED  BY <1>0, <2>1, <2>2, <2>3, <2>5, SameSafe
<1>3. ASSUME NEW t \in Threads, NEW e \in Entries, MayTouch(e), Use(t, e)
      PROVE  SafeInv'
  <2>1. /\ rpc[t] = "idle" /\ UNCHANGED <<first, lock, fault>>
        /\ rpc'[t] \notin LockPCs /\ rpc'[t] # "ins_lock"
        /\ \A u \in Threads : u # t => rpc'[u] = rpc[u] /\ rarg'[u] = rarg[u]
        /\ \A x \in Entries : x # e => p_entry'[x] = p_entry[x]
    BY <1>3 DEF Use, LockEntry, Goto, ReplTypeOK, LockPCs, EvictPCs
  <2>2. rpc[t] \notin LockPCs
    BY <2>1 DEF LockPCs, EvictPCs
  <2>3. \A u \in Threads : rpc'[u] \in LockPCs <=> lock' = u
    BY <1>0, <2>1, <2>2
  <2>4. \A u \in Threads : rpc'[u] \in EvictPCs =>
           first' # <<>> /\ rpc[u] \in EvictPCs /\ rarg'[u] = rarg[u]
    BY <1>0, <2>1
  <2>5. \A u \in Threads, x \in Entries : Inserting(u, x)' => Inserting(u, x) /\ x # e
    BY <1>3, <2>1 DEF Inserting, MayTouch
  <2> QED  BY <2>1, <2>3, <2>4, <2>5, SameSafe
<1>4. ASSUME NEW t \in Threads,
             \/ UseReserve(t) \/ UseFull(t) \/ UseLock(t) \/ EnqClaim(t)
             \/ EnqWrite(t) \/ EnqPost(t) \/ Return(t)
      PROVE  SafeInv'
  <2>1. UNCHANGED <<first, fault, p_entry>>
    BY <1>4 DEF UseReserve, UseFull, UseLock, EnqClaim, EnqWrite, EnqPost, Return,
                listVars
  <2>2. /\ rpc[t] \notin LockPCs /\ rpc'[t] \notin EvictPCs /\ rpc'[t] # "ins_lock"
        /\ \A u \in Threads : u # t => rpc'[u] = rpc[u] /\ rarg'[u] = rarg[u]
    BY <1>4 DEF UseReserve, UseFull, UseLock, EnqClaim, EnqWrite, EnqPost, Return,
                Goto, ReplTypeOK, LockPCs, EvictPCs
  <2>3. \/ rpc'[t] \notin LockPCs /\ lock' = lock
        \/ rpc'[t] \in LockPCs /\ lock = None /\ lock' = t
    BY <1>4 DEF UseReserve, UseFull, UseLock, EnqClaim, EnqWrite, EnqPost, Return,
                Goto, ReplTypeOK, LockPCs, EvictPCs
  <2>4. \A u \in Threads : rpc'[u] \in LockPCs <=> lock' = u
    BY <1>0, <2>2, <2>3
  <2>5. \A u \in Threads : rpc'[u] \in EvictPCs =>
           first' # <<>> /\ rpc[u] \in EvictPCs /\ rarg'[u] = rarg[u]
    BY <1>0, <2>1, <2>2
  <2>6. \A u \in Threads, x \in Entries : Inserting(u, x)' => Inserting(u, x)
    BY <2>2 DEF Inserting
  <2> QED  BY <2>1, <2>4, <2>5, <2>6, SameSafe
<1>5. ASSUME NEW t \in Threads, rpc[t] \in LockPCs, rpc[t] # "ins_lock",
             rpc'[t] # "ins_lock",
             \/ rpc'[t] \in LockPCs /\ lock' = t
             \/ rpc'[t] \notin LockPCs /\ lock' = None,
             rpc'[t] \in EvictPCs => rpc[t] \in EvictPCs /\ rarg'[t] = rarg[t],
             \A u \in Threads : u # t => rpc'[u] = rpc[u] /\ rarg'[u] = rarg[u],
             \A x \in Entries : p_entry[x] # None => p_entry'[x] # None,
             first # <<>> => first' # <<>>, fault' = fault
      PROVE  SafeInv'
  <2>1. \A u \in Threads : u # t => rpc[u] \notin LockPCs
    BY <1>0, <1>5
  <2>2. \A u \in Threads : rpc'[u] \in LockPCs <=> lock' = u
    BY <1>5, <2>1
  <2>3. \A u \in Threads : rpc'[u] \in EvictPCs =>
           first' # <<>> /\ rpc[u] \in EvictPCs /\ rarg'[u] = rarg[u]
    BY <1>0, <1>5, <2>1
  <2>4. \A u \in Threads, x \in Entries : Inserting(u, x)' => Inserting(u, x)
    BY <1>5 DEF Inserting
  <2> QED  BY <1>5, <2>2, <2>3, <2>4, SameSafe
<1>6. ASSUME NEW t \in Threads, DequeueOne(t) \/ DequeueNone(t) PROVE SafeInv'
  <2>1. /\ rpc[t] \in {"use_deq", "ev_deq"} /\ rarg' = rarg /\ fault' = fault
        /\ AfterDequeue(t) \/ UNCHANGED <<rpc, lock>>
    BY <1>6 DEF DequeueOne, DequeueNone, DequeueAgain
  <2>2. rpc[t] \in LockPCs /\ lock = t /\ rpc[t] # "ins_lock"
    BY <1>0, <2>1 DEF LockPCs, EvictPCs
  <2>3. /\ rpc'[t] # "ins_lock"
        /\ \/ rpc'[t] \in LockPCs /\ lock' = t
           \/ rpc'[t] \notin LockPCs /\ lock' = None
        /\ rpc'[t] \in EvictPCs => rpc[t] \in EvictPCs
        /\ \A u \in Threads : u # t => rpc'[u] = rpc[u]
    <3>1. CASE UNCHANGED <<rpc, lock>>
      BY <2>2, <3>1
    <3>2. CASE rpc[t] = "use_deq" /\ rpc' = [rpc EXCEPT ![t] = "use_enq"] /\ lock' = None
      BY <3>2 DEF ReplTypeOK, LockPCs, EvictPCs
    <3>3. CASE rpc[t] = "ev_deq" /\ rpc' = [rpc EXCEPT ![t] = "ev_second"] /\ lock' = lock
      BY <2>2, <3>3 DEF ReplTypeOK, LockPCs, EvictPCs
    <3> QED  BY <2>1, <3>1, <3>2, <3>3 DEF AfterDequeue, Goto
  <2>4. CASE DequeueOne(t)
    <3>1. /\ ring \in Seq(Entries) /\ ring # <<>>
          /\ first' = MoveToTail(first, Head(ring))
          /\ p_entry' = [p_entry EXCEPT ![Head(ring)] = Head(ring)]
      BY <2>4 DEF DequeueOne, Take, HeadStored, UnlockEntry, ReplTypeOK
    <3>2. Head(ring) \in Entries
      BY <3>1, TailFacts
    <3>3. NoDup(first)
      BY DEF ListInv, ListExact
    <3>4. Elems(first') = Elems(first)
      BY <1>0, <3>1, <3>2, <3>3, MoveToTailFacts
    <3>5. first # <<>> => first' # <<>>
      BY <1>0, <3>4, TailFacts DEF Elems
    <3>6. \A x \in Entries : p_entry[x] # None => p_entry'[x] # None
      BY <3>1, <3>2 DEF ReplTypeOK
    <3> QED  BY <1>5, <2>1, <2>2, <2>3, <3>5, <3>6
  <2>5. CASE DequeueNone(t)
    <3>1. UNCHANGED <<first, p_entry>>
      BY <2>5 DEF DequeueNone, listVars
    <3> QED  BY <1>5, <2>1, <2>2, <2>3, <3>1
  <2> QED  BY <1>6, <2>4, <2>5
<1>7. ASSUME NEW t \in Threads, NEW e \in Entries, \A u \in Threads : ~Inserting(u, e),
             lock \in {t, None}, rpc[t] # "ins_lock", Grab(t, e)
      PROVE  SafeInv'
  <2>1. /\ p_entry[e] # None /\ p_entry' = [p_entry EXCEPT ![e] = None] /\ Found(t, e)
    BY <1>7 DEF Grab, LockEntry
  <2>2. e \in node
    BY <2>1 DEF NodeOwnership
  <2> QED  BY <1>7, <2>1, <2>2, Linked, FoundSafe
<1>8. \A i \in 1 .. Len(first) :
         first[i] \in Entries /\ \A u \in Threads : ~Inserting(u, first[i])
  BY <1>0 DEF ListInv, InsertingOwned, Elems
<1>9. first # <<>> => Len(first) \in Nat /\ Len(first) >= 1 /\ Head(first) = first[1]
  BY <1>0
<1>10. ASSUME NEW t \in Threads, NEW err, rpc[t] # "ins_lock", lock \in {t, None},
              GiveUp(t, err)
       PROVE  SafeInv'
  <2>1. /\ rpc' = [rpc EXCEPT ![t] = "evicted"] /\ rarg' = [rarg EXCEPT ![t] = None]
        /\ lock' = None /\ UNCHANGED <<first, p_entry, fault>>
    BY <1>10 DEF GiveUp, Goto, listVars
  <2>2. \A u \in Threads : rpc'[u] \notin LockPCs
    BY <1>0, <1>10, <2>1 DEF ReplTypeOK, LockPCs, EvictPCs
  <2>3. \A u \in Threads, x \in Entries : Inserting(u, x)' => Inserting(u, x)
    BY <2>1 DEF Inserting, ReplTypeOK
  <2> QED  BY <1>0, <2>1, <2>2, <2>3, SameSafe
<1>11. ASSUME NEW t \in Threads, NEW x \in Entries \cup {None}, MayTouch(x),
              EvictLock(t, x)
       PROVE  SafeInv'
  <2>1. rpc[t] = "idle" /\ lock = None
    BY <1>11 DEF EvictLock
  <2>2. CASE first = <<>>
    BY <1>10, <1>11, <2>1, <2>2 DEF EvictLock
  <2>3. CASE first # <<>>
    <3>1. Candidate(x) \in Entries /\ \A u \in Threads : ~Inserting(u, Candidate(x))
      BY <1>8, <1>9, <1>11, <2>3 DEF Candidate, MayTouch
    <3>2. CASE Grab(t, Candidate(x))
      BY <1>7, <2>1, <3>1, <3>2
    <3>3. CASE ~Grab(t, Candidate(x))
      <4>1. /\ rpc' = [rpc EXCEPT ![t] = "ev_deq"] /\ rarg' = [rarg EXCEPT ![t] = x]
            /\ lock' = t /\ UNCHANGED <<first, p_entry, fault>>
        BY <1>11, <2>3, <3>3 DEF EvictLock, Goto, listVars
      <4>2. \A u \in Threads : rpc[u] \notin LockPCs
        BY <1>0, <2>1
      <4>3. "ev_deq" \in LockPCs
        BY DEF LockPCs, EvictPCs
      <4>4. \A u \in Threads : rpc'[u] \in LockPCs <=> u = t
        BY <4>1, <4>2, <4>3 DEF ReplTypeOK
      <4>5. NoFault' /\ LockDiscipline' /\ EvictNonEmpty'
        BY <1>0, <2>3, <4>1, <4>4
           DEF SafeInv, NoFault, LockDiscipline, EvictNonEmpty
      <4>6. \A u \in Threads, y \in Entries : Inserting(u, y)' => Inserting(u, y)
        BY <4>1 DEF Inserting, ReplTypeOK
      <4>7. \A u \in Threads : ~Inserting(u, x)
        BY <1>11 DEF MayTouch
      <4>8. DisciplineKept'
        BY <1>0, <4>1, <4>4, <4>6, <4>7 DEF SafeInv, DisciplineKept, ReplTypeOK
      <4> QED  BY <4>5, <4>8 DEF SafeInv
    <3> QED  BY <3>2, <3>3
  <2> QED  BY <2>2, <2>3
<1>12. ASSUME NEW t \in Threads, EvictSecond(t) PROVE SafeInv'
  <2>1. /\ rpc[t] = "ev_second" /\ rpc[t] \in EvictPCs /\ rpc[t] \in LockPCs
        /\ lock = t /\ first # <<>>
    BY <1>0, <1>12 DEF EvictSecond, EvictPCs
  <2>2. Candidate(rarg[t]) \in Entries
    BY <1>8, <1>9, <2>1 DEF Candidate, ReplTypeOK
  <2>3. \A u \in Threads : ~Inserting(u, Candidate(rarg[t]))
    BY <1>8, <1>9, <2>1, <2>2 DEF Candidate, SafeInv, DisciplineKept
  <2>4. CASE Grab(t, Candidate(rarg[t]))
    BY <1>7, <2>1, <2>2, <2>3, <2>4
  <2>5. CASE GiveUp(t, "EAGAIN")
    BY <1>10, <2>1, <2>5
  <2>6. CASE ~Grab(t, Candidate(rarg[t])) /\ ~GiveUp(t, "EAGAIN")
    <3>1. /\ rpc' = [rpc EXCEPT ![t] = "ev_scan"]
          /\ UNCHANGED <<first, p_entry, lock, rarg, fault>>
      BY <1>12, <2>6 DEF EvictSecond, Goto, listVars
    <3>2. rpc'[t] = "ev_scan" /\ \A u \in Threads : u # t => rpc'[u] = rpc[u]
      BY <3>1 DEF ReplTypeOK
    <3>3. rpc'[t] \in LockPCs /\ rpc'[t] \in EvictPCs /\ rpc'[t] # "ins_lock"
      BY <3>2 DEF LockPCs, EvictPCs
    <3>4. /\ lock' = t /\ rpc[t] # "ins_lock" /\ rarg'[t] = rarg[t]
          /\ fault' = fault /\ first' = first /\ p_entry' = p_entry
          /\ \A u \in Threads : u # t => rpc'[u] = rpc[u] /\ rarg'[u] = rarg[u]
      BY <2>1, <3>1, <3>2
    <3> QED  BY <1>5, <2>1, <3>3, <3>4
  <2> QED  BY <2>4, <2>5, <2>6
<1>13. ASSUME NEW t \in Threads, EvictScan(t) PROVE SafeInv'
  <2>1. /\ rpc[t] = "ev_scan" /\ rpc[t] \in EvictPCs /\ rpc[t] \in LockPCs
        /\ lock = t
    BY <1>0, <1>13 DEF EvictScan, EvictPCs
  <2>2. CASE cursor < Len(first) /\ Grab(t, first[cursor + 1])
    <3>1. cursor + 1 \in 1 .. Len(first)
      BY <1>0, <2>2 DEF ReplTypeOK
    <3> QED  BY <1>7, <1>8, <2>1, <2>2, <3>1
  <2>3. CASE ~(cursor < Len(first) /\ Grab(t, first[cursor + 1]))
    <3>1. /\ rpc' = [rpc EXCEPT ![t] = "ev_last"] \/ rpc' = rpc
          /\ UNCHANGED <<first, p_entry, lock, rarg, fault>>
      BY <1>13, <2>3 DEF EvictScan, Goto, listVars
    <3>2. /\ rpc'[t] \in {"ev_scan", "ev_last"}
          /\ \A u \in Threads : u # t => rpc'[u] = rpc[u]
      BY <2>1, <3>1 DEF ReplTypeOK
    <3>3. rpc'[t] \in LockPCs /\ rpc'[t] \in EvictPCs /\ rpc'[t] # "ins_lock"
      BY <3>2 DEF LockPCs, EvictPCs
    <3>4. /\ lock' = t /\ rpc[t] # "ins_lock" /\ rarg'[t] = rarg[t]
          /\ fault' = fault /\ first' = first /\ p_entry' = p_entry
          /\ \A u \in Threads : u # t => rpc'[u] = rpc[u] /\ rarg'[u] = rarg[u]
      BY <2>1, <3>1, <3>2
    <3> QED  BY <1>5, <2>1, <3>3, <3>4
  <2> QED  BY <2>2, <2>3
<1>14. ASSUME NEW t \in Threads, EvictLast(t) PROVE SafeInv'
  <2>1. rpc[t] = "ev_last" /\ lock = t
    BY <1>0, <1>14 DEF EvictLast, EvictPCs, LockPCs
  <2>2. CASE GiveUp(t, "ESRCH")
    BY <1>10, <2>1, <2>2
  <2>3. CASE Take /\ Found(t, Head(ring)) /\ UNCHANGED p_entry
    <3>1. ring \in Seq(Entries) /\ ring # <<>>
      BY <2>3 DEF Take, HeadStored, ReplTypeOK
    <3>2. Head(ring) \in Entries /\ Head(ring) \in Elems(ring)
      BY <3>1, TailFacts
    <3>3. Head(ring) \in node /\ p_entry[Head(ring)] = None
      BY <3>2 DEF NodeOwnership
    <3>4. \A u \in Threads : ~Inserting(u, Head(ring))
      BY <3>2, <3>3 DEF SafeInv, DisciplineKept
    <3> QED  BY <2>1, <2>3, <3>3, <3>4, Linked, FoundSafe
  <2> QED  BY <1>14, <2>2, <2>3 DEF EvictLast
<1>15. CASE UNCHANGED replVars
  BY <1>0, <1>15, SameSafe DEF replVars, listVars, Inserting
<1> QED
  BY <1>1, <1>2, <1>3, <1>4, <1>6, <1>11, <1>12, <1>13, <1>14, <1>15
     DEF ReplNext, Call, ReplStep, Halted

\* If no client touches an entry while its insertion is on, repl_p_lru_evict
\* never unlinks a node that is not linked: TAILQ_REMOVE never goes through the
\* NULL link of a fresh node, whatever the interleaving.
THEOREM ReplNoFault ==
    ASSUME Disciplined
    PROVE  ReplSpec => []NoFault
<1>1. ReplInit => SafeInv
  BY ConstantsAssumption
     DEF ReplInit, SafeInv, NoFault, LockDiscipline, EvictNonEmpty, DisciplineKept,
         LockPCs, EvictPCs, Inserting
<1>2. ReplTypeOK /\ ArgOK /\ NodeOwnership /\ ListInv /\ SafeInv
        /\ [ReplNext]_replVars => SafeInv'
  BY SafeStep
<1>3. ReplSpec => [](ReplTypeOK /\ ArgOK)  BY ReplTypeCorrect
<1>4. ReplSpec => []NodeOwnership  BY ReplOwnership
<1>5. ReplSpec => []ListInv  BY ReplList, PTL DEF ListInv
<1>6. SafeInv => NoFault  BY DEF SafeInv
<1> QED  BY <1>1, <1>2, <1>3, <1>4, <1>5, <1>6, PTL DEF ReplSpec


----------------------------------------------------------------------------
(* No node is lost.  Given types and ownership, NoNodeLost is inductive.    *)

\* Steps after which every node has the hands it had.
LEMMA SameNotLost ==
    ASSUME NoNodeLost, node \subseteq Entries, node' \subseteq node, fault => fault',
           \A x \in Entries : p_entry[x] # None => p_entry'[x] # None,
           Elems(ring) \subseteq Elems(ring'),
           \A u \in Threads, x \in Entries : Holds(u, x) => Holds(u, x)'
    PROVE  NoNodeLost'
BY DEF NoNodeLost

\* A node taken out of the list or of the ring for eviction is freed; if it
\* cannot be, the process is gone.
LEMMA FoundNotLost ==
    ASSUME ReplTypeOK, NoNodeLost, NEW t \in Threads, NEW e, rpc[t] \notin HoldPCs,
           Found(t, e),
           \A x \in Entries : x # e => p_entry'[x] = p_entry[x],
           \A x \in Elems(ring) : x # e => x \in Elems(ring')
    PROVE  NoNodeLost'
<1>1. CASE e \in Elems(first)
  <2>1. node' = node \ {e} /\ fault' = fault
    BY <1>1 DEF Found
  <2>2. \A u \in Threads, x \in Entries : Holds(u, x) => Holds(u, x)'
    BY <1>1 DEF Found, Goto, Holds, ReplTypeOK
  <2>3. node \subseteq Entries
    BY DEF ReplTypeOK
  <2> QED  BY <2>1, <2>2, <2>3 DEF NoNodeLost
<1>2. CASE e \notin Elems(first)
  BY <1>2 DEF Found, NoNodeLost
<1> QED  BY <1>1, <1>2

\* Every step of the policy keeps every node within reach.
LEMMA NotLostStep ==
    ReplTypeOK /\ ArgOK /\ NodeOwnership /\ NoNodeLost /\ [ReplNext]_replVars
        => NoNodeLost'
<1> SUFFICES ASSUME ReplTypeOK, ArgOK, NodeOwnership, NoNodeLost, [ReplNext]_replVars
             PROVE  NoNodeLost'
  OBVIOUS
<1> USE ConstantsAssumption
<1>0. node \subseteq Entries /\ ring \in Seq(Entries)
  BY DEF ReplTypeOK
<1>1. ASSUME NEW t \in Threads, NEW e \in Entries, InsertNode(t, e) PROVE NoNodeLost'
  <2>1. /\ node' = node \cup {e} /\ UNCHANGED <<ring, fault>>
        /\ p_entry' = [p_entry EXCEPT ![e] = e]
    BY <1>1 DEF InsertNode, ringVars
  <2>2. /\ p_entry'[e] # None
        /\ \A x \in Entries : x # e => p_entry'[x] = p_entry[x]
    BY <2>1 DEF ReplTypeOK
  <2>3. \A u \in Threads, x \in Entries : Holds(u, x) => Holds(u, x)'
    BY <1>1 DEF InsertNode, Goto, Holds, HoldPCs, ReplTypeOK
  <2> QED  BY <1>0, <2>1, <2>2, <2>3 DEF NoNodeLost
<1>2. ASSUME NEW t \in Threads, NEW e \in Entries, Use(t, e) PROVE NoNodeLost'
  <2>1. CASE p_entry[e] = None
    BY <1>2, <2>1 DEF Use, LockEntry, ringVars, NoNodeLost, Holds
  <2>2. CASE p_entry[e] # None
    <3>1. /\ UNCHANGED <<ring, node, fault>>
          /\ p_entry' = [p_entry EXCEPT ![e] = None]
          /\ rpc' = [rpc EXCEPT ![t] = "use_enq"]
          /\ rarg' = [rarg EXCEPT ![t] = e]
          /\ rpc[t] = "idle"
      BY <1>2, <2>2 DEF Use, LockEntry, Goto, ringVars
    <3>2. Holds(t, e)' /\ \A u \in Threads, x \in Entries : Holds(u, x) => Holds(u, x)'
      BY <3>1 DEF Holds, HoldPCs, ReplTypeOK
    <3>3. \A x \in Entries : x # e => p_entry'[x] = p_entry[x]
      BY <3>1 DEF ReplTypeOK
    <3> QED  BY <1>0, <3>1, <3>2, <3>3 DEF NoNodeLost
  <2> QED  BY <2>1, <2>2
<1>3. ASSUME NEW t \in Threads, EnqClaim(t) PROVE NoNodeLost'
  <2>1. rarg[t] \in Entries
    BY <1>3 DEF EnqClaim, ArgOK, ArgPCs, HoldPCs
  <2>2. ring' = Append(ring, rarg[t]) /\ UNCHANGED <<p_entry, node, rarg, fault>>
    BY <1>3 DEF EnqClaim, Claim, listVars
  <2>3. Elems(ring') = Elems(ring) \cup {rarg[t]}
    BY <1>0, <2>1, <2>2, AppendFacts
  <2>4. \A u \in Threads, x \in Entries : Holds(u, x) => Holds(u, x)' \/ x = rarg[t]
    BY <1>3, <2>2 DEF EnqClaim, Goto, Holds, HoldPCs, ReplTypeOK
  <2> QED  BY <1>0, <2>2, <2>3, <2>4 DEF NoNodeLost
<1>4. ASSUME NEW t \in Threads, DequeueOne(t) PROVE NoNodeLost'
  <2> DEFINE e == Head(ring)
  <2>1. ring # <<>> /\ ring' = Tail(ring) /\ NoDup(ring)
    BY <1>4 DEF DequeueOne, Take, HeadStored, NodeOwnership
  <2>2. e \in Entries /\ Elems(ring') = Elems(ring) \ {e}
    BY <1>0, <2>1, TailFacts
  <2> HIDE DEF e
  <2>3. UNCHANGED <<node, rarg, fault>> /\ p_entry' = [p_entry EXCEPT ![e] = e]
    BY <1>4 DEF DequeueOne, UnlockEntry, e
  <2>4. /\ p_entry'[e] # None
        /\ \A x \in Entries : x # e => p_entry'[x] = p_entry[x]
    BY <2>2, <2>3 DEF ReplTypeOK
  <2>5. /\ rpc'[t] \in HoldPCs <=> rpc[t] \in HoldPCs
        /\ \A u \in Threads : u # t => rpc'[u] = rpc[u]
    BY <1>4 DEF DequeueOne, DequeueAgain, AfterDequeue, Goto, HoldPCs, ReplTypeOK
  <2>6. \A u \in Threads, x \in Entries : Holds(u, x)' <=> Holds(u, x)
    BY <2>3, <2>5 DEF Holds
  <2> QED  BY <1>0, <2>2, <2>3, <2>4, <2>6 DEF NoNodeLost
<1>5. ASSUME NEW t \in Threads,
             \/ InsertTail(t) \/ UseReserve(t) \/ UseFull(t) \/ UseLock(t)
             \/ EnqWrite(t) \/ EnqPost(t) \/ DequeueNone(t) \/ Return(t)
      PROVE  NoNodeLost'
  <2>1. UNCHANGED <<ring, p_entry, node, fault>>
    BY <1>5 DEF InsertTail, UseReserve, UseFull, UseLock, EnqWrite, EnqPost, DequeueNone,
                Return, Reserve, Write, Post, ringVars, listVars
  <2>2. /\ rpc[t] \in HoldPCs => rpc'[t] \in HoldPCs /\ rarg'[t] = rarg[t]
        /\ \A u \in Threads : u # t => rpc'[u] = rpc[u] /\ rarg'[u] = rarg[u]
    BY <1>5 DEF InsertTail, UseReserve, UseFull, UseLock, EnqWrite, EnqPost, DequeueNone,
                Return, AfterDequeue, Goto, HoldPCs, ReplTypeOK
  <2>3. \A u \in Threads, x \in Entries : Holds(u, x) => Holds(u, x)'
    BY <2>2 DEF Holds
  <2> QED  BY <1>0, <2>1, <2>3, SameNotLost
<1>6. ASSUME NEW t \in Threads, NEW e, rpc[t] \notin HoldPCs, Grab(t, e)
      PROVE  NoNodeLost'
  <2>1. Found(t, e) /\ UNCHANGED ring /\ p_entry' = [p_entry EXCEPT ![e] = None]
    BY <1>6 DEF Grab, LockEntry, ringVars
  <2>2. \A x \in Entries : x # e => p_entry'[x] = p_entry[x]
    BY <2>1 DEF ReplTypeOK
  <2> QED  BY <1>6, <2>1, <2>2, FoundNotLost
<1>7. ASSUME NEW t \in Threads, rpc[t] \notin HoldPCs,
             UNCHANGED <<ring, p_entry, node, fault>>,
             \A u \in Threads : u # t => rpc'[u] = rpc[u] /\ rarg'[u] = rarg[u]
      PROVE  NoNodeLost'
  <2>1. \A u \in Threads, x \in Entries : Holds(u, x) => Holds(u, x)'
    BY <1>7 DEF Holds
  <2> QED  BY <1>0, <1>7, <2>1, SameNotLost
<1>8. ASSUME NEW t \in Threads, rpc[t] \notin HoldPCs, NEW err, GiveUp(t, err)
      PROVE  NoNodeLost'
  <2>1. /\ UNCHANGED <<ring, p_entry, node, fault>>
        /\ \A u \in Threads : u # t => rpc'[u] = rpc[u] /\ rarg'[u] = rarg[u]
    BY <1>8 DEF GiveUp, Goto, ringVars, listVars, ReplTypeOK
  <2> QED  BY <1>7, <1>8, <2>1
<1>9. ASSUME NEW t \in Threads, NEW x \in Entries \cup {None}, EvictLock(t, x)
      PROVE  NoNodeLost'
  <2>1. rpc[t] \notin HoldPCs
    BY <1>9 DEF EvictLock, HoldPCs
  <2>2. CASE GiveUp(t, "ESRCH") \/ Grab(t, Candidate(x))
    BY <1>6, <1>8, <2>1, <2>2
  <2>3. CASE ~GiveUp(t, "ESRCH") /\ ~Grab(t, Candidate(x))
    <3>1. /\ UNCHANGED <<ring, p_entry, node, fault>>
          /\ \A u \in Threads : u # t => rpc'[u] = rpc[u] /\ rarg'[u] = rarg[u]
      BY <1>9, <2>3 DEF EvictLock, Goto, ringVars, listVars, ReplTypeOK
    <3> QED  BY <1>7, <2>1, <3>1
  <2> QED  BY <2>2, <2>3
<1>10. ASSUME NEW t \in Threads, EvictSecond(t) PROVE NoNodeLost'
  <2>1. rpc[t] \notin HoldPCs
    BY <1>10 DEF EvictSecond, HoldPCs
  <2>2. CASE GiveUp(t, "EAGAIN") \/ Grab(t, Candidate(rarg[t]))
    BY <1>6, <1>8, <2>1, <2>2
  <2>3. CASE ~GiveUp(t, "EAGAIN") /\ ~Grab(t, Candidate(rarg[t]))
    <3>1. /\ UNCHANGED <<ring, p_entry, node, fault>>
          /\ \A u \in Threads : u # t => rpc'[u] = rpc[u] /\ rarg'[u] = rarg[u]
      BY <1>10, <2>3 DEF EvictSecond, Goto, ringVars, listVars, ReplTypeOK
    <3> QED  BY <1>7, <2>1, <3>1
  <2> QED  BY <2>2, <2>3
<1>11. ASSUME NEW t \in Threads, EvictScan(t) PROVE NoNodeLost'
  <2>1. rpc[t] \notin HoldPCs
    BY <1>11 DEF EvictScan, HoldPCs
  <2>2. CASE Grab(t, first[cursor + 1])
    BY <1>6, <2>1, <2>2
  <2>3. CASE ~Grab(t, first[cursor + 1])
    <3>1. /\ UNCHANGED <<ring, p_entry, node, fault>>
          /\ \A u \in Threads : u # t => rpc'[u] = rpc[u] /\ rarg'[u] = rarg[u]
      BY <1>11, <2>3 DEF EvictScan, Goto, ringVars, listVars, ReplTypeOK
    <3> QED  BY <1>7, <2>1, <3>1
  <2> QED  BY <2>2, <2>3
<1>12. ASSUME NEW t \in Threads, EvictLast(t) PROVE NoNodeLost'
  <2>1. rpc[t] \notin HoldPCs
    BY <1>12 DEF EvictLast, HoldPCs
  <2>2. CASE GiveUp(t, "ESRCH")
    BY <1>8, <2>1, <2>2
  <2>3. CASE Take /\ Found(t, Head(ring)) /\ UNCHANGED p_entry
    <3>1. ring # <<>> /\ ring' = Tail(ring) /\ NoDup(ring)
      BY <2>3 DEF Take, HeadStored, NodeOwnership
    <3>2. Elems(ring') = Elems(ring) \ {Head(ring)}
      BY <1>0, <3>1, TailFacts
    <3> QED  BY <2>1, <2>3, <3>2, FoundNotLost
  <2> QED  BY <1>12, <2>2, <2>3 DEF EvictLast
<1>13. CASE UNCHANGED replVars
  BY <1>13 DEF replVars, ringVars, listVars, NoNodeLost, Holds
<1> QED
  BY <1>1, <1>2, <1>3, <1>4, <1>5, <1>9, <1>10, <1>11, <1>12, <1>13
     DEF ReplNext, Call, ReplStep, Halted

\* In every reachable state of the policy a node whose p_entry is NULL is in the
\* ring or in the hands of a user, so it comes back: no use and no drain, in
\* whatever order, leaves a node locked that nobody will unlock.
THEOREM ReplNoNodeLost == ReplSpec => []NoNodeLost
<1>1. ReplInit => NoNodeLost
  BY DEF ReplInit, NoNodeLost
<1> QED
  BY <1>1, ReplTypeCorrect, ReplOwnership, NotLostStep, PTL DEF ReplSpec

----------------------------------------------------------------------------
(* The accounts of the two semaphores.  Given the types, RingAccounting is  *)
(* inductive: every step moves one thread, and each of the sums changes by  *)
(* what the thread gains or loses.                                          *)

\* One thread moves: the number of threads at the places P changes by at most
\* one.
LEMMA CountMove ==
    ASSUME NEW S, IsFiniteSet(S), NEW f, NEW g, NEW P, NEW t \in S,
           \A u \in S : u # t => g[u] = f[u]
    PROVE  LET A == {u \in S : f[u] \in P}
               B == {u \in S : g[u] \in P}
           IN  /\ Cardinality(A) \in Nat /\ Cardinality(B) \in Nat
               /\ (f[t] \in P <=> g[t] \in P) => Cardinality(B) = Cardinality(A)
               /\ f[t] \notin P /\ g[t] \in P => Cardinality(B) = Cardinality(A) + 1
               /\ f[t] \in P /\ g[t] \notin P => Cardinality(B) = Cardinality(A) - 1
<1> DEFINE A == {u \in S : f[u] \in P}
           B == {u \in S : g[u] \in P}
<1>1. IsFiniteSet(A) /\ IsFiniteSet(B)
  BY FS_Subset
<1>2. Cardinality(A) \in Nat /\ Cardinality(B) \in Nat
  BY <1>1, FS_CardinalityType
<1>3. ASSUME f[t] \in P <=> g[t] \in P PROVE Cardinality(B) = Cardinality(A)
  <2>1. A = B
    BY <1>3
  <2> QED  BY <2>1
<1>4. ASSUME f[t] \notin P, g[t] \in P PROVE Cardinality(B) = Cardinality(A) + 1
  <2>1. B = A \cup {t} /\ t \notin A
    BY <1>4
  <2> QED  BY <1>1, <2>1, FS_AddElement
<1>5. ASSUME f[t] \in P, g[t] \notin P PROVE Cardinality(B) = Cardinality(A) - 1
  <2>1. B = A \ {t} /\ t \in A
    BY <1>5
  <2> QED  BY <1>1, <2>1, FS_RemoveElement
<1> QED  BY <1>2, <1>3, <1>4, <1>5

\* Producers that hold a slot without a position, and with a position not posted.
RingClaimPCs == {"enq_claim"}
StorePCs == {"enq_write", "enq_post"}
CountAt(f, P) == Cardinality({u \in Threads : f[u] \in P})

\* RingAccounting in these terms.
LEMMA AccountingDef ==
    RingAccounting <=>
        /\ nfree >= 0 /\ nused >= 0
        /\ nfree + CountAt(rpc, RingClaimPCs) + Len(ring) = RingLen
        /\ nused + CountAt(rpc, StorePCs) = Len(ring)
<1>1. {t \in Threads : rpc[t] = "enq_claim"} = {u \in Threads : rpc[u] \in RingClaimPCs}
  BY DEF RingClaimPCs
<1> QED  BY <1>1 DEF RingAccounting, CountAt, StorePCs

\* The counts when thread t moves.
LEMMA CountAtMove ==
    ASSUME NEW f, NEW g, NEW P, NEW t \in Threads,
           \A u \in Threads : u # t => g[u] = f[u]
    PROVE  /\ CountAt(f, P) \in Nat /\ CountAt(g, P) \in Nat
           /\ (f[t] \in P <=> g[t] \in P) => CountAt(g, P) = CountAt(f, P)
           /\ f[t] \notin P /\ g[t] \in P => CountAt(g, P) = CountAt(f, P) + 1
           /\ f[t] \in P /\ g[t] \notin P => CountAt(g, P) = CountAt(f, P) - 1
BY ThreadsAssumption, CountMove DEF CountAt

\* Every step of the policy keeps the accounts.
LEMMA AccountingStep ==
    ReplTypeOK /\ ArgOK /\ RingAccounting /\ [ReplNext]_replVars => RingAccounting'
<1> SUFFICES ASSUME ReplTypeOK, ArgOK, RingAccounting, [ReplNext]_replVars
             PROVE  RingAccounting'
  OBVIOUS
<1> USE ConstantsAssumption, RingLenAssumption
<1> DEFINE claim == CountAt(rpc, RingClaimPCs)
           store == CountAt(rpc, StorePCs)
           claim2 == CountAt(rpc', RingClaimPCs)
           store2 == CountAt(rpc', StorePCs)
<1>0. /\ nfree >= 0 /\ nused >= 0
      /\ nfree + claim + Len(ring) = RingLen
      /\ nused + store = Len(ring)
      /\ nfree \in Int /\ nused \in Int
      /\ ring \in Seq(Entries) /\ Len(ring) \in Nat
  BY AccountingDef DEF ReplTypeOK
<1>00. ASSUME nfree' >= 0, nused' >= 0, nfree' + claim2 + Len(ring') = RingLen,
              nused' + store2 = Len(ring')
       PROVE  RingAccounting'
  <2>1. {t \in Threads : rpc'[t] = "enq_claim"} = {u \in Threads : rpc'[u] \in RingClaimPCs}
    BY DEF RingClaimPCs
  <2> QED  BY <1>00, <2>1 DEF RingAccounting, CountAt, StorePCs
<1> HIDE DEF claim, store, claim2, store2
<1>01. ASSUME NEW t \in Threads, \A u \in Threads : u # t => rpc'[u] = rpc[u]
       PROVE  /\ claim \in Nat
              /\ (rpc[t] \in RingClaimPCs <=> rpc'[t] \in RingClaimPCs) => claim2 = claim
              /\ rpc[t] \notin RingClaimPCs /\ rpc'[t] \in RingClaimPCs => claim2 = claim + 1
              /\ rpc[t] \in RingClaimPCs /\ rpc'[t] \notin RingClaimPCs => claim2 = claim - 1
  BY <1>01, CountAtMove DEF claim, claim2
<1>02. ASSUME NEW t \in Threads, \A u \in Threads : u # t => rpc'[u] = rpc[u]
       PROVE  /\ store \in Nat
              /\ (rpc[t] \in StorePCs <=> rpc'[t] \in StorePCs) => store2 = store
              /\ rpc[t] \notin StorePCs /\ rpc'[t] \in StorePCs => store2 = store + 1
              /\ rpc[t] \in StorePCs /\ rpc'[t] \notin StorePCs => store2 = store - 1
  BY <1>02, CountAtMove DEF store, store2
<1>1. ASSUME NEW t \in Threads, \A u \in Threads : u # t => rpc'[u] = rpc[u],
             rpc[t] \notin RingClaimPCs \cup StorePCs, rpc'[t] \notin RingClaimPCs \cup StorePCs,
             nfree' = nfree, nused' = nused, ring' = ring
      PROVE  RingAccounting'
  <2>1. claim2 = claim /\ store2 = store
    BY <1>01, <1>02, <1>1
  <2> QED  BY <1>0, <1>00, <1>1, <2>1
<1>2. ASSUME NEW t \in Threads, \A u \in Threads : u # t => rpc'[u] = rpc[u],
             rpc[t] \notin RingClaimPCs \cup StorePCs, rpc'[t] \notin RingClaimPCs \cup StorePCs,
             Take
      PROVE  RingAccounting'
  <2>1. claim2 = claim /\ store2 = store /\ claim \in Nat /\ store \in Nat
    BY <1>01, <1>02, <1>2
  <2>2. /\ nused > 0 /\ ring # <<>> /\ ring' = Tail(ring)
        /\ nused' = nused - 1 /\ nfree' = nfree + 1
    BY <1>2 DEF Take, HeadStored
  <2>3. Len(ring') = Len(ring) - 1
    BY <1>0, <2>2
  <2> QED  BY <1>0, <1>00, <2>1, <2>2, <2>3
<1>3. ASSUME NEW t \in Threads, NEW e \in Entries, InsertNode(t, e) \/ Use(t, e)
      PROVE  RingAccounting'
  <2>1. /\ \A u \in Threads : u # t => rpc'[u] = rpc[u]
        /\ rpc[t] \notin RingClaimPCs \cup StorePCs /\ rpc'[t] \notin RingClaimPCs \cup StorePCs
        /\ nfree' = nfree /\ nused' = nused /\ ring' = ring
    BY <1>3 DEF InsertNode, Use, Goto, ringVars, RingClaimPCs, StorePCs, ReplTypeOK
  <2> QED  BY <1>1, <2>1
<1>4. ASSUME NEW t \in Threads,
             \/ InsertTail(t) \/ UseFull(t) \/ UseLock(t) \/ DequeueNone(t) \/ Return(t)
      PROVE  RingAccounting'
  <2>1. /\ \A u \in Threads : u # t => rpc'[u] = rpc[u]
        /\ rpc[t] \notin RingClaimPCs \cup StorePCs /\ rpc'[t] \notin RingClaimPCs \cup StorePCs
    BY <1>4 DEF InsertTail, UseFull, UseLock, DequeueNone, Return, AfterDequeue, Goto,
                RingClaimPCs, StorePCs, ReplTypeOK
  <2>2. nfree' = nfree /\ nused' = nused /\ ring' = ring
    BY <1>4 DEF InsertTail, UseFull, UseLock, DequeueNone, Return, ringVars
  <2> QED  BY <1>1, <2>1, <2>2
<1>5. ASSUME NEW t \in Threads, UseReserve(t) PROVE RingAccounting'
  <2>1. /\ \A u \in Threads : u # t => rpc'[u] = rpc[u]
        /\ rpc[t] \notin RingClaimPCs /\ rpc'[t] \in RingClaimPCs
        /\ rpc[t] \notin StorePCs /\ rpc'[t] \notin StorePCs
    BY <1>5 DEF UseReserve, Goto, RingClaimPCs, StorePCs, ReplTypeOK
  <2>2. claim2 = claim + 1 /\ store2 = store /\ claim \in Nat
    BY <1>01, <1>02, <2>1
  <2>3. nfree > 0 /\ nfree' = nfree - 1 /\ ring' = ring /\ nused' = nused
    BY <1>5 DEF UseReserve, Reserve
  <2> QED  BY <1>0, <1>00, <2>2, <2>3
<1>6. ASSUME NEW t \in Threads, EnqClaim(t) PROVE RingAccounting'
  <2>1. /\ \A u \in Threads : u # t => rpc'[u] = rpc[u]
        /\ rpc[t] \in RingClaimPCs /\ rpc'[t] \notin RingClaimPCs
        /\ rpc[t] \notin StorePCs /\ rpc'[t] \in StorePCs
    BY <1>6 DEF EnqClaim, Goto, RingClaimPCs, StorePCs, ReplTypeOK
  <2>2. claim2 = claim - 1 /\ store2 = store + 1 /\ claim \in Nat /\ store \in Nat
    BY <1>01, <1>02, <2>1
  <2>3. /\ ring' = Append(ring, rarg[t]) /\ nfree' = nfree /\ nused' = nused
        /\ rarg[t] \in Entries
    BY <1>6 DEF EnqClaim, Claim, ArgOK, ArgPCs, HoldPCs
  <2>4. Len(ring') = Len(ring) + 1
    BY <1>0, <2>3
  <2>5. nfree' + claim2 + Len(ring') = RingLen /\ nused' + store2 = Len(ring')
    BY <1>0, <2>2, <2>3, <2>4
  <2> QED  BY <1>0, <1>00, <2>3, <2>5
<1>7. ASSUME NEW t \in Threads, EnqWrite(t) PROVE RingAccounting'
  <2>1. /\ \A u \in Threads : u # t => rpc'[u] = rpc[u]
        /\ rpc[t] \notin RingClaimPCs /\ rpc'[t] \notin RingClaimPCs
        /\ rpc[t] \in StorePCs /\ rpc'[t] \in StorePCs
    BY <1>7 DEF EnqWrite, Goto, RingClaimPCs, StorePCs, ReplTypeOK
  <2>2. claim2 = claim /\ store2 = store
    BY <1>01, <1>02, <2>1
  <2>3. ring' = ring /\ nfree' = nfree /\ nused' = nused
    BY <1>7 DEF EnqWrite, Write
  <2> QED  BY <1>0, <1>00, <2>2, <2>3
<1>8. ASSUME NEW t \in Threads, EnqPost(t) PROVE RingAccounting'
  <2>1. /\ \A u \in Threads : u # t => rpc'[u] = rpc[u]
        /\ rpc[t] \notin RingClaimPCs /\ rpc'[t] \notin RingClaimPCs
        /\ rpc[t] \in StorePCs /\ rpc'[t] \notin StorePCs
    BY <1>8 DEF EnqPost, Goto, RingClaimPCs, StorePCs, ReplTypeOK
  <2>2. claim2 = claim /\ store2 = store - 1 /\ store \in Nat
    BY <1>01, <1>02, <2>1
  <2>3. ring' = ring /\ nfree' = nfree /\ nused' = nused + 1
    BY <1>8 DEF EnqPost, Post
  <2> QED  BY <1>0, <1>00, <2>2, <2>3
<1>9. ASSUME NEW t \in Threads, DequeueOne(t) PROVE RingAccounting'
  <2>1. /\ \A u \in Threads : u # t => rpc'[u] = rpc[u]
        /\ rpc[t] \notin RingClaimPCs \cup StorePCs /\ rpc'[t] \notin RingClaimPCs \cup StorePCs
    BY <1>9 DEF DequeueOne, DequeueAgain, AfterDequeue, Goto, RingClaimPCs, StorePCs,
                ReplTypeOK
  <2> QED  BY <1>2, <1>9, <2>1 DEF DequeueOne
<1>10. ASSUME NEW t \in Threads, NEW e, Found(t, e), rpc[t] \notin RingClaimPCs \cup StorePCs
       PROVE  /\ \A u \in Threads : u # t => rpc'[u] = rpc[u]
              /\ rpc'[t] \notin RingClaimPCs \cup StorePCs
  BY <1>10 DEF Found, Goto, RingClaimPCs, StorePCs, ReplTypeOK
<1>11. ASSUME NEW t \in Threads, NEW e, Grab(t, e), rpc[t] \notin RingClaimPCs \cup StorePCs
       PROVE  RingAccounting'
  BY <1>1, <1>10, <1>11 DEF Grab, ringVars
<1>12. ASSUME NEW t \in Threads, NEW err, GiveUp(t, err),
              rpc[t] \notin RingClaimPCs \cup StorePCs
       PROVE  RingAccounting'
  <2>1. /\ \A u \in Threads : u # t => rpc'[u] = rpc[u]
        /\ rpc'[t] \notin RingClaimPCs \cup StorePCs
    BY <1>12 DEF GiveUp, Goto, RingClaimPCs, StorePCs, ReplTypeOK
  <2> QED  BY <1>1, <1>12, <2>1 DEF GiveUp, ringVars
<1>13. ASSUME NEW t \in Threads, NEW x \in Entries \cup {None}, EvictLock(t, x)
       PROVE  RingAccounting'
  <2>1. rpc[t] \notin RingClaimPCs \cup StorePCs
    BY <1>13 DEF EvictLock, RingClaimPCs, StorePCs
  <2>2. CASE GiveUp(t, "ESRCH") \/ Grab(t, Candidate(x))
    BY <1>11, <1>12, <2>1, <2>2
  <2>3. CASE ~GiveUp(t, "ESRCH") /\ ~Grab(t, Candidate(x))
    <3>1. rpc' = [rpc EXCEPT ![t] = "ev_deq"] /\ UNCHANGED ringVars
      BY <1>13, <2>3 DEF EvictLock, Goto
    <3>2. /\ \A u \in Threads : u # t => rpc'[u] = rpc[u]
          /\ rpc'[t] \notin RingClaimPCs \cup StorePCs
      BY <3>1 DEF RingClaimPCs, StorePCs, ReplTypeOK
    <3> QED  BY <1>1, <2>1, <3>1, <3>2 DEF ringVars
  <2> QED  BY <2>2, <2>3
<1>14. ASSUME NEW t \in Threads, EvictSecond(t) PROVE RingAccounting'
  <2>1. rpc[t] \notin RingClaimPCs \cup StorePCs
    BY <1>14 DEF EvictSecond, RingClaimPCs, StorePCs
  <2>2. CASE GiveUp(t, "EAGAIN") \/ Grab(t, Candidate(rarg[t]))
    BY <1>11, <1>12, <2>1, <2>2
  <2>3. CASE ~GiveUp(t, "EAGAIN") /\ ~Grab(t, Candidate(rarg[t]))
    <3>1. rpc' = [rpc EXCEPT ![t] = "ev_scan"] /\ UNCHANGED ringVars
      BY <1>14, <2>3 DEF EvictSecond, Goto
    <3>2. /\ \A u \in Threads : u # t => rpc'[u] = rpc[u]
          /\ rpc'[t] \notin RingClaimPCs \cup StorePCs
      BY <3>1 DEF RingClaimPCs, StorePCs, ReplTypeOK
    <3> QED  BY <1>1, <2>1, <3>1, <3>2 DEF ringVars
  <2> QED  BY <2>2, <2>3
<1>15. ASSUME NEW t \in Threads, EvictScan(t) PROVE RingAccounting'
  <2>1. rpc[t] \notin RingClaimPCs \cup StorePCs
    BY <1>15 DEF EvictScan, RingClaimPCs, StorePCs
  <2>2. CASE Grab(t, first[cursor + 1])
    BY <1>11, <2>1, <2>2
  <2>3. CASE ~Grab(t, first[cursor + 1])
    <3>1. /\ rpc' = [rpc EXCEPT ![t] = "ev_last"] \/ rpc' = rpc
          /\ UNCHANGED ringVars
      BY <1>15, <2>3 DEF EvictScan, Goto
    <3>2. /\ \A u \in Threads : u # t => rpc'[u] = rpc[u]
          /\ rpc'[t] \notin RingClaimPCs \cup StorePCs
      BY <2>1, <3>1 DEF RingClaimPCs, StorePCs, ReplTypeOK
    <3> QED  BY <1>1, <2>1, <3>1, <3>2 DEF ringVars
  <2> QED  BY <2>2, <2>3
<1>16. ASSUME NEW t \in Threads, EvictLast(t) PROVE RingAccounting'
  <2>1. rpc[t] \notin RingClaimPCs \cup StorePCs
    BY <1>16 DEF EvictLast, RingClaimPCs, StorePCs
  <2>2. CASE GiveUp(t, "ESRCH")
    BY <1>12, <2>1, <2>2
  <2>3. CASE Take /\ Found(t, Head(ring)) /\ UNCHANGED p_entry
    BY <1>2, <1>10, <2>1, <2>3
  <2> QED  BY <1>16, <2>2, <2>3 DEF EvictLast
<1>17. CASE UNCHANGED replVars
  BY <1>17 DEF replVars, ringVars, RingAccounting
<1> QED
  BY <1>3, <1>4, <1>5, <1>6, <1>7, <1>8, <1>9, <1>13, <1>14, <1>15, <1>16, <1>17
     DEF ReplNext, Call, ReplStep, Halted

\* In every reachable state of the policy the semaphores and the producers in
\* between account for every slot of the ring: it never holds more than RingLen
\* pointers, and neither semaphore goes below zero.
THEOREM ReplRingAccounting == ReplSpec => []RingAccounting
<1>1. ReplInit => RingAccounting
  <2> SUFFICES ASSUME ReplInit PROVE RingAccounting
    OBVIOUS
  <2>1. /\ ring = <<>> /\ nfree = RingLen /\ nused = 0 /\ Len(ring) = 0
        /\ \A t \in Threads : rpc[t] = "idle"
    BY DEF ReplInit, RingInit
  <2>2. /\ {t \in Threads : rpc[t] = "enq_claim"} = {}
        /\ {t \in Threads : rpc[t] \in {"enq_write", "enq_post"}} = {}
    BY <2>1
  <2>3. /\ Cardinality({t \in Threads : rpc[t] = "enq_claim"}) = 0
        /\ Cardinality({t \in Threads : rpc[t] \in {"enq_write", "enq_post"}}) = 0
    BY <2>2, FS_EmptySet
  <2>4. RingLen >= 0 /\ RingLen + 0 + 0 = RingLen
    BY RingLenAssumption
  <2> QED  BY <2>1, <2>3, <2>4 DEF RingAccounting
<1> QED
  BY <1>1, ReplTypeCorrect, AccountingStep, PTL DEF ReplSpec

----------------------------------------------------------------------------
(* An eviction gives up only under use.  The scan of repl_p_lru_evict holds *)
(* the mutex, so what it found locked stays locked: only dequeue_all        *)
(* unlocks, and a node inserted meanwhile is not linked.  When the scan is  *)
(* over all linked nodes are locked; by NoNodeLost each is in the ring or   *)
(* in a user's hand, and by RingAccounting a ring without a posted pointer  *)
(* holds only pointers that a thread has not posted yet.                    *)

ScanPCs == {"ev_scan", "ev_last"}

\* What the scan has passed is locked.
ScanLocked ==
    \A t \in Threads : rpc[t] \in ScanPCs =>
        \A i \in 1 .. Len(first) :
            i <= cursor \/ rpc[t] = "ev_last" => p_entry[first[i]] = None

ScanInv == LockDiscipline /\ EvictNonEmpty /\ ScanLocked

\* Steps that leave a scan alone, if there is one.
LEMMA SameScan ==
    ASSUME ScanInv,
           \A u \in Threads : rpc'[u] \in LockPCs <=> lock' = u,
           \A u \in Threads : rpc'[u] \in EvictPCs => first' # <<>>,
           \A u \in Threads : rpc'[u] \in ScanPCs =>
               /\ rpc'[u] = rpc[u] /\ first' = first /\ cursor' = cursor
               /\ \A i \in 1 .. Len(first) :
                     p_entry[first[i]] = None => p_entry'[first[i]] = None
    PROVE  ScanInv'
<1>1. LockDiscipline' /\ EvictNonEmpty'
  BY DEF ScanInv, LockDiscipline, EvictNonEmpty
<1>2. ScanLocked'
  BY DEF ScanInv, ScanLocked
<1> QED  BY <1>1, <1>2 DEF ScanInv

\* Every step of the policy keeps the mutex and the progress of a scan.
LEMMA ScanStep ==
    ReplTypeOK /\ ArgOK /\ ListInv /\ ScanInv /\ [ReplNext]_replVars => ScanInv'
<1> SUFFICES ASSUME ReplTypeOK, ArgOK, ListInv, ScanInv, [ReplNext]_replVars
             PROVE  ScanInv'
  OBVIOUS
<1> USE ConstantsAssumption
<1>0. /\ first \in Seq(Entries) /\ Elems(first) \subseteq node
      /\ \A u \in Threads : rpc[u] \in LockPCs <=> lock = u
      /\ \A u \in Threads : rpc[u] \in EvictPCs => first # <<>>
      /\ EvictPCs \subseteq LockPCs /\ ScanPCs \subseteq EvictPCs
  BY DEF ReplTypeOK, ListInv, ListExact, ScanInv, LockDiscipline, EvictNonEmpty, LockPCs,
         EvictPCs, ScanPCs
<1>00. \A i \in 1 .. Len(first) : first[i] \in Entries /\ first[i] \in Elems(first)
  BY <1>0 DEF Elems
<1>1. ASSUME NEW t \in Threads, rpc[t] \notin LockPCs, rpc'[t] \notin LockPCs,
             \A u \in Threads : u # t => rpc'[u] = rpc[u],
             UNCHANGED <<first, lock, cursor>>,
             \A x \in Elems(first) : p_entry[x] = None => p_entry'[x] = None
      PROVE  ScanInv'
  <2>1. \A u \in Threads : rpc'[u] \in LockPCs <=> lock' = u
    BY <1>0, <1>1
  <2>2. \A u \in Threads : rpc'[u] \in EvictPCs => first' # <<>>
    BY <1>0, <1>1
  <2>3. \A u \in Threads : rpc'[u] \in ScanPCs => rpc'[u] = rpc[u]
    BY <1>0, <1>1
  <2> QED  BY <1>00, <1>1, <2>1, <2>2, <2>3, SameScan
\* The thread that has the mutex lets go of it, or nobody had it.
<1>2. ASSUME NEW t \in Threads, lock \in {t, None}, lock' = None,
             rpc'[t] \notin LockPCs,
             \A u \in Threads : u # t => rpc'[u] = rpc[u]
      PROVE  ScanInv'
  <2>1. \A u \in Threads : rpc'[u] \notin LockPCs
    BY <1>0, <1>2
  <2> QED  BY <1>0, <1>2, <2>1, SameScan
\* The mutex is taken, or kept, by a thread that is not scanning.
<1>3. ASSUME NEW t \in Threads, lock \in {t, None}, lock' = t,
             rpc'[t] \in LockPCs \ ScanPCs,
             rpc'[t] \in EvictPCs => first' # <<>>,
             \A u \in Threads : u # t => rpc'[u] = rpc[u]
      PROVE  ScanInv'
  <2>1. \A u \in Threads : u # t => rpc'[u] \notin LockPCs
    BY <1>0, <1>3
  <2>2. \A u \in Threads : rpc'[u] \in LockPCs <=> lock' = u
    BY <1>3, <2>1
  <2>3. \A u \in Threads : rpc'[u] \notin ScanPCs
    BY <1>0, <1>3, <2>1
  <2>4. \A u \in Threads : rpc'[u] \in EvictPCs => first' # <<>>
    BY <1>0, <1>3, <2>1
  <2> QED  BY <2>2, <2>3, <2>4, SameScan
<1>4. ASSUME NEW t \in Threads, NEW e \in Entries, InsertNode(t, e) PROVE ScanInv'
  <2>1. /\ rpc[t] \notin LockPCs /\ rpc'[t] \notin LockPCs
        /\ \A u \in Threads : u # t => rpc'[u] = rpc[u]
        /\ UNCHANGED <<first, lock, cursor>>
    BY <1>4 DEF InsertNode, Goto, LockPCs, EvictPCs, ReplTypeOK
  <2>2. e \notin Elems(first) /\ p_entry' = [p_entry EXCEPT ![e] = e]
    BY <1>0, <1>4 DEF InsertNode
  <2>3. \A x \in Elems(first) : p_entry'[x] = p_entry[x]
    BY <1>0, <2>2 DEF ReplTypeOK
  <2> QED  BY <1>1, <2>1, <2>3
<1>5. ASSUME NEW t \in Threads, InsertTail(t) PROVE ScanInv'
  <2>1. /\ lock = None /\ lock' = None /\ rpc'[t] \notin LockPCs
        /\ \A u \in Threads : u # t => rpc'[u] = rpc[u]
    BY <1>5 DEF InsertTail, Goto, LockPCs, EvictPCs, ReplTypeOK
  <2> QED  BY <1>2, <2>1
<1>6. ASSUME NEW t \in Threads, NEW e \in Entries, Use(t, e) PROVE ScanInv'
  <2>1. /\ rpc[t] \notin LockPCs /\ rpc'[t] \notin LockPCs
        /\ \A u \in Threads : u # t => rpc'[u] = rpc[u]
        /\ UNCHANGED <<first, lock, cursor>>
    BY <1>6 DEF Use, Goto, LockPCs, EvictPCs, ReplTypeOK
  <2>2. \A x \in Entries : p_entry[x] = None => p_entry'[x] = None
    BY <1>6 DEF Use, LockEntry, ReplTypeOK
  <2>3. \A x \in Elems(first) : p_entry[x] = None => p_entry'[x] = None
    BY <1>0, <2>2 DEF ReplTypeOK
  <2> QED  BY <1>1, <2>1, <2>3
<1>7. ASSUME NEW t \in Threads,
             \/ UseReserve(t) \/ UseFull(t) \/ EnqClaim(t) \/ EnqWrite(t) \/ EnqPost(t)
             \/ Return(t)
      PROVE  ScanInv'
  <2>1. UNCHANGED <<first, lock, cursor, p_entry>>
    BY <1>7 DEF UseReserve, UseFull, EnqClaim, EnqWrite, EnqPost, Return, listVars
  <2>2. /\ rpc[t] \notin LockPCs /\ rpc'[t] \notin LockPCs
        /\ \A u \in Threads : u # t => rpc'[u] = rpc[u]
    BY <1>7 DEF UseReserve, UseFull, EnqClaim, EnqWrite, EnqPost, Return, Goto, LockPCs,
                EvictPCs, ReplTypeOK
  <2> QED  BY <1>1, <2>1, <2>2
<1>8. ASSUME NEW t \in Threads, UseLock(t) PROVE ScanInv'
  <2>1. /\ lock = None /\ lock' = t /\ rpc'[t] \in LockPCs \ EvictPCs
        /\ \A u \in Threads : u # t => rpc'[u] = rpc[u]
    BY <1>8 DEF UseLock, Goto, LockPCs, EvictPCs, ReplTypeOK
  <2> QED  BY <1>0, <1>3, <2>1
<1>9. ASSUME NEW t \in Threads, DequeueOne(t) \/ DequeueNone(t) PROVE ScanInv'
  <2>1. /\ rpc[t] \in {"use_deq", "ev_deq"} /\ rpc[t] \in LockPCs
        /\ AfterDequeue(t) \/ UNCHANGED <<rpc, lock>>
    BY <1>9 DEF DequeueOne, DequeueNone, DequeueAgain, LockPCs, EvictPCs
  <2>2. lock = t
    BY <1>0, <2>1
  <2>3. first # <<>> => first' # <<>>
    <3>1. CASE DequeueOne(t)
      <4>1. /\ ring \in Seq(Entries) /\ ring # <<>>
            /\ first' = MoveToTail(first, Head(ring))
        BY <3>1 DEF DequeueOne, Take, HeadStored, ReplTypeOK
      <4>2. Head(ring) \in Entries
        BY <4>1, TailFacts
      <4> QED  BY <1>0, <4>1, <4>2, MoveToTailFacts
    <3>2. CASE DequeueNone(t)
      BY <3>2 DEF DequeueNone, listVars
    <3> QED  BY <1>9, <3>1, <3>2
  <2>4. CASE rpc[t] = "use_deq" /\ AfterDequeue(t)
    <3>1. lock' = None /\ rpc' = [rpc EXCEPT ![t] = "use_enq"]
      BY <2>4 DEF AfterDequeue, Goto
    <3>2. rpc'[t] \notin LockPCs /\ \A u \in Threads : u # t => rpc'[u] = rpc[u]
      BY <3>1 DEF LockPCs, EvictPCs, ReplTypeOK
    <3> QED  BY <1>2, <2>2, <3>1, <3>2
  <2>5. CASE rpc[t] = "ev_deq" /\ AfterDequeue(t)
    <3>1. lock' = t /\ rpc' = [rpc EXCEPT ![t] = "ev_second"]
      BY <2>2, <2>5 DEF AfterDequeue, Goto
    <3>2. /\ rpc'[t] \in LockPCs \ ScanPCs
          /\ \A u \in Threads : u # t => rpc'[u] = rpc[u]
      BY <3>1 DEF LockPCs, EvictPCs, ScanPCs, ReplTypeOK
    <3>3. first # <<>>
      BY <1>0, <2>5 DEF EvictPCs
    <3> QED  BY <1>3, <2>2, <2>3, <3>1, <3>2, <3>3
  <2>6. CASE UNCHANGED <<rpc, lock>>
    <3>1. rpc'[t] \in LockPCs \ ScanPCs /\ lock' = t
      BY <2>1, <2>2, <2>6 DEF ScanPCs
    <3>2. rpc'[t] \in EvictPCs => first # <<>>
      BY <1>0, <2>6
    <3> QED  BY <1>3, <2>2, <2>3, <2>6, <3>1, <3>2
  <2> QED  BY <2>1, <2>4, <2>5, <2>6
\* An eviction that ends lets go of the mutex; one that faults changes nothing.
<1>10. ASSUME NEW t \in Threads, NEW e, lock \in {t, None}, Found(t, e),
              \A x \in Entries : p_entry[x] = None => p_entry'[x] = None
       PROVE  ScanInv'
  <2>1. CASE e \in Elems(first)
    <3>1. lock' = None /\ rpc' = [rpc EXCEPT ![t] = "evicted"]
      BY <1>10, <2>1 DEF Found, Goto
    <3>2. rpc'[t] \notin LockPCs /\ \A u \in Threads : u # t => rpc'[u] = rpc[u]
      BY <3>1 DEF LockPCs, EvictPCs, ReplTypeOK
    <3> QED  BY <1>2, <1>10, <3>1, <3>2
  <2>2. CASE e \notin Elems(first)
    <3>1. UNCHANGED <<first, rpc, lock, cursor>>
      BY <1>10, <2>2 DEF Found
    <3>2. \A u \in Threads : rpc'[u] \in LockPCs <=> lock' = u
      BY <1>0, <3>1
    <3>3. \A u \in Threads : rpc'[u] \in EvictPCs => first' # <<>>
      BY <1>0, <3>1
    <3> QED  BY <1>00, <1>10, <3>1, <3>2, <3>3, SameScan
  <2> QED  BY <2>1, <2>2
<1>11. ASSUME NEW t \in Threads, NEW e, lock \in {t, None}, Grab(t, e) PROVE ScanInv'
  <2>1. Found(t, e) /\ p_entry' = [p_entry EXCEPT ![e] = None]
    BY <1>11 DEF Grab, LockEntry
  <2>2. \A x \in Entries : p_entry[x] = None => p_entry'[x] = None
    BY <2>1 DEF ReplTypeOK
  <2> QED  BY <1>10, <1>11, <2>1, <2>2
<1>12. ASSUME NEW t \in Threads, NEW err, lock \in {t, None}, GiveUp(t, err)
       PROVE  ScanInv'
  <2>1. /\ lock' = None /\ rpc'[t] \notin LockPCs
        /\ \A u \in Threads : u # t => rpc'[u] = rpc[u]
    BY <1>12 DEF GiveUp, Goto, LockPCs, EvictPCs, ReplTypeOK
  <2> QED  BY <1>2, <1>12, <2>1
<1>13. ASSUME NEW t \in Threads, NEW x \in Entries \cup {None}, EvictLock(t, x)
       PROVE  ScanInv'
  <2>1. lock = None
    BY <1>13 DEF EvictLock
  <2>2. CASE GiveUp(t, "ESRCH") \/ Grab(t, Candidate(x))
    BY <1>11, <1>12, <2>1, <2>2
  <2>3. CASE ~GiveUp(t, "ESRCH") /\ ~Grab(t, Candidate(x))
    <3>1. /\ lock' = t /\ rpc' = [rpc EXCEPT ![t] = "ev_deq"]
          /\ first # <<>> /\ first' = first
      BY <1>13, <2>3 DEF EvictLock, Goto, listVars
    <3>2. /\ rpc'[t] \in LockPCs \ ScanPCs
          /\ \A u \in Threads : u # t => rpc'[u] = rpc[u]
      BY <3>1 DEF LockPCs, EvictPCs, ScanPCs, ReplTypeOK
    <3> QED  BY <1>3, <2>1, <3>1, <3>2
  <2> QED  BY <2>2, <2>3
<1>14. ASSUME NEW t \in Threads, EvictSecond(t) PROVE ScanInv'
  <2>1. lock = t /\ first # <<>> /\ rpc[t] \in LockPCs
    BY <1>0, <1>14 DEF EvictSecond, EvictPCs
  <2>2. CASE GiveUp(t, "EAGAIN") \/ Grab(t, Candidate(rarg[t]))
    BY <1>11, <1>12, <2>1, <2>2
  <2>3. CASE ~GiveUp(t, "EAGAIN") /\ ~Grab(t, Candidate(rarg[t]))
    <3>1. /\ p_entry[Head(first)] = None /\ cursor' = 1
          /\ rpc' = [rpc EXCEPT ![t] = "ev_scan"] /\ UNCHANGED <<first, lock, p_entry>>
      BY <1>14, <2>3 DEF EvictSecond, Goto, Candidate, listVars
    <3>2. rpc'[t] = "ev_scan" /\ \A u \in Threads : u # t => rpc'[u] = rpc[u]
      BY <3>1 DEF ReplTypeOK
    <3>3. \A u \in Threads : u # t => rpc[u] \notin LockPCs
      BY <1>0, <2>1
    <3>4. "ev_scan" \in LockPCs
      BY DEF LockPCs, EvictPCs
    <3>5. LockDiscipline' /\ EvictNonEmpty'
      BY <1>0, <2>1, <3>1, <3>2, <3>3, <3>4 DEF LockDiscipline, EvictNonEmpty
    <3>6. \A i \in 1 .. Len(first) : i <= 1 => first[i] = Head(first)
      BY <1>0, <2>1
    <3>7. ScanLocked'
      BY <1>0, <3>1, <3>2, <3>3, <3>6 DEF ScanLocked
    <3> QED  BY <3>5, <3>7 DEF ScanInv
  <2> QED  BY <2>2, <2>3
<1>15. ASSUME NEW t \in Threads, EvictScan(t) PROVE ScanInv'
  <2>1. lock = t /\ first # <<>> /\ rpc[t] = "ev_scan"
    BY <1>0, <1>15 DEF EvictScan, EvictPCs
  <2>2. CASE Grab(t, first[cursor + 1])
    BY <1>11, <2>1, <2>2
  <2>3. \A u \in Threads : u # t => rpc[u] \notin LockPCs
    BY <1>0, <2>1
  <2>4. cursor \in Nat /\ Len(first) \in Nat
        /\ \A i \in 1 .. Len(first) : i <= cursor => p_entry[first[i]] = None
    BY <1>0, <2>1 DEF ScanInv, ScanLocked, ScanPCs, ReplTypeOK
  <2>5. "ev_scan" \in LockPCs /\ "ev_last" \in LockPCs
    BY DEF LockPCs, EvictPCs
  <2>6. CASE /\ cursor < Len(first) /\ p_entry[first[cursor + 1]] = None
             /\ cursor' = cursor + 1 /\ UNCHANGED <<first, lock, p_entry, rpc>>
    <3>1. LockDiscipline' /\ EvictNonEmpty'
      BY <1>0, <2>6 DEF LockDiscipline, EvictNonEmpty
    <3>2. \A i \in 1 .. Len(first) : i <= cursor + 1 => p_entry[first[i]] = None
      BY <2>4, <2>6
    <3>3. ScanLocked'
      BY <1>0, <2>1, <2>3, <2>6, <3>2 DEF ScanLocked
    <3> QED  BY <3>1, <3>3 DEF ScanInv
  <2>7. CASE /\ cursor >= Len(first) /\ rpc' = [rpc EXCEPT ![t] = "ev_last"]
             /\ UNCHANGED <<first, lock, p_entry, cursor>>
    <3>1. rpc'[t] = "ev_last" /\ \A u \in Threads : u # t => rpc'[u] = rpc[u]
      BY <2>7 DEF ReplTypeOK
    <3>2. LockDiscipline' /\ EvictNonEmpty'
      BY <1>0, <2>1, <2>3, <2>5, <2>7, <3>1 DEF LockDiscipline, EvictNonEmpty
    <3>3. \A i \in 1 .. Len(first) : p_entry[first[i]] = None
      BY <2>4, <2>7
    <3>4. ScanLocked'
      BY <1>0, <2>3, <2>7, <3>1, <3>3 DEF ScanLocked
    <3> QED  BY <3>2, <3>4 DEF ScanInv
  <2> QED  BY <1>15, <2>2, <2>6, <2>7 DEF EvictScan, Goto, listVars
<1>16. ASSUME NEW t \in Threads, EvictLast(t) PROVE ScanInv'
  <2>1. lock = t
    BY <1>0, <1>16 DEF EvictLast, EvictPCs
  <2> QED  BY <1>10, <1>12, <1>16, <2>1 DEF EvictLast
<1>17. CASE UNCHANGED replVars
  BY <1>17 DEF replVars, listVars, ScanInv, LockDiscipline, EvictNonEmpty, ScanLocked
<1> QED
  BY <1>4, <1>5, <1>6, <1>7, <1>8, <1>9, <1>13, <1>14, <1>15, <1>16, <1>17
     DEF ReplNext, Call, ReplStep, Halted

\* A step of thread v leaves the others where they are.
LEMMA OnlyActorMoves ==
    ASSUME ReplTypeOK, NEW v \in Threads, Call(v) \/ ReplStep(v) \/ Return(v),
           NEW u \in Threads, u # v
    PROVE  rpc'[u] = rpc[u]
<1>1. \A e, pc : Found(v, e) \/ Goto(v, pc) => rpc'[u] = rpc[u]
  BY DEF Found, Goto, ReplTypeOK
<1>2. \A e : Grab(v, e) => rpc'[u] = rpc[u]
  BY <1>1 DEF Grab
<1>3. \A err : GiveUp(v, err) => rpc'[u] = rpc[u]
  BY <1>1 DEF GiveUp
<1>4. CASE Call(v)
  BY <1>1, <1>2, <1>3, <1>4 DEF Call, InsertNode, Use, EvictLock
<1>5. CASE \/ InsertTail(v) \/ UseReserve(v) \/ UseFull(v) \/ UseLock(v)
           \/ EnqClaim(v) \/ EnqWrite(v) \/ EnqPost(v) \/ Return(v)
  BY <1>1, <1>5 DEF InsertTail, UseReserve, UseFull, UseLock, EnqClaim, EnqWrite, EnqPost,
                    Return
<1>6. CASE DequeueOne(v) \/ DequeueNone(v)
  BY <1>1, <1>6 DEF DequeueOne, DequeueNone, DequeueAgain, AfterDequeue
<1>7. CASE EvictSecond(v) \/ EvictScan(v) \/ EvictLast(v)
  BY <1>1, <1>2, <1>3, <1>7 DEF EvictSecond, EvictScan, EvictLast
<1> QED  BY <1>4, <1>5, <1>6, <1>7 DEF ReplStep

\* The step in which the last chance of an eviction fails.
LEMMA EsrchStep ==
    ASSUME ReplTypeOK, ListInv, NoNodeLost, RingAccounting, ScanInv,
           [ReplNext]_replVars, NEW t \in Threads,
           rpc[t] = "ev_last", rpc'[t] = "evicted", rarg'[t] = None
    PROVE  \E u \in Threads : MiddleOfUse(u)
<1> USE ConstantsAssumption
<1>0. /\ first \in Seq(Entries) /\ first # <<>> /\ ring \in Seq(Entries)
      /\ nused \in Int
  BY DEF ReplTypeOK, ScanInv, EvictNonEmpty, EvictPCs
\* Only t itself moves t, and at this place it does so by EvictLast.
<1>1. ~fault /\ EvictLast(t)
  <2>1. rpc'[t] # rpc[t]
    OBVIOUS
  <2>2. ~fault /\ \E v \in Threads : Call(v) \/ ReplStep(v) \/ Return(v)
    BY <2>1 DEF ReplNext, Halted, replVars
  <2>3. PICK v \in Threads : Call(v) \/ ReplStep(v) \/ Return(v)
    BY <2>2
  <2>4. v = t
    BY <2>1, <2>3, OnlyActorMoves
  <2> QED
    BY <2>2, <2>3, <2>4 DEF Call, InsertNode, Use, EvictLock, ReplStep, InsertTail,
        UseReserve, UseFull, UseLock, EnqClaim, EnqWrite, EnqPost, DequeueOne,
        DequeueNone, EvictSecond, EvictScan, Return
\* It got nothing from the ring.
<1>2. nused = 0
  <2>1. SUFFICES ASSUME Take, Found(t, Head(ring)) PROVE FALSE
    BY <1>1 DEF EvictLast
  <2>2. Head(ring) \in Entries
    BY <1>0, <2>1, TailFacts DEF Take, HeadStored
  <2>3. rarg'[t] = Head(ring)
    BY <2>1, <2>2 DEF Found, ReplTypeOK
  <2> QED  BY <2>2, <2>3
<1>3. SUFFICES ASSUME \A u \in Threads : ~MiddleOfUse(u) PROVE FALSE
  OBVIOUS
<1>4. ring = <<>>
  <2>1. {u \in Threads : rpc[u] \in {"enq_write", "enq_post"}} = {}
    BY <1>3 DEF MiddleOfUse
  <2>2. Cardinality({u \in Threads : rpc[u] \in {"enq_write", "enq_post"}}) = 0
    BY <2>1, FS_EmptySet
  <2>3. Len(ring) = 0
    BY <1>2, <2>2 DEF RingAccounting
  <2> QED  BY <1>0, <2>3
<1> DEFINE e == first[1]
<1>5. 1 \in 1 .. Len(first) /\ e \in Elems(first) /\ e \in Entries
  BY <1>0 DEF Elems
<1>6. e \in node
  BY <1>5 DEF ListInv, ListExact
<1>7. p_entry[e] = None
  BY <1>5 DEF ScanInv, ScanLocked, ScanPCs
<1>8. e \notin Elems(ring)
  BY <1>4 DEF Elems
<1> HIDE DEF e
<1>9. PICK u \in Threads : Holds(u, e)
  BY <1>1, <1>6, <1>7, <1>8 DEF NoNodeLost
<1> QED  BY <1>3, <1>9 DEF MiddleOfUse, Holds

\* Whatever the interleaving, an eviction of the oldest entry that finds no
\* victim in a list that is not empty fails because at that very moment some
\* thread is inside repl_p_lru_use.
THEOREM ReplEsrchOnlyUnderUse == ReplSpec => EsrchOnlyUnderUse
<1>1. ReplInit => ScanInv
  BY ConstantsAssumption DEF ReplInit, ScanInv, LockDiscipline, EvictNonEmpty, ScanLocked,
         LockPCs, EvictPCs, ScanPCs
<1>2. ReplSpec => []ListInv
  BY ReplList, PTL DEF ListInv
<1>3. ReplSpec => []ScanInv
  BY <1>1, <1>2, ReplTypeCorrect, ScanStep, PTL DEF ReplSpec
<1>4. ReplTypeOK /\ ListInv /\ NoNodeLost /\ RingAccounting /\ ScanInv
        /\ [ReplNext]_replVars
      => [\A t \in Threads :
            rpc[t] = "ev_last" /\ rpc'[t] = "evicted" /\ rarg'[t] = None
              => \E u \in Threads : MiddleOfUse(u)]_replVars
  BY EsrchStep
<1> QED
  BY <1>2, <1>3, <1>4, ReplTypeCorrect, ReplNoNodeLost, ReplRingAccounting, PTL
     DEF ReplSpec, EsrchOnlyUnderUse
=============================================================================
