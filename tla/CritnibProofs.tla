---------------------------- MODULE CritnibProofs ----------------------------
(***************************************************************************)
(* Proofs about the radix tree (module Critnib), for any keys, any number  *)
(* of slices and any size of a slice.                                      *)
(***************************************************************************)
EXTENDS Critnib, FiniteSetTheorems, WellFoundedInduction, TLAPS

----------------------------------------------------------------------------
(* Iteration *)

\* A set of natural numbers that is not empty has a least element.
LEMMA LeastIn ==
    ASSUME NEW S \in SUBSET Nat, S # {}
    PROVE  \E x \in S : \A y \in S : x <= y
<1> DEFINE Less == {ss \in Nat \X Nat : ss[1] < ss[2]}
<1>1. IsWellFoundedOn(Less, Nat)
  BY NatLessThanWellFounded, Zenon DEF OpToRel
<1>2. PICK x \in S : \A y \in S : <<y, x>> \notin Less
  <2> HIDE DEF Less
  <2> QED BY <1>1, WFMin
<1>3. \A y \in S : ~(y < x)
  <2>1. \A y \in Nat : y < x /\ x \in Nat => <<y, x>> \in Less
    OBVIOUS
  <2> HIDE DEF Less
  <2> QED BY <1>2, <2>1
<1> QED BY <1>3

\* Induction up to n over a set: what starts in it and does not leave it stays.
LEMMA Induct ==
    ASSUME NEW n \in Nat, NEW S, 0 \in S, \A d \in 0 .. n : d \in S /\ d < n => d + 1 \in S
    PROVE  \A d \in 0 .. n : d \in S
<1> DEFINE Out == {d \in Nat : d <= n /\ d \notin S}
<1>1. SUFFICES ASSUME Out # {} PROVE FALSE
  OBVIOUS
<1>2. PICK d \in Out : \A e \in Out : d <= e
  <2> HIDE DEF Out
  <2>1. Out \in SUBSET Nat
    BY DEF Out
  <2> QED BY <2>1, <1>1, LeastIn
<1>3. d \in Nat /\ d <= n /\ d \notin S /\ d # 0
  OBVIOUS
<1>4. PICK e \in Nat : e + 1 = d
  <2>1. d - 1 \in Nat /\ (d - 1) + 1 = d
    BY <1>3
  <2> QED BY <2>1
<1>5. e \notin Out
  <2> HIDE DEF Out
  <2> QED BY <1>2, <1>4
<1>6. e \in S /\ e \in 0 .. n /\ e < n
  BY <1>3, <1>4, <1>5
<1> QED BY <1>3, <1>4, <1>6

\* What Walk computes: w is the last of n steps from s in S.
Walked(S, step, s, n, w) ==
    \E f \in [0 .. n -> S] : f[0] = s /\ (\A d \in 1 .. n : f[d] = step[f[d - 1]]) /\ w = f[n]

LEMMA WalkIs ==
    ASSUME NEW S, NEW step \in [S -> S], NEW s \in S, NEW n \in Nat
    PROVE  Walked(S, step, s, n, Walk(step, s, n))
<1> DEFINE Good(m, f) == /\ f \in [0 .. m -> S] /\ f[0] = s
                         /\ \A d \in 1 .. m : f[d] = step[f[d - 1]]
           Fine == {m \in Nat : \E f : Good(m, f)}
<1>1. \A m \in 0 .. n : m \in Fine
  <2>1. 0 \in Fine
    <3>1. Good(0, [d \in 0 .. 0 |-> s])
      OBVIOUS
    <3> QED BY <3>1
  <2>2. ASSUME NEW m \in 0 .. n, m \in Fine
        PROVE  m + 1 \in Fine
    <3>1. PICK f : Good(m, f)
      BY <2>2
    <3>2. PICK g : g = [d \in 0 .. m + 1 |-> IF d = m + 1 THEN step[f[m]] ELSE f[d]]
      OBVIOUS
    <3>3. m \in Nat /\ f[m] \in S /\ step[f[m]] \in S
      BY <3>1
    <3>4. g \in [0 .. m + 1 -> S] /\ g[0] = s
      BY <3>1, <3>2, <3>3
    <3>5. \A d \in 1 .. m + 1 : g[d] = step[g[d - 1]]
      <4> SUFFICES ASSUME NEW d \in 1 .. m + 1 PROVE g[d] = step[g[d - 1]]
        OBVIOUS
      <4>1. d - 1 \in 0 .. m + 1 /\ d - 1 # m + 1 /\ d \in 0 .. m + 1
        BY <3>3
      <4>2. g[d - 1] = f[d - 1]
        BY <3>2, <4>1
      <4>3. CASE d = m + 1
        BY <3>2, <3>3, <4>1, <4>2, <4>3
      <4>4. CASE d # m + 1
        BY <3>1, <3>2, <3>3, <4>1, <4>2, <4>4
      <4> QED BY <4>3, <4>4
    <3>6. Good(m + 1, g)
      BY <3>4, <3>5
    <3> HIDE DEF Good
    <3> QED BY <3>3, <3>6
  <2> HIDE DEF Fine
  <2> QED BY <2>1, <2>2, Induct
<1>2. PICK f : Good(n, f)
  BY <1>1
<1> DEFINE Body(u) == [d \in 0 .. n |-> IF d = 0 THEN s ELSE step[u[d - 1]]]
           Eqn(u) == u = Body(u)
           c == CHOOSE u : Eqn(u)
<1>3. Eqn(f)
  <2>1. \A d \in 0 .. n : f[d] = IF d = 0 THEN s ELSE step[f[d - 1]]
    BY <1>2
  <2>2. f = [d \in 0 .. n |-> f[d]]
    BY <1>2
  <2> QED BY <2>1, <2>2, Zenon
<1>4. Eqn(c)
  <2> HIDE DEF Eqn
  <2> QED BY <1>3
<1>5. Walk(step, s, n) = c[n]
  BY DEF Walk
<1> HIDE DEF c
<1>6. \A d \in 0 .. n : c[d] = IF d = 0 THEN s ELSE step[c[d - 1]]
  BY <1>4, Zenon
<1>7. \A d \in 0 .. n : c[d] = f[d]
  <2>1. PICK Same : Same = {d \in 0 .. n : c[d] = f[d]}
    OBVIOUS
  <2>2. 0 \in Same
    BY <1>2, <1>6, <2>1
  <2>3. ASSUME NEW d \in 0 .. n, d \in Same, d < n
        PROVE  d + 1 \in Same
    <3>1. d + 1 \in 0 .. n /\ d + 1 \in 1 .. n /\ d + 1 # 0 /\ (d + 1) - 1 = d
      BY <2>3
    <3>2. c[d + 1] = step[c[d]] /\ f[d + 1] = step[f[d]]
      BY <1>2, <1>6, <3>1
    <3> QED BY <2>1, <2>3, <3>1, <3>2
  <2>4. \A d \in 0 .. n : d \in Same
    BY <2>2, <2>3, Induct
  <2> QED BY <2>1, <2>4
<1> QED BY <1>2, <1>5, <1>7 DEF Walked

----------------------------------------------------------------------------
(* What a tree is *)

NodeType == [byte : Nat, bit : Bits, child : [Slots -> Ptrs]]

IsTree(T) ==
    /\ T = [root |-> T.root, node |-> T.node]
    /\ T.root \in Ptrs
    /\ T.node \in [NodesOf(T) -> NodeType]
    /\ NodesOf(T) \subseteq Addrs /\ IsFiniteSet(NodesOf(T))

\* The point where m branches comes before the one where n does.
Earlier(T, m, n) ==
    \/ T.node[m].byte < T.node[n].byte
    \/ T.node[m].byte = T.node[n].byte /\ T.node[m].bit > T.node[n].bit

\* Two keys are the same in front of a slice.
Agree(k, l, byte, bit) ==
    /\ \A j \in Nat : j < byte => k[j + 1] = l[j + 1]
    /\ \A b \in Bits : b > bit => k[byte + 1][b] = l[byte + 1][b]

\* The keys that pointer p leads to, if B[n] are those below node n.
Cover(B, p) == IF p = Null THEN {} ELSE IF p \in Keys THEN {p} ELSE B[p]

NodeOk(T, B, n) ==
    /\ B[n] # {}
    /\ \A k \in B[n] : Len(k) > T.node[n].byte
    /\ \A k, l \in B[n] : Agree(k, l, T.node[n].byte, T.node[n].bit)
    /\ \A i \in Slots : Cover(B, At(T, <<n, i>>)) = {k \in B[n] : Slot(T, n, k) = i}
    /\ \A i \in Slots : At(T, <<n, i>>) \in Addrs =>
          At(T, <<n, i>>) \in NodesOf(T) /\ Earlier(T, n, At(T, <<n, i>>))
    /\ \E i, j \in Slots : i # j /\ At(T, <<n, i>>) # Null /\ At(T, <<n, j>>) # Null

\* A tree for the keys K: every node is as above, and is pointed to from one place.
TreeOk(T, K, B) ==
    /\ IsTree(T) /\ B \in [Addrs -> SUBSET Keys]
    /\ Cover(B, T.root) = K
    /\ T.root \in Addrs => T.root \in NodesOf(T)
    /\ \A n \in NodesOf(T) : NodeOk(T, B, n)
    /\ \A p, q \in Places(T) : At(T, p) = At(T, q) /\ At(T, p) \in Addrs => p = q
    /\ \A n \in NodesOf(T) : \E p \in Places(T) : At(T, p) = n

TreeOf(T, K) == \E B : TreeOk(T, K, B)

LEMMA Constants ==
    /\ SLNODES \in Nat /\ SLICES \in Nat /\ 0 \in Slots /\ 0 \in Bits
    /\ \A i \in Slots : i \in Nat
    /\ \A b \in Bits : b \in Nat
    /\ \A k \in Keys : k \notin Addrs /\ k # Null
    /\ \A a \in Addrs : a \notin Keys /\ a # Null
    /\ \A k \in Keys : k \in Seq(Bytes) /\ Len(k) \in Nat /\ Len(k) > 0 /\ \A j \in 1 .. Len(k) : k[j] \in Bytes
    /\ \A k, l \in Keys : Len(k) < Len(l) => \E j \in 1 .. Len(k) : k[j] # l[j]
<1>1. \A k \in Keys : k \in Seq(Bytes) /\ k # <<>>
  BY CritnibAssumption DEF CritnibAssumption
<1>2. \A k \in Keys : Len(k) \in Nat /\ Len(k) > 0 /\ \A j \in 1 .. Len(k) : k[j] \in Bytes
  BY <1>1
<1> QED BY <1>1, <1>2, CritnibAssumption DEF CritnibAssumption, Slots, Bits

LEMMA SlotType ==
    ASSUME NEW T, IsTree(T), NEW n \in NodesOf(T), NEW k \in Keys, T.node[n].byte < Len(k)
    PROVE  Slot(T, n, k) \in Slots /\ Slot(T, n, k) = k[T.node[n].byte + 1][T.node[n].bit]
<1>1. T.node[n].byte \in Nat /\ T.node[n].bit \in Bits
  BY DEF IsTree, NodeType
<1>2. T.node[n].byte + 1 \in 1 .. Len(k)
  BY <1>1, Constants
<1>3. k[T.node[n].byte + 1] \in Bytes
  BY <1>2, Constants
<1> QED BY <1>1, <1>3 DEF Slot, slice_index, Bytes

LEMMA PlaceFacts ==
    ASSUME NEW T, IsTree(T)
    PROVE  /\ Top \in Places(T) /\ At(T, Top) = T.root
           /\ \A n \in NodesOf(T), i \in Slots :
                /\ <<n, i>> \in Places(T) /\ <<n, i>> # Top
                /\ At(T, <<n, i>>) = T.node[n].child[i]
           /\ \A p \in Places(T) : At(T, p) \in Ptrs
           /\ \A p \in Places(T) : p = Top \/ \E n \in NodesOf(T), i \in Slots : p = <<n, i>>
<1>1. \A n \in NodesOf(T), i \in Slots : <<n, i>> \in Places(T) /\ <<n, i>> # Top
  BY Constants DEF Places, Top, IsTree
<1>2. \A n \in NodesOf(T), i \in Slots :
        At(T, <<n, i>>) = T.node[n].child[i] /\ T.node[n].child[i] \in Ptrs
  BY <1>1 DEF At, IsTree, NodeType
<1>3. \A p \in Places(T) : p = Top \/ \E n \in NodesOf(T), i \in Slots : p = <<n, i>>
  BY DEF Places
<1>4. Top \in Places(T) /\ At(T, Top) = T.root /\ T.root \in Ptrs
  BY DEF Places, At, IsTree
<1> QED BY <1>1, <1>2, <1>3, <1>4

LEMMA EarlierOrder ==
    ASSUME NEW T, IsTree(T), NEW l \in NodesOf(T), NEW m \in NodesOf(T), NEW n \in NodesOf(T)
    PROVE  /\ Earlier(T, l, m) /\ Earlier(T, m, n) => Earlier(T, l, n)
           /\ ~Earlier(T, n, n)
<1>1. /\ T.node[l].byte \in Nat /\ T.node[m].byte \in Nat /\ T.node[n].byte \in Nat
      /\ T.node[l].bit \in Nat /\ T.node[m].bit \in Nat /\ T.node[n].bit \in Nat
  BY Constants DEF IsTree, NodeType
<1> QED BY <1>1 DEF Earlier

\* On a walk along nodes, each one later than the one before, every node is later
\* than all nodes before.
LEMMA Chain ==
    ASSUME NEW T, IsTree(T), NEW X \in SUBSET NodesOf(T), NEW N \in Nat, NEW q \in [0 .. N -> Ptrs],
           \A d \in 0 .. N : d < N /\ q[d] \in X /\ q[d + 1] \in X => Earlier(T, q[d], q[d + 1]),
           NEW M \in Nat, \A d \in 0 .. N : d < M => q[d] \in X
    PROVE  \A e, d \in 0 .. N : e < d /\ d < M => Earlier(T, q[e], q[d])
<1> SUFFICES ASSUME NEW e \in 0 .. N
             PROVE  \A d \in 0 .. N : e < d /\ d < M => Earlier(T, q[e], q[d])
  OBVIOUS
<1>1. PICK S : S = {d \in 0 .. N : e < d /\ d < M => Earlier(T, q[e], q[d])}
  OBVIOUS
<1>2. 0 \in S
  BY <1>1
<1>3. ASSUME NEW d \in 0 .. N, d \in S, d < N
      PROVE  d + 1 \in S
  <2>1. SUFFICES ASSUME e < d + 1, d + 1 < M PROVE Earlier(T, q[e], q[d + 1])
    BY <1>1, <1>3
  <2>2. d + 1 \in 0 .. N /\ d < M /\ q[d] \in X /\ q[d + 1] \in X
    BY <1>3, <2>1
  <2>3. Earlier(T, q[d], q[d + 1])
    BY <1>3, <2>2
  <2>4. CASE e < d
    <3>1. Earlier(T, q[e], q[d]) /\ q[e] \in X
      BY <1>1, <1>3, <2>2, <2>4
    <3>2. q[e] \in NodesOf(T) /\ q[d] \in NodesOf(T) /\ q[d + 1] \in NodesOf(T)
      BY <2>2, <3>1
    <3> QED BY <2>3, <3>1, <3>2, EarlierOrder
  <2>5. CASE e = d
    BY <2>3, <2>5
  <2> QED BY <2>1, <2>4, <2>5
<1>4. \A d \in 0 .. N : d \in S
  BY <1>2, <1>3, Induct
<1> QED BY <1>1, <1>4

\* Such a walk through a set of nodes ends.
LEMMA Stops ==
    ASSUME NEW T, IsTree(T), NEW X \in SUBSET NodesOf(T), NEW N \in Nat, N = Cardinality(NodesOf(T)),
           NEW q \in [0 .. N -> Ptrs],
           \A d \in 0 .. N : d < N /\ q[d] \in X /\ q[d + 1] \in X => Earlier(T, q[d], q[d + 1])
    PROVE  \E d \in 0 .. N : q[d] \notin X /\ \A e \in 0 .. N : e < d => q[e] \in X
<1>1. \E d \in 0 .. N : q[d] \notin X
  <2> SUFFICES ASSUME \A d \in 0 .. N : q[d] \in X PROVE FALSE
    OBVIOUS
  <2>1. \A e, d \in 0 .. N : e < d => Earlier(T, q[e], q[d])
    <3>1. PICK M \in Nat : M = N + 1
      OBVIOUS
    <3>2. \A d \in 0 .. N : d < M => q[d] \in X
      OBVIOUS
    <3>3. \A e, d \in 0 .. N : e < d /\ d < M => Earlier(T, q[e], q[d])
      BY <3>2, Chain
    <3>4. \A d \in 0 .. N : d < M
      BY <3>1
    <3> QED BY <3>3, <3>4
  <2>2. q \in [0 .. N -> NodesOf(T)]
    OBVIOUS
  <2>3. IsFiniteSet(0 .. N) /\ Cardinality(0 .. N) = N + 1
    BY FS_Interval
  <2>4. IsFiniteSet(NodesOf(T)) /\ Cardinality(NodesOf(T)) < Cardinality(0 .. N)
    BY <2>3 DEF IsTree
  <2>5. PICK d, e \in 0 .. N : d # e /\ q[d] = q[e]
    BY <2>2, <2>3, <2>4, FS_PigeonHole
  <2>6. q[d] \in NodesOf(T) /\ ~Earlier(T, q[d], q[d])
    BY EarlierOrder
  <2>7. d < e \/ e < d
    BY <2>5
  <2> QED BY <2>1, <2>5, <2>6, <2>7
<1>2. PICK S : S = {d \in 0 .. N : q[d] \notin X}
  OBVIOUS
<1>3. PICK d \in S : \A e \in S : d <= e
  <2>1. S \in SUBSET Nat /\ S # {}
    BY <1>1, <1>2
  <2> QED BY <2>1, LeastIn
<1>4. \A e \in 0 .. N : e < d => e \notin S
  BY <1>2, <1>3
<1> QED BY <1>2, <1>4

----------------------------------------------------------------------------
(* Descents *)

States(T) == [parent : Places(T), pp : Places(T)]
Start0 == [parent |-> Top, pp |-> Top]
Below1(T, key, s) == [parent |-> <<At(T, s.parent), Slot(T, At(T, s.parent), key)>>, pp |-> s.parent]

\* A descent starts in I and stays there.
Keeps(T, key, X, I) ==
    /\ Start0 \in I
    /\ \A s \in I : s \in States(T) /\ At(T, s.parent) \in X => Below1(T, key, s) \in I

\* The descent along key through X that ends in state s has met the nodes V.
Route(T, key, X, s, V, I) ==
    /\ V \subseteq X /\ s \in States(T) /\ s \in I /\ At(T, s.parent) \notin X
    /\ \A n \in V : \E r \in I : r \in States(T) /\ At(T, r.parent) = n
    /\ V = {} => s = Start0
    /\ V # {} => /\ T.root \in V
                 /\ \E m \in V : /\ s.parent = <<m, Slot(T, m, key)>> /\ At(T, s.pp) = m
                                 /\ \A n \in V : n # m => At(T, <<n, Slot(T, n, key)>>) \in V
                                 /\ \/ s.pp = Top /\ V = {m}
                                    \/ \E n \in V : n # m /\ s.pp = <<n, Slot(T, n, key)>>
    /\ \A n \in V : n = T.root \/ \E l \in V : n = At(T, <<l, Slot(T, l, key)>>)
    /\ \A m, n \in V : m = n \/ Earlier(T, m, n) \/ Earlier(T, n, m)

LEMMA StepState ==
    ASSUME NEW T, IsTree(T), NEW key \in Keys,
           NEW X \in SUBSET {n \in NodesOf(T) : T.node[n].byte < Len(key)},
           NEW s \in States(T), At(T, s.parent) \in X
    PROVE  /\ Below1(T, key, s) \in States(T)
           /\ Below1(T, key, s).parent = <<At(T, s.parent), Slot(T, At(T, s.parent), key)>>
           /\ Below1(T, key, s).pp = s.parent
<1>1. PICK n \in NodesOf(T) : n = At(T, s.parent) /\ T.node[n].byte < Len(key)
  OBVIOUS
<1>2. Slot(T, n, key) \in Slots
  BY <1>1, SlotType
<1>3. <<n, Slot(T, n, key)>> \in Places(T)
  BY <1>2, PlaceFacts
<1> QED BY <1>1, <1>3 DEF Below1, States

LEMMA DescendRoute ==
    ASSUME NEW T, IsTree(T), NEW key \in Keys,
           NEW X \in SUBSET {n \in NodesOf(T) : T.node[n].byte < Len(key)},
           \A n \in X : At(T, <<n, Slot(T, n, key)>>) \in X =>
                            Earlier(T, n, At(T, <<n, Slot(T, n, key)>>)),
           NEW I, Keeps(T, key, X, I)
    PROVE  \E V : Route(T, key, X, Descend(T, key, X), V, I)
<1> DEFINE Go(s) == IF At(T, s.parent) \in X THEN Below1(T, key, s) ELSE s
<1>1. PICK N \in Nat : N = Cardinality(NodesOf(T))
  BY FS_CardinalityType DEF IsTree
<1>2. PICK step : step = [s \in States(T) |-> Go(s)]
  OBVIOUS
<1>3. step \in [States(T) -> States(T)]
  BY <1>2, StepState
<1>4. Start0 \in States(T)
  BY PlaceFacts DEF Start0, States
<1>5. Descend(T, key, X) = Walk(step, Start0, N)
  BY <1>1, <1>2 DEF Descend, States, Start0, Below1
<1>6. PICK f \in [0 .. N -> States(T)] :
          f[0] = Start0 /\ (\A d \in 1 .. N : f[d] = step[f[d - 1]]) /\ Walk(step, Start0, N) = f[N]
  <2>1. PICK S, s0 : S = States(T) /\ s0 = Start0
    OBVIOUS
  <2>2. step \in [S -> S] /\ s0 \in S
    BY <1>3, <1>4, <2>1
  <2>3. Walked(S, step, s0, N, Walk(step, s0, N))
    BY <2>2, WalkIs
  <2> QED BY <2>1, <2>3 DEF Walked
<1>7. \A d \in 0 .. N : d < N => d + 1 \in 0 .. N /\ f[d + 1] = Go(f[d])
  <2> SUFFICES ASSUME NEW d \in 0 .. N, d < N PROVE d + 1 \in 0 .. N /\ f[d + 1] = Go(f[d])
    OBVIOUS
  <2>1. d + 1 \in 1 .. N /\ (d + 1) - 1 = d /\ f[d] \in States(T)
    OBVIOUS
  <2>2. f[d + 1] = step[f[d]]
    BY <1>6, <2>1
  <2> HIDE DEF Go
  <2> QED BY <1>2, <2>1, <2>2
<1> HIDE DEF Go
<1>8. PICK q : q = [d \in 0 .. N |-> At(T, f[d].parent)]
  OBVIOUS
<1>9. q \in [0 .. N -> Ptrs] /\ \A d \in 0 .. N : q[d] = At(T, f[d].parent) /\ f[d] \in States(T)
  BY <1>8, PlaceFacts DEF States
<1>10. \A d \in 0 .. N : d < N /\ q[d] \in X =>
          /\ f[d + 1] = Below1(T, key, f[d]) /\ q[d + 1] = At(T, <<q[d], Slot(T, q[d], key)>>)
          /\ f[d + 1].parent = <<q[d], Slot(T, q[d], key)>> /\ f[d + 1].pp = f[d].parent
  <2> SUFFICES ASSUME NEW d \in 0 .. N, d < N, q[d] \in X
               PROVE  /\ f[d + 1] = Below1(T, key, f[d]) /\ q[d + 1] = At(T, <<q[d], Slot(T, q[d], key)>>)
                      /\ f[d + 1].parent = <<q[d], Slot(T, q[d], key)>> /\ f[d + 1].pp = f[d].parent
    OBVIOUS
  <2>1. PICK s : s = f[d] /\ s \in States(T) /\ At(T, s.parent) = q[d] /\ At(T, s.parent) \in X
    BY <1>9
  <2>2. /\ Below1(T, key, s) \in States(T)
        /\ Below1(T, key, s).parent = <<At(T, s.parent), Slot(T, At(T, s.parent), key)>>
        /\ Below1(T, key, s).pp = s.parent
    BY <2>1, StepState
  <2>3. d + 1 \in 0 .. N /\ f[d + 1] = Below1(T, key, s)
    BY <1>7, <2>1 DEF Go
  <2> QED BY <1>9, <2>1, <2>2, <2>3
<1>11. \A d \in 0 .. N : d < N /\ q[d] \in X /\ q[d + 1] \in X => Earlier(T, q[d], q[d + 1])
  BY <1>10
<1>12. PICK M \in 0 .. N : q[M] \notin X /\ \A e \in 0 .. N : e < M => q[e] \in X
  <2>1. X \in SUBSET NodesOf(T)
    OBVIOUS
  <2> QED BY <1>1, <1>9, <1>11, <2>1, Stops
<1>13. f[N] = f[M]
  <2>1. PICK S : S = {d \in 0 .. N : d < M \/ f[d] = f[M]}
    OBVIOUS
  <2>2. 0 \in S
    BY <2>1
  <2>3. ASSUME NEW d \in 0 .. N, d \in S, d < N
        PROVE  d + 1 \in S
    <3>1. d + 1 \in 0 .. N /\ f[d + 1] = Go(f[d])
      BY <1>7, <2>3
    <3>2. CASE d + 1 < M
      BY <2>1, <3>1, <3>2
    <3>3. CASE d + 1 = M
      BY <2>1, <3>1, <3>3
    <3>4. CASE d + 1 > M
      <4>1. f[d] = f[M]
        BY <2>1, <2>3, <3>4
      <4>2. f[d + 1] = f[d]
        BY <1>9, <1>12, <3>1, <4>1 DEF Go
      <4> QED BY <2>1, <3>1, <4>1, <4>2
    <3> QED BY <3>2, <3>3, <3>4
  <2>4. \A d \in 0 .. N : d \in S
    BY <2>2, <2>3, Induct
  <2>5. N \in S
    BY <2>4
  <2> QED BY <2>1, <2>5
<1>14. \A d \in 0 .. N : d <= M => f[d] \in I
  <2>1. PICK S : S = {d \in 0 .. N : d <= M => f[d] \in I}
    OBVIOUS
  <2>2. 0 \in S
    BY <1>6, <2>1 DEF Keeps
  <2>3. ASSUME NEW d \in 0 .. N, d \in S, d < N
        PROVE  d + 1 \in S
    <3>1. d + 1 \in 0 .. N
      BY <2>3
    <3>2. ASSUME d + 1 <= M PROVE f[d + 1] \in I
      <4>1. d < M /\ f[d] \in I
        BY <2>1, <2>3, <3>2
      <4>2. q[d] \in X /\ f[d + 1] = Below1(T, key, f[d])
        BY <1>10, <1>12, <2>3, <4>1
      <4> QED BY <1>9, <4>1, <4>2 DEF Keeps
    <3> QED BY <2>1, <3>1, <3>2
  <2>4. \A d \in 0 .. N : d \in S
    BY <2>2, <2>3, Induct
  <2> QED BY <2>1, <2>4
<1>15. PICK s : s = f[M]
  OBVIOUS
<1>16. Descend(T, key, X) = s /\ s \in States(T) /\ s \in I /\ At(T, s.parent) \notin X
  BY <1>5, <1>6, <1>9, <1>12, <1>13, <1>14, <1>15
<1>17. PICK V : V = {q[d] : d \in {e \in 0 .. N : e < M}}
  OBVIOUS
<1>18. V \subseteq X /\ \A n \in V : \E r \in I : r \in States(T) /\ At(T, r.parent) = n
  BY <1>9, <1>12, <1>14, <1>17
<1>19. V = {} => s = Start0
  <2>1. M = 0 => s = Start0
    BY <1>6, <1>15
  <2>2. M # 0 => q[0] \in V
    BY <1>17
  <2> QED BY <2>1, <2>2
<1>20. \A n \in V : n = T.root \/ \E l \in V : n = At(T, <<l, Slot(T, l, key)>>)
  <2> SUFFICES ASSUME NEW d \in 0 .. N, d < M
               PROVE  q[d] = T.root \/ \E l \in V : q[d] = At(T, <<l, Slot(T, l, key)>>)
    BY <1>17
  <2>1. CASE d = 0
    <3>1. q[0] = At(T, Top)
      BY <1>6, <1>9 DEF Start0
    <3> QED BY <2>1, <3>1, PlaceFacts
  <2>2. CASE d # 0
    <3>1. PICK e \in 0 .. N : e + 1 = d /\ e < M /\ e < N
      <4>1. d - 1 \in 0 .. N /\ (d - 1) + 1 = d /\ d - 1 < M /\ d - 1 < N
        BY <2>2
      <4> QED BY <4>1
    <3>2. q[d] = At(T, <<q[e], Slot(T, q[e], key)>>) /\ q[e] \in V
      BY <1>10, <1>12, <1>17, <3>1
    <3> QED BY <3>2
  <2> QED BY <2>1, <2>2
<1>21. ASSUME V # {}
       PROVE  /\ T.root \in V
              /\ \E m \in V : /\ s.parent = <<m, Slot(T, m, key)>> /\ At(T, s.pp) = m
                              /\ \A n \in V : n # m => At(T, <<n, Slot(T, n, key)>>) \in V
                              /\ \/ s.pp = Top /\ V = {m}
                                 \/ \E n \in V : n # m /\ s.pp = <<n, Slot(T, n, key)>>
  <2>1. M # 0
    BY <1>17, <1>21
  <2>2. q[0] = T.root /\ q[0] \in V
    <3>1. q[0] = At(T, Top)
      BY <1>6, <1>9 DEF Start0
    <3> QED BY <1>17, <2>1, <3>1, PlaceFacts
  <2>3. PICK e \in 0 .. N : e + 1 = M /\ e < M /\ e < N
    <3>1. M - 1 \in 0 .. N /\ (M - 1) + 1 = M /\ M - 1 < M /\ M - 1 < N
      BY <2>1
    <3> QED BY <3>1
  <2>4. q[e] \in V /\ q[e] \in X
    BY <1>12, <1>17, <2>3
  <2>5. s.parent = <<q[e], Slot(T, q[e], key)>> /\ s.pp = f[e].parent /\ At(T, s.pp) = q[e]
    BY <1>9, <1>10, <1>15, <2>3, <2>4
  <2>6. \A n \in V : n # q[e] => At(T, <<n, Slot(T, n, key)>>) \in V
    <3> SUFFICES ASSUME NEW d \in 0 .. N, d < M, q[d] # q[e]
                 PROVE  At(T, <<q[d], Slot(T, q[d], key)>>) \in V
      BY <1>17
    <3>1. d # e /\ d + 1 < M /\ d < N /\ d + 1 \in 0 .. N
      BY <2>3
    <3>2. q[d + 1] = At(T, <<q[d], Slot(T, q[d], key)>>)
      BY <1>10, <1>12, <3>1
    <3> QED BY <1>17, <3>1, <3>2
  <2>7. (s.pp = Top /\ V = {q[e]}) \/ \E n \in V : n # q[e] /\ s.pp = <<n, Slot(T, n, key)>>
    <3>1. CASE e = 0
      <4>1. \A d \in 0 .. N : d < M => d = e
        BY <2>3, <3>1
      <4>2. V = {q[e]}
        BY <1>17, <2>4, <4>1
      <4> QED BY <1>6, <2>5, <3>1, <4>2 DEF Start0
    <3>2. CASE e # 0
      <4>1. PICK d \in 0 .. N : d + 1 = e /\ d < M /\ d < N
        <5>1. e - 1 \in 0 .. N /\ (e - 1) + 1 = e /\ e - 1 < M /\ e - 1 < N
          BY <2>3, <3>2
        <5> QED BY <5>1
      <4>2. q[d] \in X /\ q[d] \in V /\ f[e].parent = <<q[d], Slot(T, q[d], key)>>
        BY <1>10, <1>12, <1>17, <4>1
      <4>3. Earlier(T, q[d], q[e])
        BY <1>11, <2>4, <4>1, <4>2
      <4>4. q[d] # q[e]
        BY <2>4, <4>3, EarlierOrder
      <4> QED BY <2>5, <4>2, <4>4
    <3> QED BY <3>1, <3>2
  <2> QED BY <2>2, <2>4, <2>5, <2>6, <2>7
<1>22. \A m, n \in V : m = n \/ Earlier(T, m, n) \/ Earlier(T, n, m)
  <2>1. M \in Nat /\ X \in SUBSET NodesOf(T)
    OBVIOUS
  <2>2. \A e, d \in 0 .. N : e < d /\ d < M => Earlier(T, q[e], q[d])
    BY <1>9, <1>11, <1>12, <2>1, Chain
  <2> SUFFICES ASSUME NEW e \in 0 .. N, NEW d \in 0 .. N, e < M, d < M
               PROVE  q[e] = q[d] \/ Earlier(T, q[e], q[d]) \/ Earlier(T, q[d], q[e])
    BY <1>17
  <2>3. e < d \/ d < e \/ e = d
    OBVIOUS
  <2> QED BY <2>2, <2>3
<1> QED BY <1>16, <1>18, <1>19, <1>20, <1>21, <1>22 DEF Route

----------------------------------------------------------------------------
(* Lookups *)

LEMMA CoverType ==
    ASSUME NEW B \in [Addrs -> SUBSET Keys]
    PROVE  /\ \A p \in Ptrs : Cover(B, p) \in SUBSET Keys
           /\ \A k \in Keys : Cover(B, k) = {k}
           /\ \A a \in Addrs : Cover(B, a) = B[a]
           /\ Cover(B, Null) = {}
BY Constants DEF Cover, Ptrs

LEMMA TreeFacts ==
    ASSUME NEW T, NEW K, NEW B, TreeOk(T, K, B)
    PROVE  /\ IsTree(T) /\ B \in [Addrs -> SUBSET Keys] /\ Cover(B, T.root) = K
           /\ \A p \in Places(T) : /\ At(T, p) \in Ptrs
                                   /\ At(T, p) \in Addrs => At(T, p) \in NodesOf(T)
           /\ \A n \in NodesOf(T) :
                /\ n \in Addrs /\ n \in Ptrs /\ n \notin Keys /\ n # Null
                /\ Cover(B, n) = B[n] /\ B[n] \subseteq Keys /\ B[n] # {}
                /\ T.node[n].byte \in Nat /\ T.node[n].bit \in Bits
                /\ \A k \in B[n] : T.node[n].byte < Len(k) /\ Slot(T, n, k) \in Slots
                /\ \A i \in Slots : Cover(B, At(T, <<n, i>>)) = {k \in B[n] : Slot(T, n, k) = i}
                /\ \A i \in Slots : At(T, <<n, i>>) \in NodesOf(T) => Earlier(T, n, At(T, <<n, i>>))
<1>1. IsTree(T) /\ B \in [Addrs -> SUBSET Keys] /\ Cover(B, T.root) = K
  BY DEF TreeOk
<1>2. \A n \in NodesOf(T) :
         /\ n \in Addrs /\ n \in Ptrs /\ n \notin Keys /\ n # Null
         /\ Cover(B, n) = B[n] /\ B[n] \subseteq Keys
         /\ T.node[n].byte \in Nat /\ T.node[n].bit \in Bits
  BY <1>1, Constants DEF Cover, Ptrs, IsTree, NodeType
<1>3. ASSUME NEW n \in NodesOf(T)
      PROVE  /\ B[n] # {}
             /\ \A k \in B[n] : T.node[n].byte < Len(k)
             /\ \A i \in Slots : Cover(B, At(T, <<n, i>>)) = {k \in B[n] : Slot(T, n, k) = i}
             /\ \A i \in Slots : At(T, <<n, i>>) \in Addrs =>
                   At(T, <<n, i>>) \in NodesOf(T) /\ Earlier(T, n, At(T, <<n, i>>))
  <2>1. NodeOk(T, B, n)
    BY DEF TreeOk
  <2>2. \A k \in B[n] : Len(k) \in Nat /\ Len(k) > T.node[n].byte
    BY <1>2, <2>1, Constants DEF NodeOk
  <2>3. \A k \in B[n] : T.node[n].byte < Len(k)
    BY <1>2, <2>2
  <2> QED BY <2>1, <2>3 DEF NodeOk
<1>4. ASSUME NEW n \in NodesOf(T), NEW k \in B[n] PROVE Slot(T, n, k) \in Slots
  <2>1. k \in Keys /\ T.node[n].byte < Len(k)
    BY <1>2, <1>3
  <2> QED BY <1>1, <2>1, SlotType
<1>5. ASSUME NEW p \in Places(T)
      PROVE  At(T, p) \in Ptrs /\ (At(T, p) \in Addrs => At(T, p) \in NodesOf(T))
  <2>1. At(T, p) \in Ptrs
    BY <1>1, PlaceFacts
  <2>2. CASE p = Top
    <3>1. At(T, p) = T.root
      BY <1>1, <2>2, PlaceFacts
    <3> QED BY <2>1, <3>1 DEF TreeOk
  <2>3. CASE p # Top
    <3>1. PICK n \in NodesOf(T), i \in Slots : p = <<n, i>>
      BY <1>1, <2>3, PlaceFacts
    <3> QED BY <1>3, <2>1, <3>1
  <2> QED BY <2>2, <2>3
<1> QED BY <1>1, <1>2, <1>3, <1>4, <1>5

\* any_leaf finds a key below the pointer it is given.
LEMMA AnyLeaf ==
    ASSUME NEW T, NEW K, NEW B, TreeOk(T, K, B),
           NEW ptr \in Ptrs, ptr # Null, ptr \in Addrs => ptr \in NodesOf(T)
    PROVE  any_leaf(T, ptr) \in Cover(B, ptr)
<1>1. IsTree(T) /\ B \in [Addrs -> SUBSET Keys]
  BY TreeFacts
<1> DEFINE Go(p) == IF p \in NodesOf(T) THEN T.node[p].child[First(T, p)] ELSE p
           Good == {p \in Ptrs : /\ p # Null /\ (p \in Addrs => p \in NodesOf(T))
                                 /\ Cover(B, p) \subseteq Cover(B, ptr)}
<1>2. ASSUME NEW n \in NodesOf(T)
      PROVE  \E i \in Slots : i = First(T, n) /\ Go(n) = At(T, <<n, i>>) /\ At(T, <<n, i>>) # Null
  <2>1. \A i \in Slots : At(T, <<n, i>>) = T.node[n].child[i]
    BY <1>1, PlaceFacts
  <2>2. Children(T, n) \in SUBSET Nat /\ Children(T, n) # {}
    BY <2>1, Constants DEF TreeOk, NodeOk, Children
  <2>3. \E i \in Children(T, n) : \A j \in Children(T, n) : i <= j
    BY <2>2, LeastIn
  <2>4. First(T, n) \in Children(T, n)
    BY <2>3 DEF First
  <2> QED BY <2>1, <2>4 DEF Children
<1>3. ASSUME NEW p \in Good PROVE Go(p) \in Good /\ (p \in NodesOf(T) /\ Go(p) \in NodesOf(T) => Earlier(T, p, Go(p)))
  <2>1. CASE p \in NodesOf(T)
    <3>1. PICK i \in Slots : Go(p) = At(T, <<p, i>>) /\ At(T, <<p, i>>) # Null
      BY <1>2, <2>1
    <3>2. <<p, i>> \in Places(T)
      BY <1>1, <2>1, PlaceFacts
    <3>3. At(T, <<p, i>>) \in Ptrs /\ (At(T, <<p, i>>) \in Addrs => At(T, <<p, i>>) \in NodesOf(T))
      BY <3>2, TreeFacts
    <3>4. Cover(B, At(T, <<p, i>>)) = {k \in B[p] : Slot(T, p, k) = i} /\ Cover(B, p) = B[p]
      BY <2>1, TreeFacts
    <3>5. At(T, <<p, i>>) \in NodesOf(T) => Earlier(T, p, At(T, <<p, i>>))
      BY <2>1, TreeFacts
    <3> HIDE DEF Go
    <3> QED BY <3>1, <3>3, <3>4, <3>5
  <2>2. CASE p \notin NodesOf(T)
    BY <2>2
  <2> QED BY <2>1, <2>2
<1>4. ASSUME NEW p \in Ptrs PROVE Go(p) \in Ptrs
  <2>1. CASE p \in NodesOf(T)
    <3>1. PICK i \in Slots : Go(p) = At(T, <<p, i>>)
      BY <1>2, <2>1
    <3>2. <<p, i>> \in Places(T)
      BY <1>1, <2>1, PlaceFacts
    <3> QED BY <1>1, <3>1, <3>2, PlaceFacts
  <2> QED BY <2>1
<1>5. PICK step : step = [p \in Ptrs |-> Go(p)]
  OBVIOUS
<1>6. PICK N \in Nat : N = Cardinality(NodesOf(T))
  BY <1>1, FS_CardinalityType DEF IsTree
<1>7. any_leaf(T, ptr) = Walk(step, ptr, N)
  BY <1>5, <1>6 DEF any_leaf
<1> HIDE DEF Go
<1>8. step \in [Ptrs -> Ptrs]
  BY <1>4, <1>5
<1>9. Walked(Ptrs, step, ptr, N, Walk(step, ptr, N))
  <2>1. PICK S : S = Ptrs
    OBVIOUS
  <2>2. step \in [S -> S] /\ ptr \in S
    BY <1>8, <2>1
  <2>3. Walked(S, step, ptr, N, Walk(step, ptr, N))
    BY <2>2, WalkIs
  <2> QED BY <2>1, <2>3
<1>10. PICK f \in [0 .. N -> Ptrs] :
          f[0] = ptr /\ (\A d \in 1 .. N : f[d] = step[f[d - 1]]) /\ any_leaf(T, ptr) = f[N]
  BY <1>7, <1>9 DEF Walked
<1>11. ASSUME NEW d \in 0 .. N, d < N PROVE d + 1 \in 0 .. N /\ f[d + 1] = Go(f[d])
  <2>1. d + 1 \in 1 .. N /\ (d + 1) - 1 = d /\ f[d] \in Ptrs
    BY <1>11
  <2>2. f[d + 1] = step[f[d]]
    BY <1>10, <2>1
  <2> QED BY <1>5, <2>1, <2>2
<1>12. \A d \in 0 .. N : f[d] \in Good
  <2>1. PICK S : S = {d \in 0 .. N : f[d] \in Good}
    OBVIOUS
  <2>2. 0 \in S
    BY <1>10, <2>1
  <2>3. ASSUME NEW d \in 0 .. N, d \in S, d < N
        PROVE  d + 1 \in S
    <3> HIDE DEF Good
    <3> QED BY <1>3, <1>11, <2>1, <2>3
  <2>4. \A d \in 0 .. N : d \in S
    BY <2>2, <2>3, Induct
  <2> QED BY <2>1, <2>4
<1>13. PICK M \in 0 .. N : f[M] \notin NodesOf(T)
  <2>1. PICK X \in SUBSET NodesOf(T) : X = NodesOf(T)
    OBVIOUS
  <2>2. \A d \in 0 .. N : d < N /\ f[d] \in X /\ f[d + 1] \in X => Earlier(T, f[d], f[d + 1])
    <3> HIDE DEF Good
    <3> QED BY <1>3, <1>11, <1>12, <2>1
  <2>3. \E d \in 0 .. N : f[d] \notin X /\ \A e \in 0 .. N : e < d => f[e] \in X
    BY <1>1, <1>6, <2>2, Stops
  <2> QED BY <2>1, <2>3
<1>14. f[N] \notin NodesOf(T)
  <2>1. PICK S : S = {d \in 0 .. N : d < M \/ f[d] \notin NodesOf(T)}
    OBVIOUS
  <2>2. 0 \in S
    BY <1>13, <2>1
  <2>3. ASSUME NEW d \in 0 .. N, d \in S, d < N
        PROVE  d + 1 \in S
    <3>1. d + 1 \in 0 .. N /\ f[d + 1] = Go(f[d])
      BY <1>11, <2>3
    <3>2. CASE d + 1 < M
      BY <2>1, <3>1, <3>2
    <3>3. CASE d + 1 = M
      BY <1>13, <2>1, <3>1, <3>3
    <3>4. CASE d + 1 > M
      <4>1. f[d] \notin NodesOf(T)
        BY <2>1, <2>3, <3>4
      <4> QED BY <2>1, <3>1, <4>1 DEF Go
    <3> QED BY <3>2, <3>3, <3>4
  <2>4. \A d \in 0 .. N : d \in S
    BY <2>2, <2>3, Induct
  <2>5. N \in S
    BY <2>4
  <2> QED BY <2>1, <2>5
<1>15. f[N] \in Good
  BY <1>12
<1>16. f[N] \in Keys
  BY <1>14, <1>15 DEF Ptrs
<1>17. Cover(B, f[N]) = {f[N]}
  BY <1>1, <1>16, CoverType
<1> QED BY <1>10, <1>15, <1>17

\* The nodes that a key is long enough for.
Fits(T, key) == {n \in NodesOf(T) : T.node[n].byte < Len(key)}

\* The states of a descent above some key.
Above(T, B, k) == {s \in States(T) : k \in Cover(B, At(T, s.parent))}

LEMMA NextCover ==
    ASSUME NEW T, NEW K, NEW B, TreeOk(T, K, B), NEW key \in Keys, NEW s \in States(T),
           NEW n, n = At(T, s.parent), n \in Fits(T, key)
    PROVE  /\ Below1(T, key, s) \in States(T) /\ Slot(T, n, key) \in Slots
           /\ Below1(T, key, s).parent = <<n, Slot(T, n, key)>>
           /\ Cover(B, At(T, s.parent)) = B[n]
           /\ Cover(B, At(T, Below1(T, key, s).parent)) = {k \in B[n] : Slot(T, n, k) = Slot(T, n, key)}
<1>1. IsTree(T) /\ n \in NodesOf(T) /\ T.node[n].byte < Len(key)
  BY TreeFacts DEF Fits
<1>2. Slot(T, n, key) \in Slots
  BY <1>1, SlotType
<1>3. PICK X \in SUBSET {m \in NodesOf(T) : T.node[m].byte < Len(key)} : At(T, s.parent) \in X
  BY DEF Fits
<1>4. Below1(T, key, s) \in States(T) /\ Below1(T, key, s).parent = <<n, Slot(T, n, key)>>
  BY <1>1, <1>3, StepState
<1>5. Cover(B, n) = B[n] /\ \A i \in Slots : Cover(B, At(T, <<n, i>>)) = {k \in B[n] : Slot(T, n, k) = i}
  BY <1>1, TreeFacts
<1> QED BY <1>2, <1>4, <1>5

LEMMA DescendTree ==
    ASSUME NEW T, NEW K, NEW B, TreeOk(T, K, B), NEW key \in Keys,
           NEW X \in SUBSET Fits(T, key), NEW I, Keeps(T, key, X, I)
    PROVE  \E V : Route(T, key, X, Descend(T, key, X), V, I)
<1>1. IsTree(T)
  BY TreeFacts
<1>2. X \in SUBSET {n \in NodesOf(T) : T.node[n].byte < Len(key)}
  BY DEF Fits
<1>3. ASSUME NEW n \in X, At(T, <<n, Slot(T, n, key)>>) \in X
      PROVE  Earlier(T, n, At(T, <<n, Slot(T, n, key)>>))
  <2>1. n \in NodesOf(T) /\ Slot(T, n, key) \in Slots
    BY <1>1, <1>2, SlotType
  <2>2. At(T, <<n, Slot(T, n, key)>>) \in NodesOf(T)
    BY <1>2, <1>3
  <2> QED BY <2>1, <2>2, TreeFacts
<1> QED BY <1>1, <1>2, <1>3, DescendRoute

LEMMA StartState ==
    ASSUME NEW T, NEW K, NEW B, TreeOk(T, K, B)
    PROVE  Start0 \in States(T) /\ Start0.parent = Top /\ Cover(B, At(T, Start0.parent)) = K
<1>1. IsTree(T) /\ Cover(B, T.root) = K
  BY TreeFacts
<1>2. Top \in Places(T) /\ At(T, Top) = T.root
  BY <1>1, PlaceFacts
<1> QED BY <1>1, <1>2 DEF Start0, States

\* The descent of a key that is there ends at its leaf.
LEMMA FindEnds ==
    ASSUME NEW T, NEW K, NEW B, TreeOk(T, K, B), NEW key \in K
    PROVE  /\ key \in Keys /\ At(T, Find(T, key).parent) = key
           /\ \E V : Route(T, key, Fits(T, key), Find(T, key), V, Above(T, B, key))
<1>0. T.root \in Ptrs /\ IsTree(T) /\ B \in [Addrs -> SUBSET Keys]
  BY TreeFacts DEF IsTree
<1>1. key \in Keys
  BY <1>0, CoverType, TreeFacts
<1>2. Keeps(T, key, Fits(T, key), Above(T, B, key))
  <2>1. Start0 \in Above(T, B, key)
    BY StartState DEF Above
  <2>2. ASSUME NEW s \in Above(T, B, key), At(T, s.parent) \in Fits(T, key)
        PROVE  Below1(T, key, s) \in Above(T, B, key)
    <3>1. PICK n : n = At(T, s.parent) /\ n \in Fits(T, key)
      BY <2>2
    <3>2. s \in States(T)
      BY DEF Above
    <3>3. /\ Below1(T, key, s) \in States(T) /\ Cover(B, At(T, s.parent)) = B[n]
          /\ Cover(B, At(T, Below1(T, key, s).parent)) = {k \in B[n] : Slot(T, n, k) = Slot(T, n, key)}
      BY <1>1, <3>1, <3>2, NextCover
    <3> QED BY <3>3 DEF Above
  <2> QED BY <2>1, <2>2 DEF Keeps
<1>3. PICK X \in SUBSET Fits(T, key) : X = Fits(T, key)
  OBVIOUS
<1>4. Find(T, key) = Descend(T, key, X)
  BY <1>3 DEF Find, Fits
<1>5. PICK V : Route(T, key, X, Find(T, key), V, Above(T, B, key))
  BY <1>1, <1>2, <1>3, <1>4, DescendTree
<1>6. PICK s : s = Find(T, key) /\ s \in States(T) /\ At(T, s.parent) \notin Fits(T, key)
               /\ key \in Cover(B, At(T, s.parent))
  BY <1>3, <1>5 DEF Route, Above
<1>7. s.parent \in Places(T)
  BY <1>6 DEF States
<1>8. PICK p \in Ptrs : p = At(T, s.parent) /\ (p \in Addrs => p \in NodesOf(T))
  BY <1>7, TreeFacts
<1>9. p = key
  <2>1. p # Null
    BY <1>0, <1>6, <1>8, CoverType
  <2>2. CASE p \in Keys
    BY <1>0, <1>6, <1>8, <2>2, CoverType
  <2>3. CASE p \in Addrs
    <3>1. p \in NodesOf(T) /\ key \in B[p]
      BY <1>0, <1>6, <1>8, <2>3, CoverType
    <3>2. T.node[p].byte < Len(key)
      BY <3>1, TreeFacts
    <3> QED BY <1>6, <1>8, <3>1, <3>2 DEF Fits
  <2> QED BY <2>1, <2>2, <2>3 DEF Ptrs
<1> QED BY <1>1, <1>3, <1>5, <1>6, <1>8, <1>9

\* A lookup finds the keys of the tree, and no other.
LEMMA Get ==
    ASSUME NEW T, NEW K, NEW B, TreeOk(T, K, B), NEW key \in Keys
    PROVE  critnib_get(T, key) <=> key \in K
<1>1. key \in K => critnib_get(T, key)
  BY FindEnds DEF critnib_get
<1>2. ASSUME critnib_get(T, key) PROVE key \in K
  <2>1. PICK I : I = {s \in States(T) : Cover(B, At(T, s.parent)) \subseteq K}
    OBVIOUS
  <2>2. Keeps(T, key, Fits(T, key), I)
    <3>1. Start0 \in I
      BY <2>1, StartState
    <3>2. ASSUME NEW s \in I, At(T, s.parent) \in Fits(T, key)
          PROVE  Below1(T, key, s) \in I
      <4>1. PICK n : n = At(T, s.parent) /\ n \in Fits(T, key)
        BY <3>2
      <4>2. s \in States(T) /\ Cover(B, At(T, s.parent)) \subseteq K
        BY <2>1
      <4>3. /\ Below1(T, key, s) \in States(T) /\ Cover(B, At(T, s.parent)) = B[n]
            /\ Cover(B, At(T, Below1(T, key, s).parent)) = {k \in B[n] : Slot(T, n, k) = Slot(T, n, key)}
        BY <4>1, <4>2, NextCover
      <4> QED BY <2>1, <4>2, <4>3
    <3> QED BY <3>1, <3>2 DEF Keeps
  <2>3. PICK X \in SUBSET Fits(T, key) : X = Fits(T, key)
    OBVIOUS
  <2>4. Find(T, key) = Descend(T, key, X)
    BY <2>3 DEF Find, Fits
  <2>5. PICK V : Route(T, key, X, Find(T, key), V, I)
    BY <2>2, <2>3, <2>4, DescendTree
  <2>6. Cover(B, At(T, Find(T, key).parent)) \subseteq K
    BY <2>1, <2>5 DEF Route
  <2>7. At(T, Find(T, key).parent) = key /\ B \in [Addrs -> SUBSET Keys]
    BY <1>2, TreeFacts DEF critnib_get
  <2> QED BY <2>6, <2>7, CoverType
<1> QED BY <1>1, <1>2

----------------------------------------------------------------------------
(* Where a new key forks off *)

\* Keys k and l agree up to and including a slice.
Through(k, l, byte, bit) ==
    /\ byte < Len(k) /\ byte < Len(l) /\ Agree(k, l, byte, bit)
    /\ k[byte + 1][bit] = l[byte + 1][bit]

\* Key l goes with key at least as far as k does.
NotCloser(k, l, key) ==
    \A byte \in Nat, bit \in Bits : Through(k, key, byte, bit) => Through(l, key, byte, bit)

\* Two keys that agree up to where the first one leaves key.
LEMMA Leaves ==
    ASSUME NEW k \in Keys, NEW l \in Keys, NEW key \in Keys, NEW byte \in Nat, NEW bit \in Bits,
           byte < Len(l), Agree(k, l, byte, bit),
           Len(key) <= byte \/ k[byte + 1][bit] # key[byte + 1][bit]
    PROVE  NotCloser(k, l, key)
<1> SUFFICES ASSUME NEW b \in Nat, NEW s \in Bits, Through(k, key, b, s)
             PROVE  Through(l, key, b, s)
  BY DEF NotCloser
<1>0. bit \in Nat /\ s \in Nat /\ Len(l) \in Nat /\ Len(k) \in Nat /\ Len(key) \in Nat
  BY Constants
<1>1. /\ b < Len(k) /\ b < Len(key) /\ k[b + 1][s] = key[b + 1][s]
      /\ \A j \in Nat : j < b => k[j + 1] = key[j + 1]
      /\ \A x \in Bits : x > s => k[b + 1][x] = key[b + 1][x]
  BY DEF Through, Agree
<1>2. /\ \A j \in Nat : j < byte => k[j + 1] = l[j + 1]
      /\ \A x \in Bits : x > bit => k[byte + 1][x] = l[byte + 1][x]
  BY DEF Agree
<1>3. b < byte \/ (b = byte /\ s > bit)
  BY <1>0, <1>1
<1>4. b < Len(l)
  BY <1>0, <1>3
<1>5. \A j \in Nat : j < b => l[j + 1] = key[j + 1]
  BY <1>1, <1>2, <1>3
<1>6. \A x \in Bits : x > s => l[b + 1][x] = key[b + 1][x]
  <2>1. CASE b < byte
    BY <1>1, <1>2, <2>1
  <2>2. CASE b = byte /\ s > bit
    <3>1. \A x \in Bits : x \in Nat
      BY Constants
    <3> QED BY <1>0, <1>1, <1>2, <2>2, <3>1
  <2> QED BY <1>3, <2>1, <2>2
<1>7. l[b + 1][s] = key[b + 1][s]
  BY <1>1, <1>2, <1>3
<1> QED BY <1>1, <1>4, <1>5, <1>6, <1>7 DEF Through, Agree

\* First descent of critnib_set: no key goes further with the new key.
LEMMA RelativeIs ==
    ASSUME NEW T, NEW K, NEW B, TreeOk(T, K, B), NEW key \in Keys, T.root # Null
    PROVE  Relative(T, key) \in K /\ \A k \in K : NotCloser(k, Relative(T, key), key)
<1>0. IsTree(T) /\ B \in [Addrs -> SUBSET Keys] /\ Cover(B, T.root) = K
  BY TreeFacts
<1>1. K \subseteq Keys
  BY <1>0, CoverType DEF IsTree
<1>2. PICK X \in SUBSET Fits(T, key) :
          X = {n \in NodesOf(T) : T.node[n].byte < Len(key) /\ Child(T, n, key) # Null}
  BY DEF Fits
<1>3. PICK I : I = {s \in States(T) :
                                     /\ At(T, s.parent) # Null
                                     /\ Cover(B, At(T, s.parent)) \subseteq K
                                     /\ \A k \in K, l \in Cover(B, At(T, s.parent)) :
                                          k \notin Cover(B, At(T, s.parent)) => NotCloser(k, l, key)}
  OBVIOUS
<1>4. ASSUME NEW n \in NodesOf(T), NEW k \in B[n], NEW l \in B[n],
             n \in Fits(T, key) => Slot(T, n, k) # Slot(T, n, key)
      PROVE  NotCloser(k, l, key)
  <2>1. PICK byte \in Nat, bit \in Bits : byte = T.node[n].byte /\ bit = T.node[n].bit
    BY TreeFacts
  <2>2. k \in Keys /\ l \in Keys /\ byte < Len(k) /\ byte < Len(l)
    BY <2>1, TreeFacts
  <2>3. Agree(k, l, byte, bit)
    BY <2>1 DEF TreeOk, NodeOk
  <2>4. Len(key) <= byte \/ k[byte + 1][bit] # key[byte + 1][bit]
    <3>1. CASE byte < Len(key)
      <4>1. n \in Fits(T, key)
        BY <2>1, <3>1 DEF Fits
      <4> QED BY <1>4, <2>1, <4>1 DEF Slot, slice_index
    <3>2. CASE ~(byte < Len(key))
      BY <3>2, Constants
    <3> QED BY <3>1, <3>2
  <2> QED BY <2>2, <2>3, <2>4, Leaves
<1>5. Keeps(T, key, X, I)
  <2>1. Start0 \in I
    <3>1. Start0 \in States(T) /\ Start0.parent = Top /\ Cover(B, At(T, Start0.parent)) = K
      BY StartState
    <3>2. At(T, Top) = T.root
      BY <1>0, PlaceFacts
    <3> QED BY <1>3, <3>1, <3>2
  <2>2. ASSUME NEW s \in I, At(T, s.parent) \in X
        PROVE  Below1(T, key, s) \in I
    <3>1. PICK n : n = At(T, s.parent) /\ n \in X /\ n \in Fits(T, key) /\ n \in NodesOf(T)
      BY <1>2, <2>2
    <3>2. s \in States(T)
      BY <1>3
    <3>3. /\ Below1(T, key, s) \in States(T) /\ Cover(B, At(T, s.parent)) = B[n]
          /\ Slot(T, n, key) \in Slots /\ Below1(T, key, s).parent = <<n, Slot(T, n, key)>>
          /\ Cover(B, At(T, Below1(T, key, s).parent)) = {k \in B[n] : Slot(T, n, k) = Slot(T, n, key)}
      BY <3>1, <3>2, NextCover
    <3>4. At(T, Below1(T, key, s).parent) # Null
      <4>1. At(T, <<n, Slot(T, n, key)>>) = Child(T, n, key)
        BY <1>0, <3>1, <3>3, PlaceFacts DEF Child
      <4>2. Child(T, n, key) # Null
        BY <1>2, <3>1
      <4> QED BY <3>3, <4>1, <4>2
    <3>5. PICK C : C = {k \in B[n] : Slot(T, n, k) = Slot(T, n, key)}
      OBVIOUS
    <3>6. ASSUME NEW k \in K, NEW l \in C, k \notin C PROVE NotCloser(k, l, key)
      <4>1. CASE k \in B[n]
        BY <1>4, <3>1, <3>5, <3>6, <4>1
      <4>2. CASE k \notin B[n]
        BY <1>3, <3>3, <3>5, <4>2
      <4> QED BY <4>1, <4>2
    <3>7. C \subseteq K
      BY <1>3, <3>3, <3>5
    <3> QED BY <1>3, <3>3, <3>4, <3>5, <3>6, <3>7
  <2> QED BY <2>1, <2>2 DEF Keeps
<1>6. PICK V : Route(T, key, X, Descend(T, key, X), V, I)
  BY <1>5, DescendTree
<1>7. PICK s \in I : s = Descend(T, key, X) /\ s \in States(T) /\ At(T, s.parent) \notin X
  BY <1>6 DEF Route
<1>8. PICK p \in Ptrs : /\ p = At(T, s.parent) /\ (p \in Addrs => p \in NodesOf(T)) /\ p # Null
                        /\ Cover(B, p) \subseteq K
                        /\ \A k \in K, l \in Cover(B, p) : k \notin Cover(B, p) => NotCloser(k, l, key)
  <2>1. s.parent \in Places(T)
    BY <1>7 DEF States
  <2>2. At(T, s.parent) \in Ptrs /\ (At(T, s.parent) \in Addrs => At(T, s.parent) \in NodesOf(T))
    BY <2>1, TreeFacts
  <2> QED BY <1>3, <2>2
<1>9. PICK nk : nk = Relative(T, key) /\ nk \in Cover(B, p)
  <2>1. Relative(T, key) = any_leaf(T, p)
    BY <1>2, <1>7, <1>8 DEF Relative
  <2>2. any_leaf(T, p) \in Cover(B, p)
    BY <1>8, AnyLeaf
  <2> QED BY <2>1, <2>2
<1>10. ASSUME NEW k \in K PROVE NotCloser(k, nk, key)
  <2>1. CASE k \notin Cover(B, p)
    BY <1>8, <1>9, <2>1
  <2>2. CASE k \in Cover(B, p) /\ p \in Keys
    <3>1. k = nk
      BY <1>0, <1>9, <2>2, CoverType
    <3> QED BY <3>1 DEF NotCloser
  <2>3. CASE k \in Cover(B, p) /\ p \in Addrs
    <3>1. p \in NodesOf(T) /\ k \in B[p] /\ nk \in B[p]
      BY <1>0, <1>8, <1>9, <2>3, CoverType
    <3>2. p \in Fits(T, key) => Slot(T, p, k) # Slot(T, p, key)
      <4> SUFFICES ASSUME p \in Fits(T, key), Slot(T, p, k) = Slot(T, p, key) PROVE FALSE
        OBVIOUS
      <4>1. Child(T, p, key) = Null
        BY <1>2, <1>7, <1>8, <3>1 DEF Fits
      <4>2. Slot(T, p, key) \in Slots
        BY <3>1, TreeFacts
      <4>3. At(T, <<p, Slot(T, p, key)>>) = Null
        BY <1>0, <3>1, <4>1, <4>2, PlaceFacts DEF Child
      <4>4. Cover(B, At(T, <<p, Slot(T, p, key)>>)) = {}
        BY <1>0, <4>3, CoverType
      <4>5. Cover(B, At(T, <<p, Slot(T, p, key)>>)) = {x \in B[p] : Slot(T, p, x) = Slot(T, p, key)}
        BY <3>1, <4>2, TreeFacts
      <4> QED BY <3>1, <4>4, <4>5
    <3> QED BY <1>4, <3>1, <3>2
  <2> QED BY <1>8, <2>1, <2>2, <2>3 DEF Ptrs
<1> QED BY <1>8, <1>9, <1>10

LEMMA DiffIs ==
    ASSUME NEW a \in Keys, NEW b \in Keys
    PROVE  /\ Diff(a, b) \in Nat /\ Diff(a, b) <= Len(a) /\ Diff(a, b) <= Len(b)
           /\ \A j \in Nat : j < Diff(a, b) => a[j + 1] = b[j + 1]
           /\ Diff(a, b) >= CommonLen(a, b) => Diff(a, b) = Len(a) \/ Diff(a, b) = Len(b)
           /\ Diff(a, b) < CommonLen(a, b) => /\ a[Diff(a, b) + 1] # b[Diff(a, b) + 1]
                                              /\ Diff(a, b) < Len(a) /\ Diff(a, b) < Len(b)
<1>1. PICK c \in Nat : c = CommonLen(a, b) /\ c <= Len(a) /\ c <= Len(b) /\ (c = Len(a) \/ c = Len(b))
  BY Constants DEF CommonLen
<1>2. PICK S : S = {i \in 0 .. c : i = c \/ a[i + 1] # b[i + 1]}
  OBVIOUS
<1>3. PICK i \in S : \A j \in S : i <= j
  <2>1. S \in SUBSET Nat /\ S # {}
    BY <1>2
  <2> QED BY <2>1, LeastIn
<1>4. /\ i \in 0 .. c /\ (\A j \in 0 .. i - 1 : a[j + 1] = b[j + 1])
      /\ (i = c \/ a[i + 1] # b[i + 1])
  <2>1. i \in 0 .. c /\ (i = c \/ a[i + 1] # b[i + 1])
    BY <1>2
  <2>2. ASSUME NEW j \in 0 .. i - 1 PROVE a[j + 1] = b[j + 1]
    <3>1. j \in 0 .. c /\ j # c /\ ~(i <= j)
      BY <2>1
    <3>2. j \notin S
      BY <1>3, <3>1
    <3> QED BY <1>2, <3>1, <3>2
  <2> QED BY <2>1, <2>2
<1> DEFINE P(d) == /\ \A j \in 0 .. d - 1 : a[j + 1] = b[j + 1]
                   /\ d = c \/ a[d + 1] # b[d + 1]
<1>5. PICK d : d = Diff(a, b)
  OBVIOUS
<1>6. d = CHOOSE x \in 0 .. c : P(x)
  BY <1>1, <1>5 DEF Diff
<1>7. P(i) /\ i \in 0 .. c
  BY <1>4
<1> HIDE DEF P
<1>8. P(d) /\ d \in 0 .. c
  BY <1>6, <1>7
<1> USE DEF P
<1>9. d \in Nat /\ d <= c /\ \A j \in Nat : j < d => j \in 0 .. d - 1
  BY <1>8
<1>10. \A j \in Nat : j < d => a[j + 1] = b[j + 1]
  BY <1>8, <1>9
<1>11. d >= c => d = c
  BY <1>9
<1>12. d < c => a[d + 1] # b[d + 1]
  BY <1>8, <1>9
<1>13. Len(a) \in Nat /\ Len(b) \in Nat
  BY Constants
<1> HIDE DEF P
<1> QED BY <1>1, <1>5, <1>9, <1>10, <1>11, <1>12, <1>13

LEMMA ShiftIs ==
    ASSUME NEW x \in Bytes, NEW y \in Bytes, x # y
    PROVE  /\ Shift(x, y) \in Bits /\ x[Shift(x, y)] # y[Shift(x, y)]
           /\ \A b \in Bits : b > Shift(x, y) => x[b] = y[b]
<1>1. PICK b0 \in Bits : x[b0] # y[b0]
  BY DEF Bytes
<1>2. PICK S : S = {z \in Nat : \E b \in Bits : x[b] # y[b] /\ z = SLICES - b}
  OBVIOUS
<1>3. S # {}
  <2>1. SLICES - b0 \in Nat
    BY Constants DEF Bits
  <2> QED BY <1>1, <1>2, <2>1
<1>4. PICK z \in S : \A w \in S : z <= w
  <2>1. S \in SUBSET Nat
    BY <1>2
  <2> QED BY <1>3, <2>1, LeastIn
<1>5. PICK h \in Bits : x[h] # y[h] /\ z = SLICES - h
  BY <1>2
<1>6. ASSUME NEW b \in Bits, b > h PROVE x[b] = y[b]
  <2> SUFFICES ASSUME x[b] # y[b] PROVE FALSE
    OBVIOUS
  <2>1. SLICES - b \in Nat
    BY Constants DEF Bits
  <2>2. SLICES - b \in S
    BY <1>2, <2>1
  <2>3. z <= SLICES - b
    BY <1>4, <2>2
  <2> QED BY <1>5, <1>6, <2>1, <2>3, Constants DEF Bits
<1> DEFINE P(bit) == x[bit] # y[bit] /\ \A b \in Bits : b > bit => x[b] = y[b]
<1>7. P(h)
  BY <1>5, <1>6
<1>8. Shift(x, y) = CHOOSE bit \in Bits : P(bit)
  BY DEF Shift
<1>9. P(Shift(x, y)) /\ Shift(x, y) \in Bits
  <2> HIDE DEF P
  <2> QED BY <1>7, <1>8
<1> QED BY <1>9

----------------------------------------------------------------------------
(* Changes of a tree *)

\* T2 is T with pointer ptr at place pl, and perhaps with a node added or removed.
Frame(T, T2, pl, ptr) ==
    /\ IsTree(T2) /\ pl \in Places(T) /\ pl \in Places(T2)
    /\ \A q \in Places(T) : q \in Places(T2) => At(T2, q) = IF q = pl THEN ptr ELSE At(T, q)
    /\ \A n \in NodesOf(T) : n \in NodesOf(T2) =>
          T2.node[n].byte = T.node[n].byte /\ T2.node[n].bit = T.node[n].bit

LEMMA FrameFacts ==
    ASSUME NEW T, NEW T2, NEW pl, NEW ptr, Frame(T, T2, pl, ptr)
    PROVE  /\ \A n \in NodesOf(T), k \in Keys : n \in NodesOf(T2) => Slot(T2, n, k) = Slot(T, n, k)
           /\ \A m, n \in NodesOf(T) : m \in NodesOf(T2) /\ n \in NodesOf(T2) =>
                 (Earlier(T2, m, n) <=> Earlier(T, m, n))
BY DEF Frame, Slot, Earlier

LEMMA WriteIs ==
    ASSUME NEW T, IsTree(T), NEW p \in Places(T), NEW ptr \in Ptrs
    PROVE  /\ Frame(T, Write(T, p, ptr), p, ptr)
           /\ NodesOf(Write(T, p, ptr)) = NodesOf(T) /\ Places(Write(T, p, ptr)) = Places(T)
<1>0. T = [root |-> T.root, node |-> T.node] /\ T.node \in [NodesOf(T) -> NodeType]
  BY DEF IsTree
<1>1. CASE p = Top
  <2>1. PICK T2 : T2 = Write(T, p, ptr)
    OBVIOUS
  <2>2. T2 = [root |-> ptr, node |-> T.node]
    BY <1>0, <1>1, <2>1 DEF Write
  <2>3. T2.root = ptr /\ T2.node = T.node
    BY <2>2
  <2>4. NodesOf(T2) = NodesOf(T)
    BY <2>3 DEF NodesOf
  <2>5. Places(T2) = Places(T) /\ IsTree(T2)
    BY <2>2, <2>3, <2>4 DEF Places, IsTree
  <2>6. \A q \in Places(T) : At(T2, q) = IF q = p THEN ptr ELSE At(T, q)
    BY <1>1, <2>3 DEF At
  <2> QED BY <2>1, <2>3, <2>4, <2>5, <2>6 DEF Frame
<1>2. CASE p # Top
  <2>1. PICK n \in NodesOf(T), i \in Slots : p = <<n, i>>
    BY <1>2, PlaceFacts
  <2>2. PICK T2 : T2 = Write(T, p, ptr)
    OBVIOUS
  <2>3. PICK N2 : N2 = [T.node EXCEPT ![n].child[i] = ptr]
    OBVIOUS
  <2>4. T2 = [root |-> T.root, node |-> N2]
    <3>1. p[1] = n /\ p[2] = i
      BY <2>1
    <3> QED BY <1>0, <1>2, <2>2, <2>3, <3>1 DEF Write
  <2>5. PICK nd \in NodeType : nd = T.node[n]
    BY <1>0
  <2>6. nd = [byte |-> nd.byte, bit |-> nd.bit, child |-> nd.child]
        /\ nd.child \in [Slots -> Ptrs] /\ nd.byte \in Nat /\ nd.bit \in Bits
    BY DEF NodeType
  <2>7. PICK nd2 : nd2 = [byte |-> nd.byte, bit |-> nd.bit, child |-> [nd.child EXCEPT ![i] = ptr]]
    OBVIOUS
  <2>8. nd2 \in NodeType /\ nd2.byte = nd.byte /\ nd2.bit = nd.bit
        /\ \A j \in Slots : nd2.child[j] = IF j = i THEN ptr ELSE nd.child[j]
    BY <2>6, <2>7 DEF NodeType
  <2>9. N2 = [T.node EXCEPT ![n] = nd2]
    BY <1>0, <2>3, <2>5, <2>6, <2>7
  <2>10. DOMAIN T.node = NodesOf(T)
    BY DEF NodesOf
  <2>11. /\ N2 \in [NodesOf(T) -> NodeType] /\ DOMAIN N2 = NodesOf(T) /\ N2[n] = nd2
         /\ \A m \in NodesOf(T) : m # n => N2[m] = T.node[m]
    BY <1>0, <2>8, <2>9, <2>10
  <2>12. T2.root = T.root /\ T2.node = N2
    BY <2>4
  <2>13. NodesOf(T2) = NodesOf(T)
    BY <2>11, <2>12 DEF NodesOf
  <2>14. Places(T2) = Places(T) /\ IsTree(T2)
    BY <2>4, <2>11, <2>12, <2>13 DEF Places, IsTree
  <2>15. \A m \in NodesOf(T) : T2.node[m].byte = T.node[m].byte /\ T2.node[m].bit = T.node[m].bit
    BY <2>5, <2>8, <2>11, <2>12
  <2>16. ASSUME NEW q \in Places(T) PROVE At(T2, q) = IF q = p THEN ptr ELSE At(T, q)
    <3>1. CASE q = Top
      BY <1>2, <2>12, <3>1 DEF At
    <3>2. CASE q # Top
      <4>1. PICK m \in NodesOf(T), j \in Slots : q = <<m, j>>
        BY <3>2, PlaceFacts
      <4>2. At(T2, q) = N2[m].child[j] /\ At(T, q) = T.node[m].child[j]
        BY <2>12, <3>2, <4>1 DEF At
      <4>3. q = p <=> (m = n /\ j = i)
        BY <2>1, <4>1
      <4>4. CASE m = n
        BY <2>5, <2>8, <2>11, <4>2, <4>3, <4>4
      <4>5. CASE m # n
        BY <2>11, <4>2, <4>3, <4>5
      <4> QED BY <4>4, <4>5
    <3> QED BY <3>1, <3>2
  <2> QED BY <2>2, <2>13, <2>14, <2>15, <2>16 DEF Frame
<1> QED BY <1>1, <1>2

LEMMA AddNodeIs ==
    ASSUME NEW T, IsTree(T), NEW a \in Addrs, a \notin NodesOf(T), NEW node \in NodeType,
           NEW T2, T2 = AddNode(T, a, node)
    PROVE  /\ IsTree(T2) /\ NodesOf(T2) = NodesOf(T) \cup {a} /\ T2.node[a] = node
           /\ Places(T2) = Places(T) \cup ({a} \X Slots)
           /\ \A q \in Places(T) : At(T2, q) = At(T, q)
           /\ \A i \in Slots : At(T2, <<a, i>>) = node.child[i]
           /\ \A n \in NodesOf(T) : T2.node[n] = T.node[n]
<1>0. T = [root |-> T.root, node |-> T.node] /\ T.node \in [NodesOf(T) -> NodeType]
  BY DEF IsTree
<1>1. PICK N2 : N2 = [b \in NodesOf(T) \cup {a} |-> IF b = a THEN node ELSE T.node[b]]
  OBVIOUS
<1>2. T2 = [root |-> T.root, node |-> N2]
  BY <1>0, <1>1 DEF AddNode
<1>3. T2.root = T.root /\ T2.node = N2
  BY <1>2
<1>4. /\ N2 \in [NodesOf(T) \cup {a} -> NodeType] /\ DOMAIN N2 = NodesOf(T) \cup {a} /\ N2[a] = node
      /\ \A n \in NodesOf(T) : N2[n] = T.node[n]
  BY <1>0, <1>1
<1>5. NodesOf(T2) = NodesOf(T) \cup {a}
  BY <1>3, <1>4 DEF NodesOf
<1>6. IsFiniteSet(NodesOf(T) \cup {a})
  BY FS_AddElement DEF IsTree
<1>7. IsTree(T2)
  BY <1>2, <1>3, <1>4, <1>5, <1>6 DEF IsTree
<1>8. Places(T2) = Places(T) \cup ({a} \X Slots)
  BY <1>5 DEF Places
<1>9. \A q \in Places(T) : At(T2, q) = At(T, q)
  <2> SUFFICES ASSUME NEW q \in Places(T) PROVE At(T2, q) = At(T, q)
    OBVIOUS
  <2>1. CASE q = Top
    BY <1>3, <2>1 DEF At
  <2>2. CASE q # Top
    <3>1. PICK m \in NodesOf(T), j \in Slots : q = <<m, j>>
      BY <2>2, PlaceFacts
    <3> QED BY <1>3, <1>4, <2>2, <3>1 DEF At
  <2> QED BY <2>1, <2>2
<1>10. \A i \in Slots : At(T2, <<a, i>>) = node.child[i]
  BY <1>3, <1>4, <1>5, <1>7, PlaceFacts
<1> QED BY <1>3, <1>4, <1>5, <1>7, <1>8, <1>9, <1>10

LEMMA RemoveNodeIs ==
    ASSUME NEW T, IsTree(T), NEW m \in NodesOf(T), NEW T2, T2 = RemoveNode(T, m)
    PROVE  /\ IsTree(T2) /\ NodesOf(T2) = NodesOf(T) \ {m}
           /\ Places(T2) = {q \in Places(T) : q[1] # m}
           /\ \A q \in Places(T2) : At(T2, q) = At(T, q)
           /\ \A n \in NodesOf(T2) : T2.node[n] = T.node[n]
<1>0. T = [root |-> T.root, node |-> T.node] /\ T.node \in [NodesOf(T) -> NodeType] /\ m # Null
  BY Constants DEF IsTree
<1>1. PICK N2 : N2 = [b \in NodesOf(T) \ {m} |-> T.node[b]]
  OBVIOUS
<1>2. T2 = [root |-> T.root, node |-> N2]
  BY <1>0, <1>1 DEF RemoveNode
<1>3. T2.root = T.root /\ T2.node = N2
  BY <1>2
<1>4. /\ N2 \in [NodesOf(T) \ {m} -> NodeType] /\ DOMAIN N2 = NodesOf(T) \ {m}
      /\ \A n \in NodesOf(T) \ {m} : N2[n] = T.node[n]
  BY <1>0, <1>1
<1>5. NodesOf(T2) = NodesOf(T) \ {m}
  BY <1>3, <1>4 DEF NodesOf
<1>6. IsFiniteSet(NodesOf(T) \ {m})
  BY FS_RemoveElement DEF IsTree
<1>7. IsTree(T2)
  BY <1>2, <1>3, <1>4, <1>5, <1>6 DEF IsTree
<1>8. Places(T2) = {q \in Places(T) : q[1] # m}
  BY <1>0, <1>5 DEF Places, Top
<1>9. \A q \in Places(T2) : At(T2, q) = At(T, q)
  <2> SUFFICES ASSUME NEW q \in Places(T2) PROVE At(T2, q) = At(T, q)
    OBVIOUS
  <2>1. CASE q = Top
    BY <1>3, <2>1 DEF At
  <2>2. CASE q # Top
    <3>1. PICK n \in NodesOf(T2), j \in Slots : q = <<n, j>>
      BY <1>7, <2>2, PlaceFacts
    <3> QED BY <1>3, <1>4, <1>5, <2>2, <3>1 DEF At
  <2> QED BY <2>1, <2>2
<1> QED BY <1>3, <1>4, <1>5, <1>7, <1>8, <1>9

\* The nodes V lead from the root along key to place pl.
Trunk(T, key, V, pl) ==
    /\ V \subseteq Fits(T, key) /\ pl \in Places(T)
    /\ \/ pl = Top /\ V = {}
       \/ T.root \in V /\ \E m \in V : pl = <<m, Slot(T, m, key)>>
    /\ \A n \in V : pl = <<n, Slot(T, n, key)>> \/ At(T, <<n, Slot(T, n, key)>>) \in V
    /\ \A n \in V : n = T.root \/ \E l \in V : n = At(T, <<l, Slot(T, l, key)>>)

LEMMA RouteTrunk ==
    ASSUME NEW T, NEW key, NEW X \in SUBSET Fits(T, key), NEW s, NEW V, NEW I, Route(T, key, X, s, V, I)
    PROVE  Trunk(T, key, V, s.parent)
<1>1. V \subseteq Fits(T, key) /\ s.parent \in Places(T)
  BY DEF Route, States
<1>2. CASE V = {}
  BY <1>1, <1>2 DEF Route, Trunk, Start0
<1>3. CASE V # {}
  BY <1>1, <1>3 DEF Route, Trunk
<1> QED BY <1>2, <1>3

\* The only places that point to nodes of the trunk are on the trunk.
LEMMA OffTrunk ==
    ASSUME NEW T, NEW K, NEW B, TreeOk(T, K, B), NEW key \in Keys, NEW V, NEW pl, Trunk(T, key, V, pl),
           NEW n \in NodesOf(T), NEW i \in Slots, n \in V => Slot(T, n, key) # i
    PROVE  <<n, i>> # pl /\ At(T, <<n, i>>) \notin V
<1>0. IsTree(T) /\ V \subseteq NodesOf(T) /\ \A v \in V : Slot(T, v, key) \in Slots
  <2>1. IsTree(T)
    BY TreeFacts
  <2>2. V \subseteq NodesOf(T) /\ \A v \in V : T.node[v].byte < Len(key)
    BY DEF Trunk, Fits
  <2> QED BY <2>1, <2>2, SlotType
<1>1. <<n, i>> \in Places(T) /\ <<n, i>> # Top /\ Top \in Places(T) /\ At(T, Top) = T.root
  BY <1>0, PlaceFacts
<1>2. <<n, i>> # pl
  BY <1>1 DEF Trunk
<1>3. ASSUME At(T, <<n, i>>) \in V PROVE FALSE
  <2>1. PICK v \in V : v = At(T, <<n, i>>) /\ v \in Addrs
    BY <1>0, <1>3, TreeFacts
  <2>2. \A p, q \in Places(T) : At(T, p) = At(T, q) /\ At(T, p) \in Addrs => p = q
    BY DEF TreeOk
  <2>3. v # T.root
    BY <1>1, <2>1, <2>2
  <2>4. PICK l \in V : v = At(T, <<l, Slot(T, l, key)>>)
    BY <2>3 DEF Trunk
  <2>5. <<l, Slot(T, l, key)>> \in Places(T)
    BY <1>0, PlaceFacts
  <2>6. <<n, i>> = <<l, Slot(T, l, key)>>
    BY <1>1, <2>1, <2>2, <2>4, <2>5
  <2> QED BY <2>6
<1> QED BY <1>2, <1>3

\* The keys below the nodes V gain P and lose M.
Regroups(T, B, V, P, M, B2) ==
    /\ B2 \in [Addrs -> SUBSET Keys]
    /\ \A n \in NodesOf(T) : B2[n] = IF n \in V THEN (B[n] \cup P) \ M ELSE B[n]

\* The keys below a node are split among its children.
Splits(T, T2, B2) ==
    \A n \in NodesOf(T), i \in Slots : n \in NodesOf(T2) =>
        Cover(B2, At(T2, <<n, i>>)) = {k \in B2[n] : Slot(T2, n, k) = i}

\* The pointer at the end of a trunk is replaced, and what it covers gains the
\* keys P and loses the keys M: so does everything on the trunk.
LEMMA Reroute ==
    ASSUME NEW T, NEW K, NEW B, TreeOk(T, K, B), NEW key \in Keys, NEW V, NEW pl, Trunk(T, key, V, pl),
           NEW T2, NEW ptr, Frame(T, T2, pl, ptr), NEW P \in SUBSET {key}, NEW M \in SUBSET {key},
           NEW B2, Regroups(T, B, V, P, M, B2),
           Cover(B2, ptr) = (Cover(B, At(T, pl)) \cup P) \ M
    PROVE  Splits(T, T2, B2) /\ Cover(B2, T2.root) = (K \cup P) \ M
<1> /\ B2 \in [Addrs -> SUBSET Keys]
    /\ \A n \in NodesOf(T) : n \in V => B2[n] = (B[n] \cup P) \ M
    /\ \A n \in NodesOf(T) : n \notin V => B2[n] = B[n]
  BY DEF Regroups
<1>0. IsTree(T) /\ B \in [Addrs -> SUBSET Keys] /\ IsTree(T2) /\ V \subseteq NodesOf(T)
  BY TreeFacts DEF Frame, Trunk, Fits
<1>1. ASSUME NEW p \in Ptrs, p \in Addrs => p \in NodesOf(T)
      PROVE  /\ p \in V => Cover(B2, p) = (Cover(B, p) \cup P) \ M
             /\ p \notin V => Cover(B2, p) = Cover(B, p)
  <2>1. CASE p \in Addrs
    <3>1. Cover(B2, p) = B2[p] /\ Cover(B, p) = B[p] /\ p \in NodesOf(T)
      BY <1>0, <1>1, <2>1, CoverType
    <3> QED BY <3>1
  <2>2. CASE p \notin Addrs
    <3>1. p \notin V
      BY <1>0, <2>2 DEF IsTree
    <3> QED BY <2>2, <3>1, Constants DEF Cover, Ptrs
  <2> QED BY <2>1, <2>2
<1>2. ASSUME NEW q \in Places(T), q \in Places(T2)
      PROVE  /\ q = pl \/ At(T, q) \in V => Cover(B2, At(T2, q)) = (Cover(B, At(T, q)) \cup P) \ M
             /\ q # pl /\ At(T, q) \notin V => Cover(B2, At(T2, q)) = Cover(B, At(T, q))
  <2>1. At(T2, q) = IF q = pl THEN ptr ELSE At(T, q)
    BY <1>2 DEF Frame
  <2>2. At(T, q) \in Ptrs /\ (At(T, q) \in Addrs => At(T, q) \in NodesOf(T))
    BY TreeFacts
  <2>3. CASE q = pl
    BY <2>1, <2>3
  <2>4. CASE q # pl
    BY <1>1, <2>1, <2>2, <2>4
  <2> QED BY <2>3, <2>4
<1>3. ASSUME NEW n \in NodesOf(T), NEW i \in Slots, n \in NodesOf(T2)
      PROVE  Cover(B2, At(T2, <<n, i>>)) = {k \in B2[n] : Slot(T2, n, k) = i}
  <2>1. <<n, i>> \in Places(T) /\ <<n, i>> \in Places(T2)
    BY <1>0, <1>3, PlaceFacts
  <2>2. \A k \in Keys : Slot(T2, n, k) = Slot(T, n, k)
    BY <1>3, FrameFacts
  <2>3. Cover(B, At(T, <<n, i>>)) = {k \in B[n] : Slot(T, n, k) = i}
    BY TreeFacts
  <2>4. B[n] \subseteq Keys /\ B2[n] \subseteq Keys
    BY <1>0 DEF IsTree
  <2>5. CASE n \in V /\ Slot(T, n, key) = i
    <3>1. <<n, i>> = pl \/ At(T, <<n, i>>) \in V
      BY <2>5 DEF Trunk
    <3>2. Cover(B2, At(T2, <<n, i>>)) = ({k \in B[n] : Slot(T, n, k) = i} \cup P) \ M
      BY <1>2, <2>1, <2>3, <3>1
    <3>3. B2[n] = (B[n] \cup P) \ M
      BY <2>5
    <3> QED BY <2>2, <2>4, <2>5, <3>2, <3>3
  <2>6. CASE ~(n \in V /\ Slot(T, n, key) = i)
    <3>1. <<n, i>> # pl /\ At(T, <<n, i>>) \notin V
      BY <2>6, OffTrunk
    <3>2. Cover(B2, At(T2, <<n, i>>)) = {k \in B[n] : Slot(T, n, k) = i}
      BY <1>2, <2>1, <2>3, <3>1
    <3>3. CASE n \in V
      <4>1. B2[n] = (B[n] \cup P) \ M /\ Slot(T, n, key) # i
        BY <2>6, <3>3
      <4> QED BY <2>2, <2>4, <3>2, <4>1
    <3>4. CASE n \notin V
      BY <2>2, <2>4, <3>2, <3>4
    <3> QED BY <3>3, <3>4
  <2> QED BY <2>5, <2>6
<1>4. Cover(B2, T2.root) = (K \cup P) \ M
  <2>1. Top \in Places(T) /\ At(T, Top) = T.root /\ Top \in Places(T2) /\ At(T2, Top) = T2.root
    BY <1>0, PlaceFacts
  <2>2. Top = pl \/ At(T, Top) \in V
    BY <2>1 DEF Trunk
  <2>3. Cover(B, T.root) = K
    BY TreeFacts
  <2> QED BY <1>2, <2>1, <2>2, <2>3
<1> QED BY <1>3, <1>4 DEF Splits

----------------------------------------------------------------------------
(* Insertion *)

LEMMA AgreeFacts ==
    ASSUME NEW k, NEW l, NEW m, NEW byte \in Nat, NEW bit \in Bits
    PROVE  /\ Agree(k, k, byte, bit)
           /\ Agree(k, l, byte, bit) => Agree(l, k, byte, bit)
           /\ Agree(k, l, byte, bit) /\ Agree(l, m, byte, bit) => Agree(k, m, byte, bit)
BY DEF Agree

LEMMA AgreeBefore ==
    ASSUME NEW k, NEW l, NEW byte \in Nat, NEW bit \in Bits, Agree(k, l, byte, bit),
           NEW b \in Nat, NEW s \in Bits, b < byte \/ (b = byte /\ s >= bit)
    PROVE  Agree(k, l, b, s) /\ (b < byte \/ s > bit => k[b + 1][s] = l[b + 1][s])
<1>0. \A x \in Bits : x \in Nat
  BY Constants
<1>1. /\ \A j \in Nat : j < byte => k[j + 1] = l[j + 1]
      /\ \A x \in Bits : x > bit => k[byte + 1][x] = l[byte + 1][x]
  BY DEF Agree
<1>2. \A j \in Nat : j < b => k[j + 1] = l[j + 1]
  BY <1>1
<1>3. CASE b < byte
  BY <1>1, <1>2, <1>3 DEF Agree
<1>4. CASE b = byte /\ s >= bit
  <2>1. \A x \in Bits : x > s => k[b + 1][x] = l[b + 1][x]
    BY <1>0, <1>1, <1>4
  <2> QED BY <1>0, <1>1, <1>2, <1>4, <2>1 DEF Agree
<1> QED BY <1>3, <1>4

\* The new key leaves nk, and all keys, at a slice.
Forks(K, key, nk, diff, sh) ==
    /\ nk \in K /\ diff \in Nat /\ sh \in Bits /\ diff < Len(nk) /\ diff < Len(key)
    /\ Agree(nk, key, diff, sh) /\ nk[diff + 1][sh] # key[diff + 1][sh]
    /\ \A k \in K : ~Through(k, key, diff, sh)

LEMMA ForkIs ==
    ASSUME NEW T, NEW K, NEW B, TreeOk(T, K, B), NEW key \in Keys, T.root # Null,
           NEW nk, nk = Relative(T, key), NEW diff, diff = Diff(nk, key)
    PROVE  /\ diff >= CommonLen(nk, key) <=> key \in K
           /\ diff < CommonLen(nk, key) => Forks(K, key, nk, diff, Shift(nk[diff + 1], key[diff + 1]))
           /\ diff \in Nat /\ CommonLen(nk, key) \in Nat
<1>1. nk \in K /\ \A k \in K : NotCloser(k, nk, key)
  BY RelativeIs
<1>2. nk \in Keys
  <2>1. IsTree(T) /\ B \in [Addrs -> SUBSET Keys] /\ Cover(B, T.root) = K
    BY TreeFacts
  <2> QED BY <1>1, <2>1, CoverType DEF IsTree
<1>3. /\ diff \in Nat /\ diff <= Len(nk) /\ diff <= Len(key)
      /\ \A j \in Nat : j < diff => nk[j + 1] = key[j + 1]
      /\ diff >= CommonLen(nk, key) => diff = Len(nk) \/ diff = Len(key)
      /\ diff < CommonLen(nk, key) => /\ nk[diff + 1] # key[diff + 1]
                                      /\ diff < Len(nk) /\ diff < Len(key)
  BY <1>2, DiffIs
<1>4. /\ nk \in Seq(Bytes) /\ key \in Seq(Bytes) /\ Len(nk) \in Nat /\ Len(key) \in Nat
      /\ Len(nk) > 0 /\ Len(key) > 0
      /\ (\A j \in 1 .. Len(nk) : nk[j] \in Bytes) /\ (\A j \in 1 .. Len(key) : key[j] \in Bytes)
      /\ (Len(nk) < Len(key) => \E j \in 1 .. Len(nk) : nk[j] # key[j])
      /\ (Len(key) < Len(nk) => \E j \in 1 .. Len(key) : key[j] # nk[j])
  BY <1>2, Constants
<1>5. CommonLen(nk, key) \in Nat
  BY <1>4 DEF CommonLen
<1>6. ASSUME diff >= CommonLen(nk, key) PROVE key \in K
  <2>1. diff = Len(nk) \/ diff = Len(key)
    BY <1>3, <1>6
  <2>2. ASSUME NEW j \in 1 .. diff PROVE nk[j] = key[j]
    <3>1. PICK i \in Nat : i + 1 = j /\ i < diff
      <4>1. j - 1 \in Nat /\ (j - 1) + 1 = j /\ j - 1 < diff
        BY <1>3
      <4> QED BY <4>1
    <3> QED BY <1>3, <3>1
  <2>3. ~(Len(nk) < Len(key)) /\ ~(Len(key) < Len(nk))
    BY <1>3, <1>4, <2>1, <2>2
  <2>4. Len(nk) = Len(key) /\ diff = Len(nk)
    BY <1>4, <2>1, <2>3
  <2>5. ASSUME NEW j \in 1 .. Len(nk) PROVE nk[j] = key[j]
    BY <2>2, <2>4
  <2>6. nk = key
    BY <1>4, <2>4, <2>5
  <2> QED BY <1>1, <2>6
<1>7. ASSUME diff < CommonLen(nk, key)
      PROVE  /\ Forks(K, key, nk, diff, Shift(nk[diff + 1], key[diff + 1]))
             /\ key \notin K
  <2>1. nk[diff + 1] \in Bytes /\ key[diff + 1] \in Bytes /\ nk[diff + 1] # key[diff + 1]
        /\ diff < Len(nk) /\ diff < Len(key)
    BY <1>3, <1>4, <1>7
  <2>2. PICK sh : sh = Shift(nk[diff + 1], key[diff + 1])
    OBVIOUS
  <2>3. /\ sh \in Bits /\ nk[diff + 1][sh] # key[diff + 1][sh]
        /\ \A b \in Bits : b > sh => nk[diff + 1][b] = key[diff + 1][b]
    BY <2>1, <2>2, ShiftIs
  <2>4. Agree(nk, key, diff, sh)
    BY <1>3, <2>3 DEF Agree
  <2>5. ~Through(nk, key, diff, sh)
    BY <2>3 DEF Through
  <2>6. \A k \in K : ~Through(k, key, diff, sh)
    BY <1>1, <1>3, <2>3, <2>5 DEF NotCloser
  <2>7. Through(key, key, diff, sh)
    BY <2>1 DEF Through, Agree
  <2>8. key \notin K
    BY <2>6, <2>7
  <2> QED BY <1>1, <1>3, <2>1, <2>2, <2>3, <2>4, <2>6, <2>8 DEF Forks
<1> QED BY <1>3, <1>5, <1>6, <1>7

\* The second descent of critnib_set.
LEMMA SecondDescent ==
    ASSUME NEW T, NEW K, NEW B, TreeOk(T, K, B), NEW key \in Keys,
           NEW nk, NEW diff, NEW sh, Forks(K, key, nk, diff, sh),
           NEW X, X = AboveFork(T, diff, sh), NEW pl, pl = Descend(T, key, X).parent
    PROVE  \E V : /\ Trunk(T, key, V, pl) /\ V \subseteq X /\ At(T, pl) \notin X
                  /\ At(T, pl) = Null \/ nk \in Cover(B, At(T, pl))
                  /\ \A n \in V : nk \in B[n]
<1>0. /\ nk \in K /\ diff \in Nat /\ sh \in Bits /\ diff < Len(nk) /\ diff < Len(key)
      /\ Agree(nk, key, diff, sh) /\ nk[diff + 1][sh] # key[diff + 1][sh]
      /\ \A k \in K : ~Through(k, key, diff, sh)
  BY DEF Forks
<1>1. IsTree(T) /\ B \in [Addrs -> SUBSET Keys]
  BY TreeFacts
<1>2. X \in SUBSET Fits(T, key)
  <2>1. \A n \in NodesOf(T) : T.node[n].byte \in Nat
    BY TreeFacts
  <2>2. Len(key) \in Nat
    BY Constants
  <2> QED BY <1>0, <2>1, <2>2 DEF AboveFork, Fits
<1>3. PICK I : I = {s \in States(T) :
                        /\ Cover(B, At(T, s.parent)) \subseteq K
                        /\ At(T, s.parent) = Null \/ nk \in Cover(B, At(T, s.parent))}
  OBVIOUS
<1>4. Keeps(T, key, X, I)
  <2>1. Start0 \in I
    BY <1>0, <1>3, StartState
  <2>2. ASSUME NEW s \in I, At(T, s.parent) \in X
        PROVE  Below1(T, key, s) \in I
    <3>1. PICK n : n = At(T, s.parent) /\ n \in X /\ n \in Fits(T, key) /\ n \in NodesOf(T)
      BY <1>2, <2>2 DEF Fits
    <3>2. s \in States(T)
      BY <1>3
    <3>3. /\ Below1(T, key, s) \in States(T) /\ Cover(B, At(T, s.parent)) = B[n]
          /\ Slot(T, n, key) \in Slots /\ Below1(T, key, s).parent = <<n, Slot(T, n, key)>>
          /\ Cover(B, At(T, Below1(T, key, s).parent)) = {k \in B[n] : Slot(T, n, k) = Slot(T, n, key)}
      BY <3>1, <3>2, NextCover
    <3>4. n # Null
      BY <3>1, TreeFacts
    <3>5. nk \in B[n] /\ B[n] \subseteq K
      <4>1. /\ Cover(B, At(T, s.parent)) \subseteq K
            /\ At(T, s.parent) = Null \/ nk \in Cover(B, At(T, s.parent))
        BY <1>3
      <4> QED BY <3>1, <3>3, <3>4, <4>1
    <3>6. PICK byte \in Nat, bit \in Bits : byte = T.node[n].byte /\ bit = T.node[n].bit
      BY <3>1, TreeFacts
    <3>7. bit \in Nat /\ sh \in Nat
      BY <1>0, Constants
    <3>8. byte < diff \/ (byte = diff /\ bit >= sh)
      BY <3>1, <3>6 DEF AboveFork
    <3>9. \A k : Slot(T, n, k) = k[byte + 1][bit]
      BY <3>6 DEF Slot, slice_index
    <3>10. CASE byte < diff \/ bit > sh
      <4>1. nk[byte + 1][bit] = key[byte + 1][bit]
        BY <1>0, <3>7, <3>8, <3>10 DEF Agree
      <4>2. nk \in {k \in B[n] : Slot(T, n, k) = Slot(T, n, key)}
        BY <3>5, <3>9, <4>1
      <4> QED BY <1>3, <3>3, <3>5, <4>2
    <3>11. CASE byte = diff /\ bit = sh
      <4>1. ASSUME NEW k \in B[n], Slot(T, n, k) = Slot(T, n, key) PROVE FALSE
        <5>1. k \in K /\ diff < Len(k)
          <6>1. \A l \in B[n] : T.node[n].byte < Len(l)
            BY <3>1, TreeFacts
          <6> QED BY <3>5, <3>6, <3>11, <6>1
        <5>2. Agree(k, nk, diff, sh)
          <6>1. NodeOk(T, B, n)
            BY <3>1 DEF TreeOk
          <6> QED BY <3>5, <3>6, <3>11, <6>1 DEF NodeOk
        <5>3. Agree(k, key, diff, sh)
          BY <1>0, <5>2, AgreeFacts
        <5>4. k[diff + 1][sh] = key[diff + 1][sh]
          BY <3>9, <3>11, <4>1
        <5> QED BY <1>0, <5>1, <5>3, <5>4 DEF Through
      <4>2. PICK p \in Ptrs : /\ p = At(T, Below1(T, key, s).parent) /\ Cover(B, p) = {}
                              /\ p \in Addrs => p \in NodesOf(T)
        <5>1. <<n, Slot(T, n, key)>> \in Places(T)
          BY <1>1, <3>1, <3>3, PlaceFacts
        <5> QED BY <3>3, <4>1, <5>1, TreeFacts
      <4>3. p = Null
        <5>1. p \notin Keys
          BY <1>1, <4>2, CoverType
        <5>2. p \notin Addrs
          BY <4>2, TreeFacts
        <5> QED BY <5>1, <5>2 DEF Ptrs
      <4> QED BY <1>3, <3>3, <4>2, <4>3
    <3> QED BY <3>7, <3>8, <3>10, <3>11
  <2> QED BY <2>1, <2>2 DEF Keeps
<1>5. PICK V : Route(T, key, X, Descend(T, key, X), V, I)
  BY <1>2, <1>4, DescendTree
<1>6. Trunk(T, key, V, pl)
  BY <1>2, <1>5, RouteTrunk
<1>7. V \subseteq X /\ At(T, pl) \notin X /\ (At(T, pl) = Null \/ nk \in Cover(B, At(T, pl)))
  BY <1>3, <1>5 DEF Route
<1>8. ASSUME NEW n \in V PROVE nk \in B[n]
  <2>1. n \in NodesOf(T)
    BY <1>2, <1>7 DEF Fits
  <2>2. PICK r \in I : At(T, r.parent) = n
    BY <1>5 DEF Route
  <2>3. n # Null /\ Cover(B, n) = B[n]
    BY <2>1, TreeFacts
  <2> QED BY <1>3, <2>2, <2>3
<1> QED BY <1>6, <1>7, <1>8

\* All keys below the nodes V agree with key up to there.
Suits(T, B, V, key) ==
    \A n \in V : \A k \in B[n] : Agree(k, key, T.node[n].byte, T.node[n].bit)

\* The nodes of the trunk gain the key, and the other ones stay as they are.
LEMMA GrowNodes ==
    ASSUME NEW T, NEW K, NEW B, TreeOk(T, K, B), NEW key \in Keys, NEW V, NEW pl, Trunk(T, key, V, pl),
           NEW T2, NEW ptr, Frame(T, T2, pl, ptr), NodesOf(T) \subseteq NodesOf(T2), ptr # Null,
           NEW B2 \in [Addrs -> SUBSET Keys],
           \A n \in NodesOf(T) : B2[n] = IF n \in V THEN B[n] \cup {key} ELSE B[n],
           Cover(B2, ptr) = Cover(B, At(T, pl)) \cup {key},
           Suits(T, B, V, key),
           ptr \in Addrs => ptr \in NodesOf(T2),
           ptr \in Addrs => \A m \in V : pl = <<m, Slot(T, m, key)>> => Earlier(T2, m, ptr)
    PROVE  (\A n \in NodesOf(T) : NodeOk(T2, B2, n)) /\ Cover(B2, T2.root) = K \cup {key}
<1>1. IsTree(T) /\ IsTree(T2)
  BY TreeFacts DEF Frame
<1>2. Splits(T, T2, B2) /\ Cover(B2, T2.root) = K \cup {key}
  <2>1. PICK P, M : P = {key} /\ M = {}
    OBVIOUS
  <2>2. P \in SUBSET {key} /\ M \in SUBSET {key}
    BY <2>1
  <2>3. Regroups(T, B, V, P, M, B2)
    BY <2>1 DEF Regroups
  <2>4. Cover(B2, ptr) = (Cover(B, At(T, pl)) \cup P) \ M
    BY <2>1
  <2>5. Splits(T, T2, B2) /\ Cover(B2, T2.root) = (K \cup P) \ M
    BY <2>2, <2>3, <2>4, Reroute
  <2> QED BY <2>1, <2>5
<1>3. ASSUME NEW n \in NodesOf(T) PROVE NodeOk(T2, B2, n)
  <2>1. NodeOk(T, B, n) /\ n \in NodesOf(T2)
    BY DEF TreeOk
  <2>2. PICK byte \in Nat, bit \in Bits : /\ byte = T.node[n].byte /\ bit = T.node[n].bit
                                         /\ byte = T2.node[n].byte /\ bit = T2.node[n].bit
    BY <2>1, TreeFacts DEF Frame
  <2>3. B2[n] # {}
    BY <2>1 DEF NodeOk
  <2>4. ASSUME n \in V PROVE byte < Len(key) /\ \A k \in B[n] : Agree(k, key, byte, bit)
    <3>1. T.node[n].byte < Len(key)
      BY <2>4 DEF Trunk, Fits
    <3>2. \A k \in B[n] : Agree(k, key, T.node[n].byte, T.node[n].bit)
      BY <2>4 DEF Suits
    <3> QED BY <2>2, <3>1, <3>2
  <2>5. \A k \in B2[n] : Len(k) > byte
    <3>1. \A k \in B[n] : Len(k) > byte
      BY <2>1, <2>2 DEF NodeOk
    <3>2. n \in V => Len(key) > byte
      BY <2>4, Constants
    <3> QED BY <3>1, <3>2
  <2>6. \A k, l \in B2[n] : Agree(k, l, byte, bit)
    <3>1. \A k, l \in B[n] : Agree(k, l, byte, bit)
      BY <2>1, <2>2 DEF NodeOk
    <3>2. \A k \in B[n] : Agree(k, key, byte, bit) => Agree(key, k, byte, bit)
      BY DEF Agree
    <3>3. Agree(key, key, byte, bit)
      BY DEF Agree
    <3>4. \A k \in B2[n] : k \in B[n] \/ (n \in V /\ k = key)
      OBVIOUS
    <3> SUFFICES ASSUME NEW k \in B2[n], NEW l \in B2[n] PROVE Agree(k, l, byte, bit)
      OBVIOUS
    <3> QED BY <2>4, <3>1, <3>2, <3>3, <3>4
  <2>7. ASSUME NEW i \in Slots
        PROVE  At(T2, <<n, i>>) = IF <<n, i>> = pl THEN ptr ELSE At(T, <<n, i>>)
    <3>1. <<n, i>> \in Places(T) /\ <<n, i>> \in Places(T2)
      BY <1>1, <2>1, PlaceFacts
    <3> QED BY <3>1 DEF Frame
  <2>8. ASSUME NEW i \in Slots, At(T2, <<n, i>>) \in Addrs
        PROVE  At(T2, <<n, i>>) \in NodesOf(T2) /\ Earlier(T2, n, At(T2, <<n, i>>))
    <3>1. CASE <<n, i>> = pl
      <4>1. At(T2, <<n, i>>) = ptr /\ ptr \in Addrs
        BY <2>7, <2>8, <3>1
      <4>2. n \in V /\ i = Slot(T, n, key)
        <5>1. <<n, i>> # Top
          BY <1>1, PlaceFacts
        <5>2. PICK m \in V : pl = <<m, Slot(T, m, key)>>
          BY <3>1, <5>1 DEF Trunk
        <5> QED BY <3>1, <5>2
      <4> QED BY <3>1, <4>1, <4>2
    <3>2. CASE <<n, i>> # pl
      <4>1. At(T2, <<n, i>>) = At(T, <<n, i>>)
        BY <2>7, <3>2
      <4>2. At(T, <<n, i>>) \in NodesOf(T) /\ Earlier(T, n, At(T, <<n, i>>))
        BY <2>1, <2>8, <4>1 DEF NodeOk
      <4> QED BY <2>1, <4>1, <4>2, FrameFacts
    <3> QED BY <3>1, <3>2
  <2>9. \E i, j \in Slots : i # j /\ At(T2, <<n, i>>) # Null /\ At(T2, <<n, j>>) # Null
    <3>1. PICK i \in Slots, j \in Slots : i # j /\ At(T, <<n, i>>) # Null /\ At(T, <<n, j>>) # Null
      BY <2>1 DEF NodeOk
    <3>2. At(T2, <<n, i>>) # Null /\ At(T2, <<n, j>>) # Null
      BY <2>7, <3>1
    <3> QED BY <3>1, <3>2
  <2>10. \A i \in Slots : Cover(B2, At(T2, <<n, i>>)) = {k \in B2[n] : Slot(T2, n, k) = i}
    BY <1>2, <2>1 DEF Splits
  <2>11. /\ \A k \in B2[n] : Len(k) > T2.node[n].byte
         /\ \A k, l \in B2[n] : Agree(k, l, T2.node[n].byte, T2.node[n].bit)
    BY <2>2, <2>5, <2>6
  <2> QED BY ONLY <2>3, <2>8, <2>9, <2>10, <2>11 DEF NodeOk
<1> QED BY <1>2, <1>3

\* All keys below the nodes of the trunk agree with the new one up to there.
LEMMA TrunkAgrees ==
    ASSUME NEW T, NEW K, NEW B, TreeOk(T, K, B), NEW key \in Keys,
           NEW nk, NEW diff, NEW sh, Forks(K, key, nk, diff, sh),
           NEW n \in AboveFork(T, diff, sh), nk \in B[n], NEW k \in B[n]
    PROVE  Agree(k, key, T.node[n].byte, T.node[n].bit)
<1>1. n \in NodesOf(T)
  BY DEF AboveFork
<1>2. PICK byte \in Nat, bit \in Bits : byte = T.node[n].byte /\ bit = T.node[n].bit
  BY <1>1, TreeFacts
<1>3. diff \in Nat /\ sh \in Bits /\ Agree(nk, key, diff, sh)
  BY DEF Forks
<1>4. byte < diff \/ (byte = diff /\ bit >= sh)
  BY <1>2 DEF AboveFork
<1>5. Agree(nk, key, byte, bit)
  BY <1>3, <1>4, AgreeBefore
<1>6. Agree(k, nk, byte, bit)
  <2>1. NodeOk(T, B, n)
    BY <1>1 DEF TreeOk
  <2> QED BY <1>2, <2>1 DEF NodeOk
<1>7. Agree(k, key, byte, bit)
  BY <1>5, <1>6, AgreeFacts
<1> QED BY <1>2, <1>7

\* A leaf is put where there was nothing.
LEMMA InsertLeaf ==
    ASSUME NEW T, NEW K, NEW B, TreeOk(T, K, B), NEW key \in Keys, NEW V, NEW pl, Trunk(T, key, V, pl),
           At(T, pl) = Null,
           Suits(T, B, V, key),
           NEW T2, T2 = Write(T, pl, key)
    PROVE  TreeOf(T2, K \cup {key}) /\ NodesOf(T2) = NodesOf(T)
<1>1. IsTree(T) /\ B \in [Addrs -> SUBSET Keys] /\ pl \in Places(T) /\ key \in Ptrs
  BY TreeFacts DEF Trunk, Ptrs
<1>2. Frame(T, T2, pl, key) /\ NodesOf(T2) = NodesOf(T) /\ Places(T2) = Places(T)
  BY <1>1, WriteIs
<1>3. PICK B2 : B2 = [x \in Addrs |-> IF x \in V THEN B[x] \cup {key} ELSE B[x]]
  OBVIOUS
<1>4. /\ B2 \in [Addrs -> SUBSET Keys]
      /\ \A n \in NodesOf(T) : B2[n] = IF n \in V THEN B[n] \cup {key} ELSE B[n]
  BY <1>1, <1>3 DEF IsTree
<1>5. Cover(B2, key) = Cover(B, At(T, pl)) \cup {key}
  BY <1>1, <1>4, CoverType
<1>6. key # Null /\ key \notin Addrs
  BY Constants
<1>7. (\A n \in NodesOf(T) : NodeOk(T2, B2, n)) /\ Cover(B2, T2.root) = K \cup {key}
  BY <1>2, <1>4, <1>5, <1>6, GrowNodes
<1>8. \A q \in Places(T2) : At(T2, q) = IF q = pl THEN key ELSE At(T, q)
  BY <1>2 DEF Frame
<1>9. IsTree(T2) /\ Top \in Places(T2) /\ At(T2, Top) = T2.root
  BY <1>2, PlaceFacts DEF Frame
<1>10. T2.root \in Addrs => T2.root \in NodesOf(T2)
  <2>1. At(T, Top) = T.root /\ (T.root \in Addrs => T.root \in NodesOf(T))
    BY <1>1, PlaceFacts DEF TreeOk
  <2> QED BY <1>2, <1>6, <1>8, <1>9, <2>1
<1>11. \A p, q \in Places(T2) : At(T2, p) = At(T2, q) /\ At(T2, p) \in Addrs => p = q
  <2>1. \A p, q \in Places(T) : At(T, p) = At(T, q) /\ At(T, p) \in Addrs => p = q
    BY DEF TreeOk
  <2> QED BY <1>2, <1>6, <1>8, <2>1
<1>12. ASSUME NEW n \in NodesOf(T2) PROVE \E p \in Places(T2) : At(T2, p) = n
  <2>1. PICK p \in Places(T) : At(T, p) = n
    BY <1>2 DEF TreeOk
  <2>2. n # Null
    BY <1>2, TreeFacts
  <2> QED BY <1>2, <1>8, <2>1, <2>2
<1>13. TreeOk(T2, K \cup {key}, B2)
  BY <1>2, <1>4, <1>7, <1>9, <1>10, <1>11, <1>12 DEF TreeOk
<1> QED BY <1>2, <1>13 DEF TreeOf

\* A node is put in the middle of an edge.
LEMMA InsertNode ==
    ASSUME NEW T, NEW K, NEW B, TreeOk(T, K, B), NEW key \in Keys,
           NEW nk, NEW diff, NEW sh, Forks(K, key, nk, diff, sh),
           NEW V, NEW pl, Trunk(T, key, V, pl), V \subseteq AboveFork(T, diff, sh),
           \A n \in V : nk \in B[n],
           NEW n0, n0 = At(T, pl), n0 # Null, n0 \notin AboveFork(T, diff, sh), nk \in Cover(B, n0),
           NEW a \in Addrs, a \notin NodesOf(T),
           NEW T2, T2 = AddNode(Write(T, pl, a), a, Fork(n0, key, nk, diff, sh))
    PROVE  TreeOf(T2, K \cup {key}) /\ NodesOf(T2) = NodesOf(T) \cup {a}
<1>0. /\ nk \in K /\ diff \in Nat /\ sh \in Bits /\ diff < Len(nk) /\ diff < Len(key)
      /\ Agree(nk, key, diff, sh) /\ nk[diff + 1][sh] # key[diff + 1][sh]
  BY DEF Forks
<1>1. /\ IsTree(T) /\ B \in [Addrs -> SUBSET Keys] /\ pl \in Places(T) /\ a \in Ptrs /\ a # Null
      /\ n0 \in Ptrs /\ (n0 \in Addrs => n0 \in NodesOf(T)) /\ V \subseteq NodesOf(T)
  BY TreeFacts, Constants DEF Trunk, Ptrs, Fits
<1>2. Cover(B, n0) \subseteq Keys /\ nk \in Keys /\ sh \in Nat
  BY <1>0, <1>1, CoverType, Constants
<1>3. PICK u \in Slots, v \in Slots : u = key[diff + 1][sh] /\ v = nk[diff + 1][sh] /\ u # v
  <2>1. \A k \in Keys : diff < Len(k) => k[diff + 1][sh] \in Slots
    <3> SUFFICES ASSUME NEW k \in Keys, diff < Len(k) PROVE k[diff + 1][sh] \in Slots
      OBVIOUS
    <3>1. k[diff + 1] \in Bytes
      BY <1>0, Constants
    <3> QED BY <1>0, <3>1 DEF Bytes
  <2> QED BY <1>0, <1>2, <2>1
<1>4. PICK F : F = Fork(n0, key, nk, diff, sh)
  OBVIOUS
<1>5. /\ F.byte = diff /\ F.bit = sh /\ F \in NodeType
      /\ \A i \in Slots : F.child[i] = IF i = u THEN key ELSE IF i = v THEN n0 ELSE Null
  <2>1. F = [byte |-> diff, bit |-> sh,
             child |-> [i \in Slots |-> IF i = u THEN key ELSE IF i = v THEN n0 ELSE Null]]
    BY <1>3, <1>4 DEF Fork, slice_index
  <2>2. key \in Ptrs /\ Null \in Ptrs
    BY DEF Ptrs
  <2> QED BY <1>0, <1>1, <2>1, <2>2 DEF NodeType
<1>6. PICK T1 : T1 = Write(T, pl, a)
  OBVIOUS
<1>7. Frame(T, T1, pl, a) /\ NodesOf(T1) = NodesOf(T) /\ Places(T1) = Places(T) /\ IsTree(T1)
  BY <1>1, <1>6, WriteIs DEF Frame
<1>8. /\ IsTree(T2) /\ NodesOf(T2) = NodesOf(T) \cup {a} /\ T2.node[a] = F
      /\ Places(T2) = Places(T) \cup ({a} \X Slots)
      /\ \A q \in Places(T) : At(T2, q) = At(T1, q)
      /\ \A i \in Slots : At(T2, <<a, i>>) = F.child[i]
      /\ \A n \in NodesOf(T) : T2.node[n] = T1.node[n]
  <2>1. a \notin NodesOf(T1) /\ T2 = AddNode(T1, a, F)
    BY <1>4, <1>6, <1>7
  <2>2. /\ IsTree(T2) /\ NodesOf(T2) = NodesOf(T1) \cup {a} /\ T2.node[a] = F
        /\ Places(T2) = Places(T1) \cup ({a} \X Slots)
        /\ \A q \in Places(T1) : At(T2, q) = At(T1, q)
        /\ \A i \in Slots : At(T2, <<a, i>>) = F.child[i]
        /\ \A n \in NodesOf(T1) : T2.node[n] = T1.node[n]
    BY <1>5, <1>7, <2>1, AddNodeIs
  <2> QED BY <1>7, <2>2
<1>9. Frame(T, T2, pl, a)
  BY <1>1, <1>7, <1>8 DEF Frame
<1>10. PICK B2 : B2 = [x \in Addrs |-> IF x = a THEN Cover(B, n0) \cup {key}
                                      ELSE IF x \in V THEN B[x] \cup {key} ELSE B[x]]
  OBVIOUS
<1>11. /\ B2 \in [Addrs -> SUBSET Keys] /\ B2[a] = Cover(B, n0) \cup {key}
       /\ \A n \in NodesOf(T) : B2[n] = IF n \in V THEN B[n] \cup {key} ELSE B[n]
  BY <1>1, <1>2, <1>10 DEF IsTree
<1>12. Cover(B2, a) = Cover(B, At(T, pl)) \cup {key}
  BY <1>11, CoverType
<1>13. ASSUME NEW m \in V, pl = <<m, Slot(T, m, key)>> PROVE Earlier(T2, m, a)
  <2>1. m \in NodesOf(T)
    BY <1>1
  <2>2. PICK byte \in Nat, bit \in Bits : byte = T.node[m].byte /\ bit = T.node[m].bit
    BY <2>1, TreeFacts
  <2>3. T2.node[m].byte = byte /\ T2.node[m].bit = bit
    BY <1>8, <1>9, <2>1, <2>2 DEF Frame
  <2>4. byte < diff \/ (byte = diff /\ bit >= sh)
    BY <2>2 DEF AboveFork
  <2>5. ~(byte = diff /\ bit = sh)
    <3>1. Slot(T, m, key) \in Slots
      BY <1>1, <2>1, SlotType DEF Trunk, Fits
    <3>2. Cover(B, At(T, pl)) = {k \in B[m] : Slot(T, m, k) = Slot(T, m, key)}
      BY <1>13, <2>1, <3>1, TreeFacts
    <3>3. Slot(T, m, nk) = Slot(T, m, key)
      BY <3>2
    <3> QED BY <1>0, <2>2, <3>3 DEF Slot, slice_index
  <2>6. bit \in Nat
    BY Constants
  <2> QED BY <1>2, <1>5, <1>8, <2>3, <2>4, <2>5, <2>6 DEF Earlier
<1>14. Suits(T, B, V, key)
  BY TrunkAgrees DEF Suits
<1>15. (\A n \in NodesOf(T) : NodeOk(T2, B2, n)) /\ Cover(B2, T2.root) = K \cup {key}
  <2>1. NodesOf(T) \subseteq NodesOf(T2) /\ (a \in Addrs => a \in NodesOf(T2))
    BY <1>8
  <2>2. a \in Addrs => \A m \in V : pl = <<m, Slot(T, m, key)>> => Earlier(T2, m, a)
    BY <1>13
  <2>3. a # Null /\ B2 \in [Addrs -> SUBSET Keys]
    BY <1>1, <1>11
  <2>4. \A n \in NodesOf(T) : B2[n] = IF n \in V THEN B[n] \cup {key} ELSE B[n]
    BY <1>11
  <2> QED BY ONLY TreeOk(T, K, B), key \in Keys, Trunk(T, key, V, pl), <1>9, <1>12, <1>14, <2>1,
                  <2>2, <2>3, <2>4, GrowNodes
<1>16. ASSUME NEW k \in Cover(B, n0)
       PROVE  diff < Len(k) /\ Agree(k, nk, diff, sh) /\ k[diff + 1][sh] = v
  <2>1. CASE n0 \in Keys
    <3>1. k = nk
      BY <1>1, <2>1, CoverType
    <3> QED BY <1>0, <1>3, <3>1 DEF Agree
  <2>2. CASE n0 \in Addrs
    <3>1. n0 \in NodesOf(T) /\ Cover(B, n0) = B[n0] /\ NodeOk(T, B, n0)
      BY <1>1, <2>2, CoverType DEF TreeOk
    <3>2. PICK byte \in Nat, bit \in Bits : byte = T.node[n0].byte /\ bit = T.node[n0].bit
      BY <3>1, TreeFacts
    <3>3. ~(byte < diff \/ (byte = diff /\ bit >= sh))
      BY <3>1, <3>2 DEF AboveFork
    <3>4. bit \in Nat /\ Len(k) \in Nat
      BY <1>2, Constants
    <3>5. diff < byte \/ (diff = byte /\ sh > bit)
      BY <1>0, <1>2, <3>3, <3>4
    <3>6. Agree(k, nk, byte, bit) /\ Len(k) > byte
      BY <3>1, <3>2 DEF NodeOk
    <3>7. diff < byte \/ (diff = byte /\ sh >= bit)
      BY <1>2, <3>4, <3>5
    <3>8. Agree(k, nk, diff, sh)
      BY <1>0, <3>6, <3>7, AgreeBefore
    <3>9. k[diff + 1][sh] = nk[diff + 1][sh]
      BY <1>0, <3>5, <3>6 DEF Agree
    <3> QED BY <1>0, <1>3, <3>4, <3>5, <3>6, <3>8, <3>9
  <2> QED BY <1>1, <2>1, <2>2 DEF Ptrs
<1>17. NodeOk(T2, B2, a)
  <2>1. B2[a] # {} /\ T2.node[a].byte = diff /\ T2.node[a].bit = sh
    BY <1>5, <1>8, <1>11
  <2>2. \A k \in B2[a] : Len(k) > diff
    <3>1. Len(key) \in Nat /\ \A k \in Cover(B, n0) : Len(k) \in Nat
      BY <1>2, Constants
    <3> QED BY <1>0, <1>11, <1>16, <3>1
  <2>3. \A k \in B2[a] : Agree(k, nk, diff, sh) /\ Agree(nk, k, diff, sh)
    <3>1. \A k \in Cover(B, n0) : Agree(k, nk, diff, sh) => Agree(nk, k, diff, sh)
      BY DEF Agree
    <3>2. Agree(key, nk, diff, sh)
      BY <1>0 DEF Agree
    <3> QED BY <1>0, <1>11, <1>16, <3>1, <3>2
  <2>4. \A k, l \in B2[a] : Agree(k, l, diff, sh)
    <3> SUFFICES ASSUME NEW k \in B2[a], NEW l \in B2[a] PROVE Agree(k, l, diff, sh)
      OBVIOUS
    <3>1. Agree(k, nk, diff, sh) /\ Agree(nk, l, diff, sh)
      BY <2>3
    <3> QED BY <1>0, <3>1, AgreeFacts
  <2>5. \A k : Slot(T2, a, k) = k[diff + 1][sh]
    BY <2>1 DEF Slot, slice_index
  <2>6. ASSUME NEW i \in Slots PROVE Cover(B2, At(T2, <<a, i>>)) = {k \in B2[a] : Slot(T2, a, k) = i}
    <3>1. At(T2, <<a, i>>) = IF i = u THEN key ELSE IF i = v THEN n0 ELSE Null
      BY <1>5, <1>8
    <3>2. \A k \in B2[a] : k[diff + 1][sh] = IF k \in Cover(B, n0) THEN v ELSE u
      BY <1>3, <1>11, <1>16
    <3>3. key \notin Cover(B, n0)
      BY <1>3, <1>16
    <3>4. CASE i = u
      <4>1. Cover(B2, key) = {key}
        BY <1>11, CoverType
      <4> QED BY <1>3, <1>11, <2>5, <3>1, <3>2, <3>3, <3>4, <4>1
    <3>5. CASE i = v
      <4>1. Cover(B2, n0) = Cover(B, n0)
        <5>1. CASE n0 \in Keys
          BY <1>1, <1>11, <5>1, CoverType
        <5>2. CASE n0 \in Addrs
          <6>1. n0 \in NodesOf(T) /\ n0 \notin V
            BY <1>1, <5>2
          <6> QED BY <1>1, <1>11, <5>2, <6>1, CoverType
        <5> QED BY <1>1, <5>1, <5>2 DEF Ptrs
      <4>2. At(T2, <<a, i>>) = n0
        BY <1>3, <3>1, <3>5
      <4> QED BY <1>3, <1>11, <2>5, <3>2, <3>3, <3>5, <4>1, <4>2
    <3>6. CASE i # u /\ i # v
      <4>1. Cover(B2, Null) = {}
        BY <1>11, CoverType
      <4> QED BY <1>11, <2>5, <3>1, <3>2, <3>6, <4>1
    <3> QED BY <3>4, <3>5, <3>6
  <2>7. ASSUME NEW i \in Slots, At(T2, <<a, i>>) \in Addrs
        PROVE  At(T2, <<a, i>>) \in NodesOf(T2) /\ Earlier(T2, a, At(T2, <<a, i>>))
    <3>1. At(T2, <<a, i>>) = n0 /\ n0 \in NodesOf(T)
      BY <1>1, <1>5, <1>8, <2>7, Constants
    <3>2. PICK byte \in Nat, bit \in Bits : byte = T.node[n0].byte /\ bit = T.node[n0].bit
      BY <3>1, TreeFacts
    <3>3. ~(byte < diff \/ (byte = diff /\ bit >= sh))
      BY <3>1, <3>2 DEF AboveFork
    <3>4. bit \in Nat
      BY Constants
    <3>5. T2.node[n0].byte = byte /\ T2.node[n0].bit = bit
      BY <1>8, <1>9, <3>1, <3>2 DEF Frame
    <3> QED BY <1>0, <1>2, <1>8, <2>1, <3>1, <3>3, <3>4, <3>5 DEF Earlier
  <2>8. \E i, j \in Slots : i # j /\ At(T2, <<a, i>>) # Null /\ At(T2, <<a, j>>) # Null
    <3>1. At(T2, <<a, u>>) = key /\ At(T2, <<a, v>>) = n0 /\ key # Null
      BY <1>3, <1>5, <1>8, Constants
    <3> QED BY <1>3, <3>1
  <2> QED BY <2>1, <2>2, <2>4, <2>6, <2>7, <2>8 DEF NodeOk
<1>18. \A q \in Places(T) : At(T2, q) = IF q = pl THEN a ELSE At(T, q)
  BY <1>8, <1>9 DEF Frame
<1>19. T2.root \in Addrs => T2.root \in NodesOf(T2)
  <2>1. /\ At(T, Top) = T.root /\ (T.root \in Addrs => T.root \in NodesOf(T)) /\ Top \in Places(T)
        /\ At(T2, Top) = T2.root
    BY <1>1, <1>8, PlaceFacts DEF TreeOk
  <2> QED BY <1>8, <1>18, <2>1
<1>20. \A q \in Places(T2) : q \in Places(T) \/ \E i \in Slots : q = <<a, i>>
  BY <1>8
<1>21. \A i \in Slots : At(T2, <<a, i>>) \in Addrs => i = v /\ At(T2, <<a, i>>) = n0
  BY <1>5, <1>8, Constants
<1>22. \A p, q \in Places(T) : At(T, p) = At(T, q) /\ At(T, p) \in Addrs => p = q
  BY DEF TreeOk
<1>23. \A p \in Places(T) : At(T, p) # a
  BY TreeFacts
<1>24. \A p \in Places(T) : At(T2, p) = n0 /\ n0 \in Addrs => FALSE
  BY <1>1, <1>18, <1>22
<1>25. ASSUME NEW p \in Places(T2), NEW q \in Places(T2), At(T2, p) = At(T2, q), At(T2, p) \in Addrs
       PROVE  p = q
  <2>1. CASE p \in Places(T) /\ q \in Places(T)
    BY <1>18, <1>22, <1>23, <1>25, <2>1
  <2>2. CASE p \in Places(T) /\ q \notin Places(T)
    <3>1. PICK i \in Slots : q = <<a, i>>
      BY <1>20, <2>2
    <3> QED BY <1>21, <1>24, <1>25, <2>2, <3>1
  <2>3. CASE p \notin Places(T) /\ q \in Places(T)
    <3>1. PICK i \in Slots : p = <<a, i>>
      BY <1>20, <2>3
    <3> QED BY <1>21, <1>24, <1>25, <2>3, <3>1
  <2>4. CASE p \notin Places(T) /\ q \notin Places(T)
    <3>1. PICK i \in Slots, j \in Slots : p = <<a, i>> /\ q = <<a, j>>
      BY <1>20, <2>4
    <3>2. i = v /\ j = v
      BY <1>21, <1>25, <3>1
    <3> QED BY <3>1, <3>2
  <2> QED BY <2>1, <2>2, <2>3, <2>4
<1>26. ASSUME NEW n \in NodesOf(T2) PROVE \E p \in Places(T2) : At(T2, p) = n
  <2>1. CASE n = a
    BY <1>1, <1>8, <1>18, <2>1
  <2>2. CASE n = n0 /\ n # a
    <3>1. <<a, v>> \in Places(T2) /\ At(T2, <<a, v>>) = n0
      BY <1>3, <1>5, <1>8
    <3> QED BY <2>2, <3>1
  <2>3. CASE n # n0 /\ n # a
    <3>1. PICK p \in Places(T) : At(T, p) = n
      BY <1>8, <2>3 DEF TreeOk
    <3> QED BY <1>8, <1>18, <2>3, <3>1
  <2> QED BY <2>1, <2>2, <2>3
<1>27. TreeOk(T2, K \cup {key}, B2)
  <2>1. \A n \in NodesOf(T2) : NodeOk(T2, B2, n)
    BY <1>8, <1>15, <1>17
  <2> QED BY <1>8, <1>11, <1>15, <1>19, <1>25, <1>26, <2>1 DEF TreeOk
<1> QED BY <1>8, <1>27 DEF TreeOf

\* What critnib_set returns and does.
SetDone(T, K, key, r) ==
    /\ r.err \in {"0", "EEXIST", "ENOMEM"} /\ (r.err = "EEXIST" <=> key \in K)
    /\ r.err = "0" => /\ TreeOf(r.tree, K \cup {key})
                      /\ \/ r.nodes = 0 /\ NodesOf(r.tree) = NodesOf(T)
                         \/ /\ r.nodes = 1
                            /\ \E a \in Addrs : a \notin NodesOf(T) /\ NodesOf(r.tree) = NodesOf(T) \cup {a}

\* An insertion adds the key, unless it is there or there is no memory.
LEMMA SetOk ==
    ASSUME NEW T, NEW K, NEW B, TreeOk(T, K, B), NEW key \in Keys,
           NEW a \in {Null} \cup (Addrs \ NodesOf(T))
    PROVE  SetDone(T, K, key, critnib_set(T, key, a))
<1>1. IsTree(T) /\ B \in [Addrs -> SUBSET Keys] /\ Cover(B, T.root) = K
  BY TreeFacts
<1>2. Top \in Places(T) /\ At(T, Top) = T.root
  BY <1>1, PlaceFacts
<1>3. CASE T.root = Null
  <2>1. K = {}
    BY <1>1, <1>3, CoverType
  <2>2. PICK pl, T2, V : pl = Top /\ T2 = Write(T, pl, key) /\ V = {}
    OBVIOUS
  <2>3. Trunk(T, key, V, pl) /\ At(T, pl) = Null
    BY <1>2, <1>3, <2>2 DEF Trunk
  <2>4. Suits(T, B, V, key)
    BY <2>2 DEF Suits
  <2>5. TreeOf(T2, K \cup {key}) /\ NodesOf(T2) = NodesOf(T)
    BY <2>2, <2>3, <2>4, InsertLeaf
  <2>6. critnib_set(T, key, a) = [err |-> "0", tree |-> T2, nodes |-> 0]
    BY <1>3, <2>2 DEF critnib_set, Write
  <2> QED BY <2>1, <2>5, <2>6 DEF SetDone
<1>4. CASE T.root # Null
  <2>1. PICK nk, diff : nk = Relative(T, key) /\ diff = Diff(nk, key)
    OBVIOUS
  <2>2. /\ diff >= CommonLen(nk, key) <=> key \in K
        /\ diff < CommonLen(nk, key) => Forks(K, key, nk, diff, Shift(nk[diff + 1], key[diff + 1]))
        /\ diff \in Nat /\ CommonLen(nk, key) \in Nat
    BY <1>4, <2>1, ForkIs
  <2>3. CASE diff >= CommonLen(nk, key)
    <3>1. critnib_set(T, key, a) = [err |-> "EEXIST", tree |-> T, nodes |-> 0]
      BY <1>4, <2>1, <2>3 DEF critnib_set
    <3> QED BY <2>2, <2>3, <3>1 DEF SetDone
  <2>4. CASE ~(diff >= CommonLen(nk, key))
    <3>1. PICK sh : sh = Shift(nk[diff + 1], key[diff + 1])
      OBVIOUS
    <3>2. Forks(K, key, nk, diff, sh) /\ key \notin K
      BY <2>2, <2>4, <3>1
    <3>3. PICK X, pl : X = AboveFork(T, diff, sh) /\ pl = Descend(T, key, X).parent
      OBVIOUS
    <3>4. PICK V : /\ Trunk(T, key, V, pl) /\ V \subseteq X /\ At(T, pl) \notin X
                   /\ (At(T, pl) = Null \/ nk \in Cover(B, At(T, pl)))
                   /\ (\A n \in V : nk \in B[n])
      BY <3>2, <3>3, SecondDescent
    <3>5. PICK n0 : n0 = At(T, pl)
      OBVIOUS
    <3>6. CASE n0 = Null
      <4>1. Suits(T, B, V, key)
        BY <3>2, <3>3, <3>4, TrunkAgrees DEF Suits
      <4>2. PICK T2 : T2 = Write(T, pl, key)
        OBVIOUS
      <4>3. TreeOf(T2, K \cup {key}) /\ NodesOf(T2) = NodesOf(T)
        <5>1. Trunk(T, key, V, pl) /\ At(T, pl) = Null
          BY <3>4, <3>5, <3>6
        <5> QED BY <4>1, <4>2, <5>1, InsertLeaf
      <4>4. critnib_set(T, key, a) = [err |-> "0", tree |-> T2, nodes |-> 0]
        BY <1>4, <2>1, <2>4, <3>1, <3>3, <3>5, <3>6, <4>2 DEF critnib_set
      <4> QED BY <3>2, <4>3, <4>4 DEF SetDone
    <3>7. CASE n0 # Null /\ a = Null
      <4>1. critnib_set(T, key, a) = [err |-> "ENOMEM", tree |-> T, nodes |-> 0]
        BY <1>4, <2>1, <2>4, <3>1, <3>3, <3>5, <3>7 DEF critnib_set
      <4> QED BY <3>2, <4>1 DEF SetDone
    <3>8. CASE n0 # Null /\ a # Null
      <4>1. PICK T2 : T2 = AddNode(Write(T, pl, a), a, Fork(n0, key, nk, diff, sh))
        OBVIOUS
      <4>2. a \in Addrs /\ a \notin NodesOf(T)
        BY <3>8
      <4>3. TreeOf(T2, K \cup {key}) /\ NodesOf(T2) = NodesOf(T) \cup {a}
        BY <3>2, <3>3, <3>4, <3>5, <3>8, <4>1, <4>2, InsertNode
      <4>4. critnib_set(T, key, a) = [err |-> "0", tree |-> T2, nodes |-> 1]
        BY <1>4, <2>1, <2>4, <3>1, <3>3, <3>5, <3>8, <4>1 DEF critnib_set
      <4> QED BY <3>2, <4>2, <4>3, <4>4 DEF SetDone
    <3> QED BY <3>6, <3>7, <3>8
  <2> QED BY <2>3, <2>4
<1> QED BY <1>3, <1>4

----------------------------------------------------------------------------
(* Removal *)

\* A node has keys below that do not go where key goes.
LEMMA OtherKey ==
    ASSUME NEW T, NEW K, NEW B, TreeOk(T, K, B), NEW n \in NodesOf(T), NEW u
    PROVE  \E k \in B[n] : Slot(T, n, k) # u /\ Slot(T, n, k) \in Slots
<1>1. NodeOk(T, B, n) /\ IsTree(T) /\ B \in [Addrs -> SUBSET Keys]
  BY TreeFacts DEF TreeOk
<1>2. PICK i \in Slots : i # u /\ At(T, <<n, i>>) # Null
  BY <1>1 DEF NodeOk
<1>3. PICK p \in Ptrs : p = At(T, <<n, i>>) /\ p # Null /\ (p \in Addrs => p \in NodesOf(T))
  <2>1. <<n, i>> \in Places(T)
    BY <1>1, PlaceFacts
  <2> QED BY <1>2, <2>1, TreeFacts
<1>4. Cover(B, p) # {}
  <2>1. CASE p \in Keys
    BY <1>1, <2>1, CoverType
  <2>2. CASE p \in Addrs
    BY <1>3, <2>2, TreeFacts
  <2> QED BY <1>3, <2>1, <2>2 DEF Ptrs
<1>5. Cover(B, p) = {k \in B[n] : Slot(T, n, k) = i}
  BY <1>3, TreeFacts
<1> QED BY <1>2, <1>4, <1>5

\* Every pointer to a node leads to a node that is there.
Linked(T) == \A q \in Places(T) : At(T, q) \in Addrs => At(T, q) \in NodesOf(T)

Branches(T, n) == \E i, j \in Slots : i # j /\ At(T, <<n, i>>) # Null /\ At(T, <<n, j>>) # Null

\* The nodes of the trunk lose the key, and the other ones stay as they are.
LEMMA ShrinkNodes ==
    ASSUME NEW T, NEW K, NEW B, TreeOk(T, K, B), NEW key \in Keys, NEW V, NEW pl, Trunk(T, key, V, pl),
           NEW T2, NEW ptr, Frame(T, T2, pl, ptr), NodesOf(T2) \subseteq NodesOf(T),
           NEW B2, Regroups(T, B, V, {}, {key}, B2), Cover(B2, ptr) = Cover(B, At(T, pl)) \ {key},
           Linked(T2), \A n \in NodesOf(T2) : Branches(T2, n),
           ptr \in Addrs => \A m \in V : pl = <<m, Slot(T, m, key)>> => Earlier(T2, m, ptr)
    PROVE  (\A n \in NodesOf(T2) : NodeOk(T2, B2, n)) /\ Cover(B2, T2.root) = K \ {key}
<1>1. IsTree(T) /\ IsTree(T2)
  BY TreeFacts DEF Frame
<1>2. Splits(T, T2, B2) /\ Cover(B2, T2.root) = K \ {key}
  <2>1. PICK P, M : P = {} /\ M = {key}
    OBVIOUS
  <2>2. P \in SUBSET {key} /\ M \in SUBSET {key} /\ Regroups(T, B, V, P, M, B2)
    BY <2>1
  <2>3. Cover(B2, ptr) = (Cover(B, At(T, pl)) \cup P) \ M
    BY <2>1
  <2>4. Splits(T, T2, B2) /\ Cover(B2, T2.root) = (K \cup P) \ M
    BY <2>2, <2>3, Reroute
  <2> QED BY <2>1, <2>4
<1>3. ASSUME NEW n \in NodesOf(T2) PROVE NodeOk(T2, B2, n)
  <2>1. NodeOk(T, B, n) /\ n \in NodesOf(T)
    BY DEF TreeOk
  <2>2. PICK byte \in Nat, bit \in Bits : (byte = T.node[n].byte /\ bit = T.node[n].bit)
                                         /\ (byte = T2.node[n].byte /\ bit = T2.node[n].bit)
    BY <2>1, TreeFacts DEF Frame
  <2>3. B2[n] = (IF n \in V THEN B[n] \ {key} ELSE B[n])
    BY <2>1 DEF Regroups
  <2>4. B2[n] # {}
    <3>1. PICK k \in B[n] : Slot(T, n, k) # Slot(T, n, key)
      BY <2>1, OtherKey
    <3> QED BY <2>3, <3>1
  <2>5. /\ \A k \in B2[n] : Len(k) > T2.node[n].byte
        /\ \A k, l \in B2[n] : Agree(k, l, T2.node[n].byte, T2.node[n].bit)
    <3>1. /\ \A k \in B[n] : Len(k) > byte
          /\ \A k, l \in B[n] : Agree(k, l, byte, bit)
      BY <2>1, <2>2 DEF NodeOk
    <3>2. B2[n] \subseteq B[n]
      BY <2>3
    <3> QED BY <2>2, <3>1, <3>2
  <2>6. ASSUME NEW i \in Slots, At(T2, <<n, i>>) \in Addrs
        PROVE  At(T2, <<n, i>>) \in NodesOf(T2) /\ Earlier(T2, n, At(T2, <<n, i>>))
    <3>1. <<n, i>> \in Places(T) /\ <<n, i>> \in Places(T2) /\ <<n, i>> # Top
      BY <1>1, <2>1, PlaceFacts
    <3>2. At(T2, <<n, i>>) = IF <<n, i>> = pl THEN ptr ELSE At(T, <<n, i>>)
      BY <3>1 DEF Frame
    <3>3. At(T2, <<n, i>>) \in NodesOf(T2)
      BY <2>6, <3>1 DEF Linked
    <3>4. CASE <<n, i>> = pl
      <4>1. PICK m \in V : pl = <<m, Slot(T, m, key)>>
        BY <3>1, <3>4 DEF Trunk
      <4>2. m = n
        BY <3>4, <4>1
      <4> QED BY <2>6, <3>2, <3>3, <3>4, <4>1, <4>2
    <3>5. CASE <<n, i>> # pl
      <4>1. At(T2, <<n, i>>) = At(T, <<n, i>>)
        BY <3>2, <3>5
      <4>2. At(T, <<n, i>>) \in NodesOf(T) /\ Earlier(T, n, At(T, <<n, i>>))
        BY <2>1, <2>6, <4>1 DEF NodeOk
      <4> QED BY <2>1, <3>3, <4>1, <4>2, FrameFacts
    <3> QED BY <3>4, <3>5
  <2>7. \A i \in Slots : Cover(B2, At(T2, <<n, i>>)) = {k \in B2[n] : Slot(T2, n, k) = i}
    BY <1>2, <2>1 DEF Splits
  <2>8. \E i, j \in Slots : i # j /\ At(T2, <<n, i>>) # Null /\ At(T2, <<n, j>>) # Null
    BY DEF Branches
  <2> QED BY ONLY <2>4, <2>5, <2>6, <2>7, <2>8 DEF NodeOk
<1> QED BY <1>2, <1>3

\* The leaf of the key is taken away, and its node keeps two children.
LEMMA RemoveLeaf ==
    ASSUME NEW T, NEW K, NEW B, TreeOk(T, K, B), NEW key \in Keys, NEW V, NEW pl, Trunk(T, key, V, pl),
           At(T, pl) = key, NEW T2, T2 = Write(T, pl, Null), \A n \in NodesOf(T) : Branches(T2, n)
    PROVE  TreeOf(T2, K \ {key}) /\ NodesOf(T2) = NodesOf(T)
<1>1. IsTree(T) /\ B \in [Addrs -> SUBSET Keys] /\ pl \in Places(T) /\ Null \in Ptrs
  BY TreeFacts DEF Trunk, Ptrs
<1>2. Frame(T, T2, pl, Null) /\ NodesOf(T2) = NodesOf(T) /\ Places(T2) = Places(T)
  BY <1>1, WriteIs
<1>3. PICK B2 : B2 = [x \in Addrs |-> IF x \in V THEN B[x] \ {key} ELSE B[x]]
  OBVIOUS
<1>4. Regroups(T, B, V, {}, {key}, B2) /\ B2 \in [Addrs -> SUBSET Keys]
  BY <1>1, <1>3 DEF IsTree, Regroups
<1>5. Cover(B2, Null) = Cover(B, At(T, pl)) \ {key}
  BY <1>1, <1>4, CoverType
<1>6. key # Null /\ key \notin Addrs /\ Null \notin Addrs
  BY Constants
<1>7. \A q \in Places(T2) : At(T2, q) = IF q = pl THEN Null ELSE At(T, q)
  BY <1>2 DEF Frame
<1>8. Linked(T2)
  BY <1>2, <1>6, <1>7, TreeFacts DEF Linked
<1>9. (\A n \in NodesOf(T2) : NodeOk(T2, B2, n)) /\ Cover(B2, T2.root) = K \ {key}
  BY <1>2, <1>4, <1>5, <1>6, <1>8, ShrinkNodes
<1>10. IsTree(T2) /\ (T2.root \in Addrs => T2.root \in NodesOf(T2))
  <2>1. IsTree(T2)
    BY <1>2 DEF Frame
  <2>2. Top \in Places(T2) /\ At(T2, Top) = T2.root
    BY <2>1, PlaceFacts
  <2> QED BY <1>8, <2>1, <2>2 DEF Linked
<1>11. \A p, q \in Places(T2) : At(T2, p) = At(T2, q) /\ At(T2, p) \in Addrs => p = q
  <2>1. \A p, q \in Places(T) : At(T, p) = At(T, q) /\ At(T, p) \in Addrs => p = q
    BY DEF TreeOk
  <2> QED BY <1>2, <1>6, <1>7, <2>1
<1>12. ASSUME NEW n \in NodesOf(T2) PROVE \E p \in Places(T2) : At(T2, p) = n
  <2>1. PICK p \in Places(T) : At(T, p) = n
    BY <1>2 DEF TreeOk
  <2>2. n # key
    BY <1>2, TreeFacts
  <2> QED BY <1>2, <1>7, <2>1, <2>2
<1>13. TreeOk(T2, K \ {key}, B2)
  BY <1>4, <1>9, <1>10, <1>11, <1>12 DEF TreeOk
<1> QED BY <1>2, <1>13 DEF TreeOf

\* The node of the leaf has one other child j, which takes its place.
LEMMA RemoveFork ==
    ASSUME NEW T, NEW K, NEW B, TreeOk(T, K, B), NEW key \in Keys, NEW V, NEW pl, Trunk(T, key, V, pl),
           At(T, pl) = key, NEW m \in V, pl = <<m, Slot(T, m, key)>>,
           NEW pp \in Places(T), At(T, pp) = m,
           \/ pp = Top /\ V = {m}
           \/ \E n \in V : n # m /\ pp = <<n, Slot(T, n, key)>>,
           \A n \in V : n # m => At(T, <<n, Slot(T, n, key)>>) \in V,
           NEW j \in Slots, j # Slot(T, m, key), At(T, <<m, j>>) # Null,
           \A i \in Slots : i # j /\ i # Slot(T, m, key) => At(T, <<m, i>>) = Null,
           NEW T2, T2 = RemoveNode(Write(Write(T, pl, Null), pp, At(T, <<m, j>>)), m)
    PROVE  TreeOf(T2, K \ {key}) /\ NodesOf(T2) = NodesOf(T) \ {m}
<1>1. /\ IsTree(T) /\ B \in [Addrs -> SUBSET Keys] /\ pl \in Places(T) /\ Null \in Ptrs
      /\ V \subseteq Fits(T, key) /\ V \subseteq NodesOf(T)
  BY TreeFacts DEF Trunk, Ptrs, Fits
<1>2. \A n \in V : Slot(T, n, key) \in Slots /\ n \in NodesOf(T) /\ n # Null /\ n # key /\ n \in Addrs
  BY <1>1, SlotType, TreeFacts DEF Fits
<1>3. PICK only \in Ptrs : only = At(T, <<m, j>>) /\ <<m, j>> \in Places(T) /\ only # Null
  BY <1>1, PlaceFacts
<1>4. \A p, q \in Places(T) : At(T, p) = At(T, q) /\ At(T, p) \in Addrs => p = q
  BY DEF TreeOk
<1>5. pp[1] # m /\ pp # pl
  BY <1>2 DEF Top
<1>6. PICK T0, T1 : T0 = Write(T, pl, Null) /\ T1 = Write(T0, pp, only)
  OBVIOUS
<1>7. Frame(T, T0, pl, Null) /\ NodesOf(T0) = NodesOf(T) /\ Places(T0) = Places(T) /\ IsTree(T0)
  <2>1. Frame(T, T0, pl, Null) /\ NodesOf(T0) = NodesOf(T) /\ Places(T0) = Places(T)
    BY <1>1, <1>6, WriteIs
  <2> QED BY <2>1 DEF Frame
<1>8. Frame(T0, T1, pp, only) /\ NodesOf(T1) = NodesOf(T) /\ Places(T1) = Places(T) /\ IsTree(T1)
  <2>1. Frame(T0, T1, pp, only) /\ NodesOf(T1) = NodesOf(T0) /\ Places(T1) = Places(T0)
    BY <1>6, <1>7, WriteIs
  <2> QED BY <1>7, <2>1 DEF Frame
<1>9. /\ IsTree(T2) /\ NodesOf(T2) = NodesOf(T) \ {m}
      /\ Places(T2) = {q \in Places(T) : q[1] # m}
      /\ \A q \in Places(T2) : At(T2, q) = At(T1, q)
      /\ \A n \in NodesOf(T2) : T2.node[n] = T1.node[n]
  <2>1. m \in NodesOf(T1) /\ T2 = RemoveNode(T1, m)
    BY <1>1, <1>3, <1>6, <1>8
  <2>2. /\ IsTree(T2) /\ NodesOf(T2) = NodesOf(T1) \ {m}
        /\ Places(T2) = {q \in Places(T1) : q[1] # m}
        /\ \A q \in Places(T2) : At(T2, q) = At(T1, q)
        /\ \A n \in NodesOf(T2) : T2.node[n] = T1.node[n]
    BY ONLY <1>8, <2>1, RemoveNodeIs
  <2> QED BY <1>8, <2>2
<1>10. pp \in Places(T2) /\ \A q \in Places(T2) : q \in Places(T) /\ q # pl /\ q[1] # m
  BY <1>5, <1>9
<1>11. ASSUME NEW q \in Places(T2) PROVE At(T2, q) = IF q = pp THEN only ELSE At(T, q)
  <2>1. At(T1, q) = IF q = pp THEN only ELSE At(T0, q)
    BY <1>7, <1>8, <1>10 DEF Frame
  <2>2. At(T0, q) = At(T, q)
    BY <1>7, <1>10 DEF Frame
  <2> QED BY <1>9, <2>1, <2>2
<1>12. Frame(T, T2, pp, only)
  <2>1. \A n \in NodesOf(T) : n \in NodesOf(T2) =>
           T2.node[n].byte = T.node[n].byte /\ T2.node[n].bit = T.node[n].bit
    BY <1>7, <1>8, <1>9 DEF Frame
  <2> QED BY <1>9, <1>10, <1>11, <2>1 DEF Frame
<1>13. PICK W : W = V \ {m}
  OBVIOUS
<1>14. Trunk(T, key, W, pp)
  <2>1. W \subseteq Fits(T, key) /\ pp \in Places(T)
    BY <1>1, <1>13
  <2>2. Top \in Places(T) /\ At(T, Top) = T.root
    BY <1>1, PlaceFacts
  <2>3. (pp = Top /\ W = {}) \/ (T.root \in W /\ \E n \in W : pp = <<n, Slot(T, n, key)>>)
    <3>1. CASE pp = Top /\ V = {m}
      BY <1>13, <3>1
    <3>2. CASE \E n \in V : n # m /\ pp = <<n, Slot(T, n, key)>>
      <4>1. PICK n \in W : pp = <<n, Slot(T, n, key)>>
        BY <1>13, <3>2
      <4>2. pp # Top
        BY <1>2, <1>13, <4>1 DEF Top
      <4>3. T.root # m
        BY <1>2, <1>4, <2>2, <4>2
      <4>4. T.root \in V
        BY DEF Trunk
      <4> QED BY <1>13, <4>1, <4>3, <4>4
    <3> QED BY <3>1, <3>2
  <2>4. ASSUME NEW n \in W PROVE pp = <<n, Slot(T, n, key)>> \/ At(T, <<n, Slot(T, n, key)>>) \in W
    <3>1. At(T, <<n, Slot(T, n, key)>>) \in V /\ <<n, Slot(T, n, key)>> \in Places(T)
      BY <1>1, <1>2, <1>13, PlaceFacts
    <3> QED BY <1>2, <1>4, <1>13, <3>1
  <2>5. ASSUME NEW n \in W PROVE n = T.root \/ \E l \in W : n = At(T, <<l, Slot(T, l, key)>>)
    <3>1. n \in V /\ (n = T.root \/ \E l \in V : n = At(T, <<l, Slot(T, l, key)>>))
      BY <1>13 DEF Trunk
    <3> QED BY <1>2, <1>13, <3>1
  <2> QED BY <2>1, <2>3, <2>4, <2>5 DEF Trunk
<1>15. PICK B2 : B2 = [x \in Addrs |-> IF x \in W THEN B[x] \ {key} ELSE B[x]]
  OBVIOUS
<1>16. Regroups(T, B, W, {}, {key}, B2) /\ B2 \in [Addrs -> SUBSET Keys]
  BY <1>1, <1>15 DEF IsTree, Regroups
<1>17. only \notin V /\ (only \in Addrs => only \in NodesOf(T) /\ Earlier(T, m, only))
  <2>1. only \notin V
    <3>1. m \in V => Slot(T, m, key) # j
      OBVIOUS
    <3> QED BY <1>2, <1>3, <3>1, OffTrunk
  <2>2. only \in Addrs => only \in NodesOf(T)
    BY <1>3, TreeFacts
  <2>3. only \in NodesOf(T) => Earlier(T, m, only)
    BY <1>2, <1>3, TreeFacts
  <2> QED BY <2>1, <2>2, <2>3
<1>18. Cover(B2, only) = Cover(B, At(T, pp)) \ {key}
  <2>1. Cover(B2, only) = Cover(B, only)
    <3>1. CASE only \in Addrs
      BY <1>1, <1>13, <1>15, <1>16, <1>17, <3>1, CoverType
    <3>2. CASE only \in Keys
      BY <1>1, <1>16, <3>2, CoverType
    <3> QED BY <1>3, <3>1, <3>2 DEF Ptrs
  <2>2. \A i \in Slots : Cover(B, At(T, <<m, i>>)) = {k \in B[m] : Slot(T, m, k) = i}
    BY <1>2, TreeFacts
  <2>3. Cover(B, key) = {key} /\ Cover(B, Null) = {} /\ Cover(B, m) = B[m]
    BY <1>1, <1>2, CoverType
  <2>4. \A k \in B[m] : Slot(T, m, k) \in Slots
    BY <1>2, TreeFacts
  <2>5. \A k \in B[m] : k # key => Slot(T, m, k) = j
    <3> SUFFICES ASSUME NEW k \in B[m], k # key, Slot(T, m, k) # j PROVE FALSE
      OBVIOUS
    <3>1. PICK i \in Slots : i = Slot(T, m, k)
      BY <2>4
    <3>2. k \in Cover(B, At(T, <<m, i>>))
      BY <2>2, <3>1
    <3>3. CASE i = Slot(T, m, key)
      BY <2>3, <3>2, <3>3
    <3>4. CASE i # Slot(T, m, key)
      <4>1. At(T, <<m, i>>) = Null
        BY <3>1, <3>4
      <4> QED BY <2>3, <3>2, <4>1
    <3> QED BY <3>3, <3>4
  <2>6. B[m] \ {key} = {k \in B[m] : Slot(T, m, k) = j}
    BY <2>5
  <2> QED BY <1>3, <2>1, <2>2, <2>3, <2>6
<1>19. Linked(T2)
  <2> SUFFICES ASSUME NEW q \in Places(T2), At(T2, q) \in Addrs PROVE At(T2, q) \in NodesOf(T2)
    BY DEF Linked
  <2>1. CASE q = pp
    <3>1. only \in NodesOf(T) /\ only # m
      BY <1>11, <1>17, <2>1
    <3> QED BY <1>9, <1>11, <2>1, <3>1
  <2>2. CASE q # pp
    <3>1. At(T2, q) = At(T, q) /\ q \in Places(T)
      BY <1>10, <1>11, <2>2
    <3>2. At(T, q) \in NodesOf(T)
      BY <3>1, TreeFacts
    <3>3. At(T, q) # m
      BY <1>2, <1>4, <2>2, <3>1
    <3> QED BY <1>9, <3>1, <3>2, <3>3
  <2> QED BY <2>1, <2>2
<1>20. ASSUME NEW n \in NodesOf(T2) PROVE Branches(T2, n)
  <2>1. n \in NodesOf(T) /\ NodeOk(T, B, n)
    BY <1>9 DEF TreeOk
  <2>2. PICK u \in Slots, v \in Slots : u # v /\ At(T, <<n, u>>) # Null /\ At(T, <<n, v>>) # Null
    BY <2>1 DEF NodeOk
  <2>3. <<n, u>> \in Places(T2) /\ <<n, v>> \in Places(T2)
    BY <1>9, PlaceFacts
  <2>4. At(T2, <<n, u>>) # Null /\ At(T2, <<n, v>>) # Null
    BY <1>3, <1>11, <2>2, <2>3
  <2> QED BY <2>2, <2>4 DEF Branches
<1>21. ASSUME only \in Addrs, NEW n \in W, pp = <<n, Slot(T, n, key)>> PROVE Earlier(T2, n, only)
  <2>1. n \in NodesOf(T) /\ n # m /\ Slot(T, n, key) \in Slots
    BY <1>2, <1>13
  <2>2. Earlier(T, n, m)
    <3>1. At(T, <<n, Slot(T, n, key)>>) = m
      BY <1>21
    <3> QED BY <1>2, <2>1, <3>1, TreeFacts
  <2>3. only \in NodesOf(T) /\ Earlier(T, m, only) /\ only # m
    BY <1>17, <1>21
  <2>4. Earlier(T, n, only)
    BY <1>1, <1>2, <2>1, <2>2, <2>3, EarlierOrder
  <2>5. n \in NodesOf(T2) /\ only \in NodesOf(T2)
    BY <1>9, <2>1, <2>3
  <2> QED BY <1>12, <2>1, <2>3, <2>4, <2>5, FrameFacts
<1>22. (\A n \in NodesOf(T2) : NodeOk(T2, B2, n)) /\ Cover(B2, T2.root) = K \ {key}
  <2>1. only \in Addrs => \A n \in W : pp = <<n, Slot(T, n, key)>> => Earlier(T2, n, only)
    BY <1>21
  <2>2. NodesOf(T2) \subseteq NodesOf(T)
    BY <1>9
  <2> QED BY ONLY TreeOk(T, K, B), key \in Keys, <1>12, <1>14, <1>16, <1>18, <1>19, <1>20, <2>1, <2>2,
                  ShrinkNodes
<1>23. T2.root \in Addrs => T2.root \in NodesOf(T2)
  <2>1. Top \in Places(T2) /\ At(T2, Top) = T2.root
    BY <1>9, PlaceFacts
  <2> QED BY <1>19, <2>1 DEF Linked
<1>24. ASSUME NEW p \in Places(T2), NEW q \in Places(T2), At(T2, p) = At(T2, q), At(T2, p) \in Addrs
       PROVE  p = q
  <2>1. ASSUME NEW r \in Places(T2), r # pp PROVE At(T2, r) # only \/ only \notin Addrs
    <3>1. r \in Places(T) /\ r # <<m, j>> /\ At(T2, r) = At(T, r)
      BY <1>10, <1>11, <2>1
    <3> QED BY <1>3, <1>4, <3>1
  <2>2. CASE p = pp
    BY <1>11, <1>24, <2>1, <2>2
  <2>3. CASE q = pp
    BY <1>11, <1>24, <2>1, <2>3
  <2>4. CASE p # pp /\ q # pp
    BY <1>4, <1>10, <1>11, <1>24, <2>4
  <2> QED BY <2>2, <2>3, <2>4
<1>25. ASSUME NEW n \in NodesOf(T2) PROVE \E p \in Places(T2) : At(T2, p) = n
  <2>1. n \in NodesOf(T) /\ n # m /\ n # Null /\ n # key
    BY <1>9, TreeFacts
  <2>2. PICK p \in Places(T) : At(T, p) = n
    BY <2>1 DEF TreeOk
  <2>3. CASE p[1] # m
    <3>1. p \in Places(T2) /\ p # pp
      BY <1>9, <2>1, <2>2, <2>3
    <3> QED BY <1>11, <2>2, <3>1
  <2>4. CASE p[1] = m
    <3>1. p # Top
      BY <1>2, <2>4 DEF Top
    <3>2. PICK l \in NodesOf(T), i \in Slots : p = <<l, i>>
      BY <1>1, <3>1, PlaceFacts
    <3>3. p = <<m, i>>
      BY <2>4, <3>2
    <3>4. i = j
      BY <2>1, <2>2, <3>3
    <3>5. n = only
      BY <1>3, <2>2, <3>3, <3>4
    <3> QED BY <1>10, <1>11, <3>5
  <2> QED BY <2>3, <2>4
<1>26. TreeOk(T2, K \ {key}, B2)
  BY <1>9, <1>16, <1>22, <1>23, <1>24, <1>25 DEF TreeOk
<1> QED BY <1>9, <1>26 DEF TreeOf

\* What critnib_remove does.
RemoveDone(T, K, key, r) ==
    /\ TreeOf(r.tree, K \ {key})
    /\ \/ r.nodes = 0 /\ NodesOf(r.tree) = NodesOf(T)
       \/ r.nodes = 1 /\ \E m \in NodesOf(T) : NodesOf(r.tree) = NodesOf(T) \ {m}

\* A removal takes the key away.
LEMMA RemoveOk ==
    ASSUME NEW T, NEW K, NEW B, TreeOk(T, K, B), NEW key \in K
    PROVE  RemoveDone(T, K, key, critnib_remove(T, key))
<1>1. PICK s : s = Find(T, key)
  OBVIOUS
<1>2. key \in Keys /\ At(T, s.parent) = key
  BY <1>1, FindEnds
<1>30. PICK X \in SUBSET Fits(T, key) : X = Fits(T, key)
  OBVIOUS
<1>3. PICK V, I : Route(T, key, X, s, V, I)
  BY <1>1, <1>30, FindEnds
<1>4. Trunk(T, key, V, s.parent)
  BY <1>3, RouteTrunk
<1>5. PICK pl, T0 : pl = s.parent /\ T0 = Write(T, pl, Null)
  OBVIOUS
<1>6. IsTree(T) /\ B \in [Addrs -> SUBSET Keys] /\ pl \in Places(T) /\ Null \in Ptrs
  BY <1>4, <1>5, TreeFacts DEF Trunk, Ptrs
<1>7. Frame(T, T0, pl, Null) /\ NodesOf(T0) = NodesOf(T) /\ Places(T0) = Places(T)
  BY <1>5, <1>6, WriteIs
<1>8. ASSUME NEW n \in NodesOf(T), NEW i \in Slots
      PROVE  /\ At(T0, <<n, i>>) = IF <<n, i>> = pl THEN Null ELSE At(T, <<n, i>>)
             /\ At(T0, <<n, i>>) = T0.node[n].child[i] /\ <<n, i>> \in Places(T) /\ <<n, i>> # Top
  <2>1. <<n, i>> \in Places(T) /\ <<n, i>> # Top
    BY <1>6, PlaceFacts
  <2>2. IsTree(T0)
    BY <1>7 DEF Frame
  <2>3. At(T0, <<n, i>>) = T0.node[n].child[i]
    BY <1>7, <2>2, PlaceFacts
  <2> QED BY <1>7, <2>1, <2>3 DEF Frame
<1>9. ASSUME NEW n \in NodesOf(T), \A i \in Slots : <<n, i>> # pl
      PROVE  Branches(T0, n)
  <2>1. NodeOk(T, B, n)
    BY DEF TreeOk
  <2>2. PICK i \in Slots, j \in Slots : i # j /\ At(T, <<n, i>>) # Null /\ At(T, <<n, j>>) # Null
    BY <2>1 DEF NodeOk
  <2>3. At(T0, <<n, i>>) # Null /\ At(T0, <<n, j>>) # Null
    BY <1>8, <1>9, <2>2
  <2> QED BY <2>2, <2>3 DEF Branches
<1>10. CASE pl = Top
  <2>1. \A n \in NodesOf(T) : Branches(T0, n)
    BY <1>8, <1>9, <1>10
  <2>2. TreeOf(T0, K \ {key}) /\ NodesOf(T0) = NodesOf(T)
    BY <1>2, <1>4, <1>5, <2>1, RemoveLeaf
  <2>3. critnib_remove(T, key) = [tree |-> T0, nodes |-> 0]
    BY <1>1, <1>5, <1>10 DEF critnib_remove
  <2> QED BY <2>2, <2>3 DEF RemoveDone
<1>11. CASE pl # Top
  <2>1. V # {}
    BY <1>3, <1>5, <1>11 DEF Route, Start0
  <2>2. PICK m \in V : /\ pl = <<m, Slot(T, m, key)>> /\ At(T, s.pp) = m
                       /\ (\A n \in V : n # m => At(T, <<n, Slot(T, n, key)>>) \in V)
                       /\ (\/ s.pp = Top /\ V = {m}
                           \/ \E n \in V : n # m /\ s.pp = <<n, Slot(T, n, key)>>)
    BY <1>3, <1>5, <2>1 DEF Route
  <2>3. PICK pp \in Places(T) : pp = s.pp
    BY <1>3 DEF Route, States
  <2>4. m \in NodesOf(T) /\ m \in Addrs /\ Slot(T, m, key) \in Slots /\ m \in Fits(T, key)
    <3>1. m \in Fits(T, key)
      BY <1>3 DEF Route
    <3> QED BY <1>2, <1>6, <3>1, SlotType, TreeFacts DEF Fits
  <2>5. PICK u \in Slots : u = Slot(T, m, key)
    BY <2>4
  <2>6. PICK left : left = {T0.node[m].child[i] : i \in Children(T0, m)}
    OBVIOUS
  <2>7. critnib_remove(T, key) = Shorten(T0, pp, m)
    <3>1. s.parent[1] = m
      BY <1>5, <2>2
    <3> QED BY <1>1, <1>5, <1>11, <2>3, <3>1 DEF critnib_remove
  <2>8. \A i \in Slots : At(T0, <<m, i>>) = (IF i = u THEN Null ELSE At(T, <<m, i>>))
                         /\ At(T0, <<m, i>>) = T0.node[m].child[i]
    BY <1>8, <2>2, <2>4, <2>5
  <2>9. \A i : i \in Children(T0, m) <=> i \in Slots /\ i # u /\ At(T, <<m, i>>) # Null
    BY <2>8 DEF Children
  <2>10. left = {At(T, <<m, i>>) : i \in Children(T0, m)}
    BY <2>6, <2>8, <2>9
  <2>11. PICK j \in Slots : j # u /\ At(T, <<m, j>>) # Null
    <3>1. PICK k \in B[m] : Slot(T, m, k) # u /\ Slot(T, m, k) \in Slots
      BY <2>4, OtherKey
    <3>2. k \in Cover(B, At(T, <<m, Slot(T, m, k)>>))
      BY <2>4, <3>1, TreeFacts
    <3>3. At(T, <<m, Slot(T, m, k)>>) # Null
      BY <1>6, <3>2, CoverType
    <3> QED BY <3>1, <3>3
  <2>12. CASE \E only \in left : left = {only}
    <3>1. left = {At(T, <<m, j>>)}
      BY <2>9, <2>10, <2>11, <2>12
    <3>2. ASSUME NEW i \in Slots, i # j, i # Slot(T, m, key) PROVE At(T, <<m, i>>) = Null
      <4> SUFFICES ASSUME At(T, <<m, i>>) # Null PROVE FALSE
        OBVIOUS
      <4>1. At(T, <<m, i>>) = At(T, <<m, j>>)
        BY <2>5, <2>9, <2>10, <3>1, <3>2
      <4>2. <<m, i>> \in Places(T) /\ <<m, j>> \in Places(T) /\ <<m, i>> # <<m, j>>
        BY <1>8, <2>4, <3>2
      <4>3. At(T, <<m, i>>) \notin Addrs
        BY <4>1, <4>2 DEF TreeOk
      <4>4. PICK k \in Keys : k = At(T, <<m, i>>)
        BY <4>2, <4>3, TreeFacts DEF Ptrs
      <4>5. k \in Cover(B, At(T, <<m, i>>)) /\ k \in Cover(B, At(T, <<m, j>>))
        BY <1>6, <4>1, <4>4, CoverType
      <4>6. Slot(T, m, k) = i /\ Slot(T, m, k) = j
        BY <2>4, <4>5, TreeFacts
      <4> QED BY <3>2, <4>6
    <3>3. (CHOOSE only \in left : TRUE) = At(T, <<m, j>>)
      BY <3>1
    <3>4. PICK T2 : T2 = RemoveNode(Write(T0, pp, At(T, <<m, j>>)), m)
      OBVIOUS
    <3>5. Shorten(T0, pp, m) = [tree |-> T2, nodes |-> 1]
      BY <2>6, <2>12, <3>3, <3>4 DEF Shorten
    <3>6. TreeOf(T2, K \ {key}) /\ NodesOf(T2) = NodesOf(T) \ {m}
      <4>1. T2 = RemoveNode(Write(Write(T, pl, Null), pp, At(T, <<m, j>>)), m)
        BY <1>5, <3>4
      <4>2. Trunk(T, key, V, pl) /\ At(T, pl) = key /\ At(T, pp) = m /\ j # Slot(T, m, key)
        BY <1>2, <1>4, <1>5, <2>2, <2>3, <2>5, <2>11
      <4>3. \/ pp = Top /\ V = {m}
            \/ \E n \in V : n # m /\ pp = <<n, Slot(T, n, key)>>
        BY <2>2, <2>3
      <4> QED BY <1>2, <2>2, <2>11, <3>2, <4>1, <4>2, <4>3, RemoveFork
    <3> QED BY <2>4, <2>7, <3>5, <3>6 DEF RemoveDone
  <2>13. CASE ~\E only \in left : left = {only}
    <3>1. Shorten(T0, pp, m) = [tree |-> T0, nodes |-> 0]
      BY <2>6, <2>13 DEF Shorten
    <3>2. Branches(T0, m)
      <4>1. At(T, <<m, j>>) \in left
        BY <2>9, <2>10, <2>11
      <4>2. PICK p \in left : p # At(T, <<m, j>>)
        BY <2>13, <4>1
      <4>3. PICK i \in Slots : i # u /\ At(T, <<m, i>>) # Null /\ p = At(T, <<m, i>>)
        BY <2>9, <2>10
      <4>4. i # j
        BY <4>2, <4>3
      <4>5. At(T0, <<m, i>>) # Null /\ At(T0, <<m, j>>) # Null
        BY <2>8, <2>11, <4>3
      <4> QED BY <4>4, <4>5 DEF Branches
    <3>3. ASSUME NEW n \in NodesOf(T) PROVE Branches(T0, n)
      <4>1. CASE n = m
        BY <3>2, <4>1
      <4>2. CASE n # m
        <5>1. \A i \in Slots : <<n, i>> # pl
          BY <2>2, <4>2
        <5> QED BY <1>9, <5>1
      <4> QED BY <4>1, <4>2
    <3>4. TreeOf(T0, K \ {key}) /\ NodesOf(T0) = NodesOf(T)
      BY <1>2, <1>4, <1>5, <3>3, RemoveLeaf
    <3> QED BY <2>7, <3>1, <3>4 DEF RemoveDone
  <2> QED BY <2>12, <2>13
<1> QED BY <1>10, <1>11

----------------------------------------------------------------------------
(* delete_node *)

\* f is defined by recursion up to n.
Recurs(S, n, s, step, f) ==
    f \in [0 .. n -> S] /\ f[0] = s /\ \A d \in 1 .. n : f[d] = step[d][f[d - 1]]

LEMMA Recursion ==
    ASSUME NEW S, NEW n \in Nat, NEW s \in S, NEW step \in [1 .. n -> [S -> S]]
    PROVE  \E f : Recurs(S, n, s, step, f)
<1>0. \A d \in 1 .. n : \A x \in S : step[d][x] \in S
  OBVIOUS
<1> DEFINE Good(m, f) == /\ f \in [0 .. m -> S] /\ f[0] = s
                         /\ \A d \in 1 .. m : f[d] = step[d][f[d - 1]]
           Fine == {m \in Nat : \E f : Good(m, f)}
<1>1. 0 \in Fine
  <2>1. Good(0, [d \in 0 .. 0 |-> s])
    OBVIOUS
  <2> QED BY <2>1
<1>2. ASSUME NEW m \in 0 .. n, m \in Fine, m < n
      PROVE  m + 1 \in Fine
  <2>1. PICK f : Good(m, f)
    BY <1>2
  <2>2. PICK g : g = [d \in 0 .. m + 1 |-> IF d = m + 1 THEN step[m + 1][f[m]] ELSE f[d]]
    OBVIOUS
  <2>3. m \in Nat /\ f[m] \in S /\ step[m + 1][f[m]] \in S
    BY <1>0, <1>2, <2>1
  <2>4. g \in [0 .. m + 1 -> S] /\ g[0] = s
    BY <2>1, <2>2, <2>3
  <2>5. \A d \in 1 .. m + 1 : g[d] = step[d][g[d - 1]]
    <3> SUFFICES ASSUME NEW d \in 1 .. m + 1 PROVE g[d] = step[d][g[d - 1]]
      OBVIOUS
    <3>1. d - 1 \in 0 .. m + 1 /\ d - 1 # m + 1 /\ d \in 0 .. m + 1
      BY <2>3
    <3>2. g[d - 1] = f[d - 1]
      BY <2>2, <3>1
    <3>3. CASE d = m + 1
      BY <2>2, <2>3, <3>1, <3>2, <3>3
    <3>4. CASE d # m + 1
      BY <2>1, <2>2, <2>3, <3>1, <3>2, <3>4
    <3> QED BY <3>3, <3>4
  <2>6. Good(m + 1, g)
    BY <2>4, <2>5
  <2> HIDE DEF Good
  <2> QED BY <2>3, <2>6
<1>3. \A m \in 0 .. n : m \in Fine
  <2> HIDE DEF Fine
  <2> QED BY <1>1, <1>2, Induct
<1>4. PICK f : Good(n, f)
  BY <1>3
<1> QED BY <1>4 DEF Recurs

Freed == Keys \cup Addrs

\* Sequence s lists the elements of Y, each once.
Lists(s, Y) ==
    /\ s \in Seq(Freed) /\ Elements(s) = Y
    /\ \A m, n \in 1 .. Len(s) : s[m] = s[n] => m = n

LEMMA ListsFacts ==
    /\ Lists(<<>>, {})
    /\ \A p \in Freed : Lists(<<p>>, {p})
<1>1. <<>> \in Seq(Freed) /\ Len(<<>>) = 0
  OBVIOUS
<1>2. Lists(<<>>, {})
  BY <1>1 DEF Lists, Elements
<1>3. ASSUME NEW p \in Freed PROVE Lists(<<p>>, {p})
  <2>1. <<p>> \in Seq(Freed) /\ Len(<<p>>) = 1 /\ <<p>>[1] = p
    OBVIOUS
  <2>2. \A i \in 1 .. Len(<<p>>) : i = 1
    BY <2>1
  <2>3. Elements(<<p>>) = {p}
    BY <2>1, <2>2 DEF Elements
  <2> QED BY <2>1, <2>2, <2>3 DEF Lists
<1> QED BY <1>2, <1>3

LEMMA ListsConcat ==
    ASSUME NEW s, NEW t, NEW Y, NEW Z, Lists(s, Y), Lists(t, Z), Y \cap Z = {}
    PROVE  Lists(s \o t, Y \cup Z)
<1>1. s \in Seq(Freed) /\ t \in Seq(Freed)
  BY DEF Lists
<1>20. PICK l \in Nat : l = Len(s)
  BY <1>1
<1>21. PICK r \in Nat : r = Len(t)
  BY <1>1
<1>22. PICK u : u = s \o t
  OBVIOUS
<1>2. l = Len(s) /\ r = Len(t) /\ u = s \o t
  BY <1>20, <1>21, <1>22
<1>3. /\ u \in Seq(Freed) /\ Len(u) = l + r
      /\ \A i \in 1 .. l + r : u[i] = IF i <= l THEN s[i] ELSE t[i - l]
  BY <1>1, <1>2
<1>4. \A i \in 1 .. l : s[i] \in Y
  BY <1>2 DEF Lists, Elements
<1>5. \A i \in 1 .. r : t[i] \in Z
  BY <1>2 DEF Lists, Elements
<1>6. \A i \in 1 .. l + r : ~(i <= l) => i - l \in 1 .. r
  OBVIOUS
<1>7. \A i \in 1 .. l + r : IF i <= l THEN u[i] = s[i] /\ i \in 1 .. l /\ u[i] \in Y
                            ELSE u[i] = t[i - l] /\ i - l \in 1 .. r /\ u[i] \in Z
  BY <1>3, <1>4, <1>5, <1>6
<1>8. Elements(u) = Y \cup Z
  <2>1. ASSUME NEW y \in Y PROVE y \in Elements(u)
    <3>1. PICK i \in 1 .. l : y = s[i]
      BY <1>2 DEF Lists, Elements
    <3>2. i \in 1 .. l + r /\ i <= l
      OBVIOUS
    <3> QED BY <1>3, <3>1, <3>2 DEF Elements
  <2>2. ASSUME NEW z \in Z PROVE z \in Elements(u)
    <3>1. PICK i \in 1 .. r : z = t[i]
      BY <1>2 DEF Lists, Elements
    <3>2. PICK j \in 1 .. l + r : ~(j <= l) /\ j - l = i
      <4>1. i + l \in 1 .. l + r /\ ~(i + l <= l) /\ (i + l) - l = i
        OBVIOUS
      <4> QED BY <4>1
    <3>3. u[j] = z
      BY <1>7, <3>1, <3>2
    <3> QED BY <1>3, <3>3 DEF Elements
  <2>3. ASSUME NEW x \in Elements(u) PROVE x \in Y \cup Z
    <3>1. PICK i \in 1 .. l + r : x = u[i]
      BY <1>3 DEF Elements
    <3> QED BY <1>7, <3>1
  <2> QED BY <2>1, <2>2, <2>3
<1>9. ASSUME NEW m \in 1 .. l + r, NEW n \in 1 .. l + r, u[m] = u[n]
      PROVE  m = n
  <2>1. CASE m <= l /\ n <= l
    <3>1. s[m] = s[n] /\ m \in 1 .. l /\ n \in 1 .. l
      BY <1>7, <1>9, <2>1
    <3> QED BY <1>2, <3>1 DEF Lists
  <2>2. CASE ~(m <= l) /\ ~(n <= l)
    <3>1. PICK x \in 1 .. r, y \in 1 .. r : x = m - l /\ y = n - l /\ t[x] = t[y]
      BY <1>7, <1>9, <2>2
    <3>2. x = y
      BY <1>2, <3>1 DEF Lists
    <3> QED BY <3>1, <3>2
  <2>3. CASE (m <= l /\ ~(n <= l)) \/ (~(m <= l) /\ n <= l)
    BY <1>7, <1>9, <2>3
  <2> QED BY <2>1, <2>2, <2>3
<1> QED BY <1>2, <1>3, <1>8, <1>9 DEF Lists

\* The lists of the slots one after the other.
Joins(lists, c) ==
    /\ c \in [0 .. SLNODES -> Seq(Freed)] /\ c[0] = <<>>
    /\ \A i \in 1 .. SLNODES : c[i] = c[i - 1] \o lists[i - 1]
    /\ Concat(lists) = c[SLNODES]

LEMMA ConcatIs ==
    ASSUME NEW lists, \A i \in Slots : lists[i] \in Seq(Freed)
    PROVE  \E c : Joins(lists, c)
<1>0. SLNODES \in Nat
  BY Constants
<1> DEFINE Body(u) == [i \in 0 .. SLNODES |-> IF i = 0 THEN <<>> ELSE u[i - 1] \o lists[i - 1]]
           Eqn(u) == u = Body(u)
           c == CHOOSE u : Eqn(u)
<1>1. \A d \in 1 .. SLNODES : d - 1 \in Slots /\ lists[d - 1] \in Seq(Freed)
  BY <1>0 DEF Slots
<1>2. PICK f : Eqn(f)
  <2>1. PICK S : S = Seq(Freed)
    OBVIOUS
  <2>10. PICK s : s = <<>>
    OBVIOUS
  <2>11. PICK step : step = [d \in 1 .. SLNODES |-> [x \in S |-> x \o lists[d - 1]]]
    OBVIOUS
  <2>2. s \in S /\ \A d \in 1 .. SLNODES : \A x \in S : x \o lists[d - 1] \in S
    BY <1>1, <2>1, <2>10
  <2>3. step \in [1 .. SLNODES -> [S -> S]]
    BY <2>2, <2>11
  <2>30. \A d \in 1 .. SLNODES : \A x \in S : step[d][x] = x \o lists[d - 1]
    BY <2>11
  <2>4. PICK f : Recurs(S, SLNODES, s, step, f)
    BY ONLY <1>0, <2>2, <2>3, Recursion
  <2>40. /\ f \in [0 .. SLNODES -> S] /\ f[0] = <<>>
         /\ \A d \in 1 .. SLNODES : f[d] = step[d][f[d - 1]]
    BY <2>4, <2>10 DEF Recurs
  <2>5. \A d \in 0 .. SLNODES : f[d] = IF d = 0 THEN <<>> ELSE f[d - 1] \o lists[d - 1]
    <3> SUFFICES ASSUME NEW d \in 0 .. SLNODES, d # 0 PROVE f[d] = f[d - 1] \o lists[d - 1]
      BY <2>40
    <3>1. d \in 1 .. SLNODES /\ d - 1 \in 0 .. SLNODES
      BY <1>0
    <3> QED BY <2>30, <2>40, <3>1
  <2>6. f = [d \in 0 .. SLNODES |-> f[d]]
    BY <2>40
  <2>7. Eqn(f)
    BY <2>5, <2>6, Zenon
  <2> QED BY <2>7
<1>3. Eqn(c)
  <2> HIDE DEF Eqn
  <2> QED BY <1>2
<1>4. Concat(lists) = c[SLNODES]
  BY DEF Concat
<1> HIDE DEF c
<1>5. /\ c = Body(c)
      /\ \A i \in 0 .. SLNODES : c[i] = IF i = 0 THEN <<>> ELSE c[i - 1] \o lists[i - 1]
  BY <1>3, Zenon
<1>51. /\ 0 \in 0 .. SLNODES
       /\ \A i \in 1 .. SLNODES : i \in 0 .. SLNODES /\ i # 0 /\ i - 1 \in 0 .. SLNODES
  BY <1>0
<1>50. c[0] = <<>> /\ \A i \in 1 .. SLNODES : c[i] = c[i - 1] \o lists[i - 1] /\ i - 1 \in 0 .. SLNODES
  BY <1>5, <1>51, Zenon
<1>52. <<>> \in Seq(Freed) /\ \A x, y \in Seq(Freed) : x \o y \in Seq(Freed)
  OBVIOUS
<1>6. \A i \in 0 .. SLNODES : c[i] \in Seq(Freed)
  <2>1. PICK S : S = {i \in 0 .. SLNODES : c[i] \in Seq(Freed)}
    OBVIOUS
  <2>2. 0 \in S
    BY <1>50, <1>51, <1>52, <2>1, Zenon
  <2>3. ASSUME NEW d \in 0 .. SLNODES, d \in S, d < SLNODES
        PROVE  d + 1 \in S
    <3>1. d + 1 \in 1 .. SLNODES /\ d + 1 \in 0 .. SLNODES /\ (d + 1) - 1 = d
      BY <1>0, <2>3
    <3>2. c[d + 1] = c[d] \o lists[d] /\ lists[d] \in Seq(Freed) /\ c[d] \in Seq(Freed)
      BY <1>1, <1>50, <2>1, <2>3, <3>1
    <3>3. c[d + 1] \in Seq(Freed)
      BY <1>52, <3>2, Zenon
    <3> QED BY <2>1, <3>1, <3>3, Zenon
  <2>4. \A d \in 0 .. SLNODES : d \in S
    BY ONLY <1>0, <2>2, <2>3, Induct
  <2> QED BY <2>1, <2>4
<1>7. c \in [0 .. SLNODES -> Seq(Freed)]
  <2>1. c = [i \in 0 .. SLNODES |-> c[i]]
    BY <1>5, Zenon
  <2> HIDE DEF Eqn, Body
  <2> QED BY <1>6, <2>1
<1> HIDE DEF Eqn, Body
<1>8. Joins(lists, c)
  BY <1>4, <1>50, <1>7 DEF Joins
<1> QED BY <1>8

\* The children are freed one after the other.
LEMMA ConcatLists ==
    ASSUME NEW lists, NEW Y, \A i \in Slots : Lists(lists[i], Y[i]),
           \A i, j \in Slots : i # j => Y[i] \cap Y[j] = {}
    PROVE  Lists(Concat(lists), UNION {Y[i] : i \in Slots})
<1>0. SLNODES \in Nat
  BY Constants
<1> DEFINE Seen(d) == {y \in Freed : \E i \in Slots : i < d /\ y \in Y[i]}
<1>1. \A i \in Slots : lists[i] \in Seq(Freed)
  BY DEF Lists
<1>2. PICK c : Joins(lists, c)
  BY <1>1, ConcatIs
<1>4. Concat(lists) = c[SLNODES]
  BY <1>2 DEF Joins
<1>5. \A i \in 0 .. SLNODES : c[i] = IF i = 0 THEN <<>> ELSE c[i - 1] \o lists[i - 1]
  <2>1. \A i \in 0 .. SLNODES : i # 0 => i \in 1 .. SLNODES
    BY <1>0
  <2> QED BY <1>2, <2>1, Zenon DEF Joins
<1>6. \A i \in Slots : i \in Nat /\ Y[i] \subseteq Freed
  <2> SUFFICES ASSUME NEW i \in Slots PROVE Y[i] \subseteq Freed
    BY Constants
  <2>1. Lists(lists[i], Y[i])
    OBVIOUS
  <2>2. Len(lists[i]) \in Nat /\ \A j \in 1 .. Len(lists[i]) : lists[i][j] \in Freed
    BY <2>1 DEF Lists
  <2> QED BY <2>1, <2>2 DEF Lists, Elements
<1>7. \A d \in 0 .. SLNODES : Lists(c[d], Seen(d))
  <2>1. PICK S : S = {d \in 0 .. SLNODES : Lists(c[d], Seen(d))}
    OBVIOUS
  <2>2. 0 \in S
    <3>1. Seen(0) = {} /\ c[0] = <<>>
      BY <1>0, <1>5, <1>6
    <3> QED BY <1>0, <2>1, <3>1, ListsFacts
  <2>3. ASSUME NEW d \in 0 .. SLNODES, d \in S, d < SLNODES
        PROVE  d + 1 \in S
    <3>1. d + 1 \in 0 .. SLNODES /\ d + 1 # 0 /\ (d + 1) - 1 = d /\ d \in Slots
      BY <1>0, <2>3 DEF Slots
    <3>2. c[d + 1] = c[d] \o lists[d]
      BY <1>5, <3>1
    <3>3. Lists(c[d], Seen(d)) /\ Lists(lists[d], Y[d])
      BY <2>1, <2>3, <3>1
    <3>4. Seen(d) \cap Y[d] = {}
      BY <1>6, <3>1
    <3>5. Seen(d + 1) = Seen(d) \cup Y[d]
      <4>1. \A i \in Slots : i < d + 1 <=> (i < d \/ i = d)
        BY <1>6, <3>1
      <4> QED BY <1>6, <3>1, <4>1
    <3> HIDE DEF Seen
    <3>6. Lists(c[d] \o lists[d], Seen(d) \cup Y[d])
      BY <3>3, <3>4, ListsConcat
    <3> QED BY <2>1, <3>1, <3>2, <3>5, <3>6
  <2>4. \A d \in 0 .. SLNODES : d \in S
    <3> HIDE DEF Seen
    <3> QED BY <1>0, <2>2, <2>3, Induct
  <2> QED BY <2>1, <2>4
<1>8. Seen(SLNODES) = UNION {Y[i] : i \in Slots}
  <2>1. \A i \in Slots : i < SLNODES
    BY <1>0 DEF Slots
  <2> QED BY <1>6, <2>1
<1>9. SLNODES \in 0 .. SLNODES
  BY <1>0
<1> HIDE DEF Seen
<1> QED BY <1>4, <1>7, <1>8, <1>9

\* A set of nodes has one that branches before all others.
LEMMA EarliestIn ==
    ASSUME NEW T, IsTree(T), NEW S \in SUBSET NodesOf(T), S # {}
    PROVE  \E m \in S : \A l \in S : ~Earlier(T, l, m)
<1>1. \A n \in S : /\ T.node[n].byte \in Nat /\ T.node[n].bit \in Nat /\ T.node[n].bit \in Bits
                   /\ SLICES - T.node[n].bit \in Nat
  <2> SUFFICES ASSUME NEW n \in S
               PROVE /\ T.node[n].byte \in Nat /\ T.node[n].bit \in Nat /\ T.node[n].bit \in Bits
                     /\ SLICES - T.node[n].bit \in Nat
    OBVIOUS
  <2>1. T.node[n].byte \in Nat /\ T.node[n].bit \in Bits
    BY DEF IsTree, NodeType
  <2> QED BY <2>1, Constants DEF Bits
<1>2. PICK X \in SUBSET Nat : X = {T.node[n].byte : n \in S}
  BY <1>1
<1>30. X # {}
  BY <1>2
<1>3. PICK b \in X : \A y \in X : b <= y
  BY <1>30, LeastIn
<1>4. PICK P : P = {n \in S : T.node[n].byte = b}
  OBVIOUS
<1>5. PICK Z \in SUBSET Nat : Z = {SLICES - T.node[n].bit : n \in P}
  BY <1>1, <1>4
<1>6. Z # {}
  BY <1>2, <1>3, <1>4, <1>5
<1>7. PICK z \in Z : \A y \in Z : z <= y
  BY <1>6, LeastIn
<1>8. PICK m \in P : z = SLICES - T.node[m].bit
  BY <1>5, <1>7
<1>9. ASSUME NEW l \in S, Earlier(T, l, m) PROVE FALSE
  <2>1. /\ m \in S /\ T.node[m].byte = b /\ T.node[l].byte \in Nat /\ T.node[l].bit \in Nat
        /\ T.node[m].bit \in Nat /\ b \in Nat /\ b <= T.node[l].byte /\ SLICES \in Nat
    BY <1>1, <1>2, <1>3, <1>4, <1>8, Constants
  <2>2. T.node[l].byte = b /\ T.node[l].bit > T.node[m].bit
    BY <1>9, <2>1 DEF Earlier
  <2>3. z <= SLICES - T.node[l].bit
    BY <1>4, <1>5, <1>7, <2>2
  <2> QED BY <1>8, <2>1, <2>2, <2>3
<1>10. m \in S
  BY <1>4
<1> QED BY <1>9, <1>10

\* Where a node is pointed to from.
Hangs(T, B, m, n, i) ==
    At(T, <<n, i>>) = m /\ Earlier(T, n, m) /\ B[m] = {k \in B[n] : Slot(T, n, k) = i}

LEMMA Parent ==
    ASSUME NEW T, NEW K, NEW B, TreeOk(T, K, B), NEW m \in NodesOf(T)
    PROVE  \/ T.root = m /\ B[m] = K
           \/ \E n \in NodesOf(T), i \in Slots : Hangs(T, B, m, n, i)
<1>0. IsTree(T) /\ Cover(B, m) = B[m] /\ m \in Addrs
  BY TreeFacts
<1>1. PICK p \in Places(T) : At(T, p) = m
  BY DEF TreeOk
<1>2. CASE p = Top
  <2>1. T.root = m
    BY <1>0, <1>1, <1>2, PlaceFacts
  <2> QED BY <1>0, <2>1, TreeFacts
<1>3. CASE p # Top
  <2>1. PICK n \in NodesOf(T), i \in Slots : p = <<n, i>>
    BY <1>0, <1>3, PlaceFacts
  <2>2. /\ Cover(B, At(T, <<n, i>>)) = {k \in B[n] : Slot(T, n, k) = i}
        /\ Earlier(T, n, At(T, <<n, i>>))
    BY <1>1, <2>1, TreeFacts
  <2> QED BY <1>0, <1>1, <2>1, <2>2 DEF Hangs
<1> QED BY <1>2, <1>3

\* Only keys of the tree are below its nodes.
LEMMA BelowKeys ==
    ASSUME NEW T, NEW K, NEW B, TreeOk(T, K, B)
    PROVE  \A m \in NodesOf(T) : B[m] \subseteq K
<1>0. IsTree(T)
  BY TreeFacts
<1>1. PICK S \in SUBSET NodesOf(T) : S = {m \in NodesOf(T) : ~(B[m] \subseteq K)}
  OBVIOUS
<1>2. SUFFICES ASSUME S # {} PROVE FALSE
  BY <1>1
<1>3. PICK m \in S : \A l \in S : ~Earlier(T, l, m)
  BY <1>0, <1>2, EarliestIn
<1>4. m \in NodesOf(T) /\ ~(B[m] \subseteq K)
  BY <1>1
<1>5. PICK n \in NodesOf(T), i \in Slots : Hangs(T, B, m, n, i)
  BY <1>4, Parent
<1>6. n \notin S
  BY <1>3, <1>5 DEF Hangs
<1> QED BY <1>1, <1>4, <1>5, <1>6 DEF Hangs

\* A key goes through every node that it is below of.
LEMMA OnPath ==
    ASSUME NEW T, NEW K, NEW B, TreeOk(T, K, B), NEW key \in K, NEW V,
           Route(T, key, Fits(T, key), Find(T, key), V, Above(T, B, key))
    PROVE  \A m \in NodesOf(T) : key \in B[m] => m \in V
<1>0. IsTree(T) /\ key \in Keys /\ At(T, Find(T, key).parent) = key
  BY TreeFacts, FindEnds
<1>1. PICK S \in SUBSET NodesOf(T) : S = {m \in NodesOf(T) : key \in B[m] /\ m \notin V}
  OBVIOUS
<1>2. SUFFICES ASSUME S # {} PROVE FALSE
  BY <1>1
<1>3. PICK m \in S : \A l \in S : ~Earlier(T, l, m)
  BY <1>0, <1>2, EarliestIn
<1>4. m \in NodesOf(T) /\ key \in B[m] /\ m \notin V /\ m # key
  BY <1>0, <1>1, TreeFacts
<1>5. CASE T.root = m
  <2>1. V = {}
    BY <1>4, <1>5 DEF Route
  <2>2. Find(T, key).parent = Top
    BY <2>1 DEF Route, Start0
  <2> QED BY <1>0, <1>4, <1>5, <2>2, PlaceFacts
<1>6. ASSUME NEW n \in NodesOf(T), NEW i \in Slots, Hangs(T, B, m, n, i)
      PROVE  FALSE
  <2>1. n \notin S /\ key \in B[n] /\ Slot(T, n, key) = i
    BY <1>3, <1>4, <1>6 DEF Hangs
  <2>2. n \in V
    BY <1>1, <2>1
  <2>3. PICK e \in V : /\ Find(T, key).parent = <<e, Slot(T, e, key)>>
                       /\ \A v \in V : v # e => At(T, <<v, Slot(T, v, key)>>) \in V
    BY <2>2 DEF Route
  <2> QED BY <1>0, <1>4, <1>6, <2>1, <2>2, <2>3 DEF Hangs
<1> QED BY <1>4, <1>5, <1>6, Parent

\* Two nodes with a key in common are above one another.
LEMMA Comparable ==
    ASSUME NEW T, NEW K, NEW B, TreeOk(T, K, B), NEW m \in NodesOf(T), NEW n \in NodesOf(T),
           NEW k \in B[m], k \in B[n]
    PROVE  m = n \/ Earlier(T, m, n) \/ Earlier(T, n, m)
<1>1. k \in K
  BY BelowKeys
<1>2. PICK V : Route(T, k, Fits(T, k), Find(T, k), V, Above(T, B, k))
  BY <1>1, FindEnds
<1>3. m \in V /\ n \in V
  BY <1>1, <1>2, OnPath
<1> QED BY <1>2, <1>3 DEF Route

\* The nodes below pointer p.
Under(T, B, p) == {m \in NodesOf(T) : B[m] \subseteq Cover(B, p)}

\* The nodes below a leaf, and below a node.
LEMMA UnderIs ==
    ASSUME NEW T, NEW K, NEW B, TreeOk(T, K, B)
    PROVE  /\ Under(T, B, Null) = {}
           /\ \A k \in Keys : Under(T, B, k) = {}
           /\ \A n \in NodesOf(T), i \in Slots :
                /\ Under(T, B, At(T, <<n, i>>)) \subseteq Under(T, B, n)
                /\ n \notin Under(T, B, At(T, <<n, i>>))
                /\ \A j \in Slots : i # j =>
                      Under(T, B, At(T, <<n, i>>)) \cap Under(T, B, At(T, <<n, j>>)) = {}
           /\ \A n \in NodesOf(T) : \A m \in Under(T, B, n) :
                m = n \/ \E i \in Slots : m \in Under(T, B, At(T, <<n, i>>))
           /\ \A n \in NodesOf(T) : n \in Under(T, B, n)
<1>0. IsTree(T) /\ B \in [Addrs -> SUBSET Keys]
  BY TreeFacts
<1>1. \A n \in NodesOf(T) :
        /\ Cover(B, n) = B[n] /\ B[n] # {} /\ B[n] \subseteq Keys
        /\ \A i \in Slots : Cover(B, At(T, <<n, i>>)) = {k \in B[n] : Slot(T, n, k) = i}
        /\ \A k \in B[n] : Slot(T, n, k) \in Slots /\ T.node[n].byte < Len(k)
  BY TreeFacts
<1>2. Under(T, B, Null) = {}
  BY <1>0, <1>1, CoverType DEF Under
<1>3. ASSUME NEW k \in Keys, NEW m \in Under(T, B, k) PROVE FALSE
  <2>1. m \in NodesOf(T) /\ B[m] \subseteq {k}
    BY <1>0, CoverType DEF Under
  <2>2. PICK l \in B[m] : Slot(T, m, l) # Slot(T, m, k)
    BY <2>1, OtherKey
  <2> QED BY <2>1, <2>2
<1>4. ASSUME NEW n \in NodesOf(T), NEW i \in Slots
      PROVE  /\ Under(T, B, At(T, <<n, i>>)) \subseteq Under(T, B, n)
             /\ n \notin Under(T, B, At(T, <<n, i>>))
             /\ \A j \in Slots : i # j =>
                      Under(T, B, At(T, <<n, i>>)) \cap Under(T, B, At(T, <<n, j>>)) = {}
  <2>1. PICK k \in B[n] : Slot(T, n, k) # i
    BY OtherKey
  <2> QED BY <1>1, <2>1 DEF Under
<1>5. ASSUME NEW n \in NodesOf(T), NEW m \in Under(T, B, n), m # n
      PROVE  \E i \in Slots : m \in Under(T, B, At(T, <<n, i>>))
  <2>1. m \in NodesOf(T) /\ B[m] \subseteq B[n]
    BY <1>1 DEF Under
  <2>2. PICK k \in B[m] : k \in B[n]
    BY <1>1, <2>1
  <2>3. /\ \A x, y \in B[n] : Agree(x, y, T.node[n].byte, T.node[n].bit)
        /\ \A x, y \in B[m] : Agree(x, y, T.node[m].byte, T.node[m].bit)
    BY <2>1 DEF TreeOk, NodeOk
  <2>4. /\ \A x \in B[n] : Slot(T, n, x) = x[T.node[n].byte + 1][T.node[n].bit]
        /\ \A x \in B[m] : Slot(T, m, x) = x[T.node[m].byte + 1][T.node[m].bit]
    BY <1>0, <1>1, <2>1, SlotType
  <2>5. /\ T.node[n].byte \in Nat /\ T.node[m].byte \in Nat
        /\ T.node[n].bit \in Bits /\ T.node[m].bit \in Bits
        /\ T.node[n].bit \in Nat /\ T.node[m].bit \in Nat
    BY <2>1, TreeFacts, Constants
  <2>6. ~Earlier(T, m, n)
    <3> SUFFICES ASSUME Earlier(T, m, n) PROVE FALSE
      OBVIOUS
    <3>1. PICK l \in B[m] : Slot(T, m, l) # Slot(T, m, k)
      BY <2>1, OtherKey
    <3>2. Agree(l, k, T.node[n].byte, T.node[n].bit)
      BY <2>1, <2>2, <2>3
    <3>3. l[T.node[m].byte + 1][T.node[m].bit] = k[T.node[m].byte + 1][T.node[m].bit]
      BY <2>5, <3>2 DEF Earlier, Agree
    <3> QED BY <2>4, <3>1, <3>3
  <2>7. Earlier(T, n, m)
    BY <2>1, <2>2, <2>6, <1>5, Comparable
  <2>8. ASSUME NEW l \in B[m] PROVE Slot(T, n, l) = Slot(T, n, k)
    <3>1. Agree(l, k, T.node[m].byte, T.node[m].bit)
      BY <2>3
    <3>2. l[T.node[n].byte + 1][T.node[n].bit] = k[T.node[n].byte + 1][T.node[n].bit]
      BY <2>5, <2>7, <3>1 DEF Earlier, Agree
    <3> QED BY <2>1, <2>4, <3>2
  <2>9. PICK i \in Slots : i = Slot(T, n, k)
    BY <1>1, <2>2
  <2>10. B[m] \subseteq Cover(B, At(T, <<n, i>>))
    BY <1>1, <2>1, <2>8, <2>9
  <2> QED BY <2>1, <2>10 DEF Under
<1>6. \A n \in NodesOf(T) : n \in Under(T, B, n)
  BY <1>1 DEF Under
<1> QED BY <1>2, <1>3, <1>4, <1>5, <1>6

\* What delete_node frees at p, if x is what it frees one level below.
FreedAt(T, x, p) ==
    IF p = Null THEN <<>>
    ELSE IF p \notin NodesOf(T) THEN <<p>>
    ELSE Concat([i \in Slots |-> x[T.node[p].child[i]]]) \o <<p>>

FreedAt0(T, p) ==
    IF p = Null THEN <<>> ELSE IF p \notin NodesOf(T) THEN <<p>> ELSE <<>>

\* c[d] is what delete_node frees if it goes d levels deep.
Deletes(T, c) ==
    /\ \A p \in Ptrs : c[0][p] = FreedAt0(T, p)
    /\ \A d \in 1 .. Cardinality(NodesOf(T)) : \A p \in Ptrs : c[d][p] = FreedAt(T, c[d - 1], p)
    /\ \A p \in Ptrs : delete_node(T, p) = c[Cardinality(NodesOf(T))][p]

LEMMA DeleteIs ==
    ASSUME NEW T, IsTree(T)
    PROVE  \E c : Deletes(T, c)
<1>0. PICK N \in Nat : N = Cardinality(NodesOf(T))
  BY FS_CardinalityType DEF IsTree
<1> DEFINE Body(u) == [d \in 0 .. Cardinality(NodesOf(T)) |->
                         [p \in Ptrs |->
                            IF p = Null THEN <<>>
                            ELSE IF p \notin NodesOf(T) THEN <<p>>
                            ELSE IF d = 0 THEN <<>>
                            ELSE Concat([i \in Slots |-> u[d - 1][T.node[p].child[i]]]) \o <<p>>]]
           Eqn(u) == u = Body(u)
           c == CHOOSE u : Eqn(u)
           Rows == [Ptrs -> Seq(Freed)]
<1>1. /\ \A p \in NodesOf(T), i \in Slots : T.node[p].child[i] \in Ptrs
      /\ NodesOf(T) \subseteq Freed /\ \A p \in Ptrs : p # Null => p \in Freed
  BY DEF IsTree, NodeType, Freed, Ptrs
<1>2. <<>> \in Seq(Freed) /\ (\A x, y \in Seq(Freed) : x \o y \in Seq(Freed)) /\ \A p \in Freed : <<p>> \in Seq(Freed)
  OBVIOUS
<1>3. ASSUME NEW x \in Rows, NEW p \in Ptrs PROVE FreedAt(T, x, p) \in Seq(Freed)
  <2>1. CASE p \in NodesOf(T)
    <3>1. PICK lists : lists = [i \in Slots |-> x[T.node[p].child[i]]]
      OBVIOUS
    <3>2. \A i \in Slots : lists[i] \in Seq(Freed)
      BY <1>1, <2>1, <3>1
    <3>3. PICK u : Joins(lists, u)
      BY <3>2, ConcatIs
    <3>4. SLNODES \in 0 .. SLNODES
      BY Constants
    <3>5. Concat(lists) \in Seq(Freed)
      BY <3>3, <3>4, Zenon DEF Joins
    <3>6. FreedAt(T, x, p) = Concat(lists) \o <<p>> \/ FreedAt(T, x, p) = <<>>
      BY <2>1, <3>1 DEF FreedAt
    <3> QED BY <1>1, <1>2, <2>1, <3>5, <3>6, Zenon
  <2>2. CASE p \notin NodesOf(T)
    <3>1. FreedAt(T, x, p) = IF p = Null THEN <<>> ELSE <<p>>
      BY <2>2 DEF FreedAt
    <3> QED BY <1>1, <1>2, <3>1, Zenon
  <2> QED BY <2>1, <2>2
<1>4. \A p \in Ptrs : FreedAt0(T, p) \in Seq(Freed)
  BY <1>1, <1>2, Zenon DEF FreedAt0
<1>5. PICK f : Eqn(f)
  <2>1. PICK S : S = Rows
    OBVIOUS
  <2>2. PICK s : s = [p \in Ptrs |-> FreedAt0(T, p)]
    OBVIOUS
  <2>3. PICK row : row = [x \in S |-> [p \in Ptrs |-> FreedAt(T, x, p)]]
    OBVIOUS
  <2>4. PICK step : step = [d \in 1 .. N |-> row]
    OBVIOUS
  <2>5. s \in S
    BY <1>4, <2>1, <2>2
  <2>6. row \in [S -> S]
    BY <1>3, <2>1, <2>3
  <2>7. step \in [1 .. N -> [S -> S]]
    BY <2>4, <2>6
  <2>8. PICK f : Recurs(S, N, s, step, f)
    BY ONLY <1>0, <2>5, <2>7, Recursion
  <2>9. f \in [0 .. N -> S] /\ f[0] = s /\ \A d \in 1 .. N : f[d] = step[d][f[d - 1]]
    BY <2>8 DEF Recurs
  <2>10. \A d \in 0 .. N : d # 0 => d \in 1 .. N /\ d - 1 \in 0 .. N
    OBVIOUS
  <2>11. \A d \in 0 .. N : d # 0 => f[d] = [p \in Ptrs |-> FreedAt(T, f[d - 1], p)]
    BY <2>3, <2>4, <2>9, <2>10, Zenon
  <2>12. ASSUME NEW d \in 0 .. N
         PROVE  f[d] = [p \in Ptrs |->
                            IF p = Null THEN <<>>
                            ELSE IF p \notin NodesOf(T) THEN <<p>>
                            ELSE IF d = 0 THEN <<>>
                            ELSE Concat([i \in Slots |-> f[d - 1][T.node[p].child[i]]]) \o <<p>>]
    <3>1. CASE d = 0
      BY <2>2, <2>9, <3>1, Zenon DEF FreedAt0
    <3>2. CASE d # 0
      BY <2>11, <3>2, Zenon DEF FreedAt
    <3> QED BY <3>1, <3>2
  <2>13. f = [d \in 0 .. N |-> f[d]]
    BY <2>9
  <2>14. Eqn(f)
    BY <1>0, <2>12, <2>13, Zenon
  <2> QED BY <2>14
<1>6. Eqn(c)
  <2> HIDE DEF Eqn
  <2> QED BY <1>5
<1>7. \A p : delete_node(T, p) = c[N][p]
  BY <1>0 DEF delete_node
<1> HIDE DEF c
<1>8. \A d \in 0 .. N : \A p \in Ptrs :
        c[d][p] = IF p = Null THEN <<>>
                  ELSE IF p \notin NodesOf(T) THEN <<p>>
                  ELSE IF d = 0 THEN <<>>
                  ELSE Concat([i \in Slots |-> c[d - 1][T.node[p].child[i]]]) \o <<p>>
  <2> DEFINE Row(d) == [p \in Ptrs |->
                            IF p = Null THEN <<>>
                            ELSE IF p \notin NodesOf(T) THEN <<p>>
                            ELSE IF d = 0 THEN <<>>
                            ELSE Concat([i \in Slots |-> c[d - 1][T.node[p].child[i]]]) \o <<p>>]
  <2>1. c = [d \in 0 .. N |-> Row(d)]
    BY <1>0, <1>6, Zenon
  <2>2. \A d \in 0 .. N : c[d] = Row(d)
    <3> HIDE DEF Row
    <3>1. PICK g : g = [d \in 0 .. N |-> Row(d)]
      OBVIOUS
    <3>2. \A d \in 0 .. N : g[d] = Row(d)
      BY <3>1, Zenon
    <3> QED BY <2>1, <3>1, <3>2, Zenon
  <2> HIDE DEF Eqn, Body
  <2> SUFFICES ASSUME NEW d \in 0 .. N, NEW p \in Ptrs
               PROVE c[d][p] = IF p = Null THEN <<>>
                  ELSE IF p \notin NodesOf(T) THEN <<p>>
                  ELSE IF d = 0 THEN <<>>
                  ELSE Concat([i \in Slots |-> c[d - 1][T.node[p].child[i]]]) \o <<p>>
    OBVIOUS
  <2>3. c[d] = Row(d)
    BY <2>2
  <2> QED BY <2>3, Zenon
<1>9. 0 \in 0 .. N /\ \A d \in 1 .. N : d \in 0 .. N /\ d # 0
  OBVIOUS
<1>10. \A p \in Ptrs : c[0][p] = FreedAt0(T, p)
  BY <1>8, <1>9, Zenon DEF FreedAt0
<1>11. \A d \in 1 .. N : \A p \in Ptrs : c[d][p] = FreedAt(T, c[d - 1], p)
  BY <1>8, <1>9, Zenon DEF FreedAt
<1>12. Deletes(T, c)
  BY <1>0, <1>7, <1>10, <1>11, Zenon DEF Deletes
<1> QED BY <1>12

\* delete_node frees the keys and the nodes below a pointer, each of them once.
LEMMA DeleteLists ==
    ASSUME NEW T, NEW K, NEW B, TreeOk(T, K, B), NEW p \in Places(T)
    PROVE  Lists(delete_node(T, At(T, p)), Cover(B, At(T, p)) \cup Under(T, B, At(T, p)))
<1>0. IsTree(T) /\ B \in [Addrs -> SUBSET Keys]
  BY TreeFacts
<1>1. PICK N \in Nat : N = Cardinality(NodesOf(T))
  BY <1>0, FS_CardinalityType DEF IsTree
<1>2. PICK c : Deletes(T, c)
  BY <1>0, DeleteIs
<1>3. PICK L : L = {x \in Ptrs : x \in Addrs => x \in NodesOf(T)}
  OBVIOUS
<1>4. /\ \A x \in L : x \in Ptrs /\ (x = Null \/ x \in Keys \/ x \in NodesOf(T))
      /\ \A q \in Places(T) : At(T, q) \in L
  BY <1>3, TreeFacts DEF Ptrs
<1>5. \A x \in Ptrs : IsFiniteSet(Under(T, B, x)) /\ Cardinality(Under(T, B, x)) \in Nat
                      /\ Cardinality(Under(T, B, x)) <= N
  <2> SUFFICES ASSUME NEW x \in Ptrs
               PROVE  IsFiniteSet(Under(T, B, x)) /\ Cardinality(Under(T, B, x)) \in Nat
                      /\ Cardinality(Under(T, B, x)) <= N
    OBVIOUS
  <2>1. IsFiniteSet(NodesOf(T)) /\ Under(T, B, x) \subseteq NodesOf(T)
    BY <1>0 DEF IsTree, Under
  <2> QED BY <1>1, <2>1, FS_Subset, FS_CardinalityType
<1> DEFINE Done(d, x) == Cardinality(Under(T, B, x)) <= d => Lists(c[d][x], Cover(B, x) \cup Under(T, B, x))
<1>6. ASSUME NEW d \in 0 .. N, NEW x \in L, x \notin NodesOf(T)
      PROVE  Lists(c[d][x], Cover(B, x) \cup Under(T, B, x))
  <2>0. d \in 0 .. N => d = 0 \/ d \in 1 .. N
    OBVIOUS
  <2>1. c[d][x] = IF x = Null THEN <<>> ELSE <<x>>
    <3>1. CASE d = 0
      BY <1>2, <1>4, <1>6, <3>1, Zenon DEF Deletes, FreedAt0
    <3>2. CASE d \in 1 .. N
      BY <1>1, <1>2, <1>4, <1>6, <3>2, Zenon DEF Deletes, FreedAt
    <3> QED BY <2>0, <3>1, <3>2
  <2>2. CASE x = Null
    <3>1. Cover(B, x) \cup Under(T, B, x) = {}
      BY <1>0, <2>2, CoverType, UnderIs
    <3> QED BY <2>1, <2>2, <3>1, ListsFacts
  <2>3. CASE x \in Keys
    <3>1. Cover(B, x) = {x} /\ Under(T, B, x) = {}
      BY <1>0, <2>3, CoverType, UnderIs
    <3>2. Cover(B, x) \cup Under(T, B, x) = {x} /\ x \in Freed /\ x # Null
      BY <2>3, <3>1, Constants DEF Freed
    <3>3. Lists(<<x>>, {x})
      BY <3>2, ListsFacts
    <3> QED BY <2>1, <3>2, <3>3
  <2> QED BY <1>4, <1>6, <2>2, <2>3
<1>7. ASSUME NEW d \in 0 .. N, d < N, \A x \in L : Done(d, x), NEW n \in NodesOf(T), n \in L,
             Cardinality(Under(T, B, n)) <= d + 1
      PROVE  Lists(c[d + 1][n], Cover(B, n) \cup Under(T, B, n))
  <2> DEFINE Kid(i) == At(T, <<n, i>>)
             Y == [i \in Slots |-> Cover(B, Kid(i)) \cup Under(T, B, Kid(i))]
             lists == [i \in Slots |-> c[d][T.node[n].child[i]]]
  <2>1. /\ n \in Ptrs /\ n # Null /\ n \in Freed /\ n \notin Keys
        /\ Cover(B, n) = B[n] /\ \A k \in B[n] : Slot(T, n, k) \in Slots
        /\ \A i \in Slots : Cover(B, Kid(i)) = {k \in B[n] : Slot(T, n, k) = i}
        /\ B[n] \subseteq Keys
    BY TreeFacts DEF Freed
  <2>2. \A i \in Slots : Kid(i) \in L /\ T.node[n].child[i] = Kid(i)
    BY <1>0, <1>4, PlaceFacts
  <2>3. /\ n \in Under(T, B, n)
        /\ \A i \in Slots : /\ Under(T, B, Kid(i)) \subseteq Under(T, B, n) /\ n \notin Under(T, B, Kid(i))
                            /\ \A j \in Slots : i # j => Under(T, B, Kid(i)) \cap Under(T, B, Kid(j)) = {}
        /\ \A m \in Under(T, B, n) : m = n \/ \E i \in Slots : m \in Under(T, B, Kid(i))
    BY UnderIs
  <2>4. ASSUME NEW i \in Slots PROVE Cardinality(Under(T, B, Kid(i))) <= d
    <3>1. PICK U : U = Under(T, B, n)
      OBVIOUS
    <3>2. PICK W : W = Under(T, B, Kid(i))
      OBVIOUS
    <3>3. /\ IsFiniteSet(U) /\ Cardinality(U) \in Nat /\ IsFiniteSet(W) /\ Cardinality(W) \in Nat
          /\ Cardinality(U) <= d + 1
      BY <1>4, <1>5, <1>7, <2>1, <2>2, <3>1, <3>2
    <3>4. W \subseteq U /\ n \in U /\ n \notin W
      BY <2>3, <3>1, <3>2
    <3>5. Cardinality(W) < Cardinality(U)
      BY ONLY <3>3, <3>4, FS_Subset
    <3> QED BY <3>2, <3>3, <3>5
  <2>5. \A i \in Slots : Lists(lists[i], Y[i])
    BY <1>7, <2>2, <2>4
  <2>6. \A i, j \in Slots : i # j => Y[i] \cap Y[j] = {}
    <3>1. \A i \in Slots : Y[i] = Cover(B, Kid(i)) \cup Under(T, B, Kid(i))
      OBVIOUS
    <3>2. \A i \in Slots : Cover(B, Kid(i)) \subseteq Keys /\ Under(T, B, Kid(i)) \cap Keys = {}
      BY <2>1, TreeFacts DEF Under
    <3> HIDE DEF Y, Kid
    <3> QED BY <2>1, <2>3, <3>1, <3>2
  <2>7. UNION {Y[i] : i \in Slots} = B[n] \cup (Under(T, B, n) \ {n})
    <3>1. \A i \in Slots : Y[i] = Cover(B, Kid(i)) \cup Under(T, B, Kid(i))
      OBVIOUS
    <3> HIDE DEF Y, Kid
    <3>2. ASSUME NEW x \in B[n] PROVE x \in UNION {Y[i] : i \in Slots}
      BY <2>1, <3>1
    <3>3. ASSUME NEW x \in Under(T, B, n), x # n PROVE x \in UNION {Y[i] : i \in Slots}
      BY <2>3, <3>1, <3>3
    <3>4. ASSUME NEW i \in Slots, NEW x \in Y[i] PROVE x \in B[n] \cup (Under(T, B, n) \ {n})
      BY <2>1, <2>3, <3>1
    <3> QED BY <3>2, <3>3, <3>4
  <2>8. c[d + 1][n] = Concat(lists) \o <<n>>
    <3>1. d + 1 \in 1 .. N /\ (d + 1) - 1 = d
      BY <1>7
    <3>2. c[d + 1][n] = FreedAt(T, c[(d + 1) - 1], n)
      BY <1>1, <1>2, <2>1, <3>1, Zenon DEF Deletes
    <3>3. c[d + 1][n] = FreedAt(T, c[d], n)
      BY <3>1, <3>2
    <3> QED BY <2>1, <3>3, Zenon DEF FreedAt
  <2> HIDE DEF Y, lists, Kid
  <2>9. Lists(Concat(lists), UNION {Y[i] : i \in Slots})
    BY <2>5, <2>6, ConcatLists
  <2>10. Lists(Concat(lists), B[n] \cup (Under(T, B, n) \ {n}))
    BY <2>7, <2>9
  <2>11. Lists(<<n>>, {n})
    BY <2>1, ListsFacts
  <2>12. PICK Z : Z = B[n] \cup (Under(T, B, n) \ {n})
    OBVIOUS
  <2>13. Z \cap {n} = {}
    BY <2>1, <2>12
  <2>14. Lists(Concat(lists) \o <<n>>, Z \cup {n})
    BY <2>10, <2>11, <2>12, <2>13, ListsConcat
  <2>15. Z \cup {n} = Cover(B, n) \cup Under(T, B, n)
    BY <2>1, <2>3, <2>12
  <2> QED BY <2>8, <2>14, <2>15
<1>8. \A d \in 0 .. N : \A x \in L : Done(d, x)
  <2>1. PICK S : S = {d \in 0 .. N : \A x \in L : Done(d, x)}
    OBVIOUS
  <2>2. 0 \in S
    <3>1. ASSUME NEW x \in L, Cardinality(Under(T, B, x)) <= 0 PROVE x \notin NodesOf(T)
      <4> SUFFICES ASSUME x \in NodesOf(T) PROVE FALSE
        OBVIOUS
      <4>1. x \in Under(T, B, x) /\ x \in Ptrs
        BY <1>4, UnderIs
      <4>2. IsFiniteSet(Under(T, B, x)) /\ Cardinality(Under(T, B, x)) = 0
        BY <1>5, <3>1, <4>1
      <4> QED BY <4>1, <4>2, FS_EmptySet
    <3>2. 0 \in 0 .. N
      OBVIOUS
    <3>3. \A x \in L : Done(0, x)
      BY <1>6, <3>1, <3>2
    <3> HIDE DEF Done
    <3> QED BY <2>1, <3>2, <3>3
  <2>3. ASSUME NEW d \in 0 .. N, d \in S, d < N
        PROVE  d + 1 \in S
    <3>1. d + 1 \in 0 .. N
      BY <2>3
    <3>2. \A x \in L : Done(d, x)
      BY <2>1, <2>3
    <3>3. ASSUME NEW x \in L PROVE Done(d + 1, x)
      <4>1. CASE x \in NodesOf(T)
        BY <1>7, <2>3, <3>2, <4>1
      <4>2. CASE x \notin NodesOf(T)
        BY <1>6, <3>1, <4>2
      <4> QED BY <4>1, <4>2
    <3> HIDE DEF Done
    <3> QED BY <2>1, <3>1, <3>3
  <2>4. \A d \in 0 .. N : d \in S
    <3> HIDE DEF Done
    <3> QED BY ONLY <2>2, <2>3, Induct
  <2> HIDE DEF Done
  <2> QED BY <2>1, <2>4
<1>9. PICK x \in L : x = At(T, p)
  BY <1>4
<1>10. x \in Ptrs /\ Cardinality(Under(T, B, x)) <= N /\ N \in 0 .. N
  BY <1>4, <1>5
<1>11. Lists(c[N][x], Cover(B, x) \cup Under(T, B, x))
  BY <1>8, <1>10
<1> QED BY <1>1, <1>2, <1>9, <1>10, <1>11 DEF Deletes

----------------------------------------------------------------------------
(* Trees *)

LEMMA EmptyIs == TreeOf(EmptyTree, {}) /\ NodesOf(EmptyTree) = {}
<1>1. PICK T : T = EmptyTree
  OBVIOUS
<1>2. T.root = Null /\ NodesOf(T) = {} /\ T = [root |-> T.root, node |-> T.node]
  BY <1>1 DEF EmptyTree, NodesOf
<1>3. IsTree(T)
  <2>1. T.node \in [NodesOf(T) -> NodeType]
    BY <1>1 DEF EmptyTree, NodesOf
  <2> QED BY <1>2, <2>1, FS_EmptySet DEF IsTree, Ptrs
<1>4. PICK B : B = [a \in Addrs |-> {}]
  OBVIOUS
<1>5. \A p \in Places(T) : p = Top /\ At(T, p) = Null
  BY <1>2, <1>3, PlaceFacts
<1>6. Null \notin Addrs /\ Cover(B, Null) = {}
  BY Constants DEF Cover
<1>7. TreeOk(T, {}, B)
  BY <1>2, <1>3, <1>4, <1>5, <1>6 DEF TreeOk
<1> QED BY <1>1, <1>2, <1>7 DEF TreeOf

LEMMA TreeIs ==
    ASSUME NEW T, NEW K, TreeOf(T, K)
    PROVE  /\ K \subseteq Keys /\ IsFiniteSet(NodesOf(T)) /\ NodesOf(T) \subseteq Addrs
           /\ \A k \in Keys : critnib_get(T, k) <=> k \in K
<1>1. PICK B : TreeOk(T, K, B)
  BY DEF TreeOf
<1>2. IsTree(T) /\ B \in [Addrs -> SUBSET Keys] /\ Cover(B, T.root) = K /\ T.root \in Ptrs
  BY <1>1, TreeFacts DEF IsTree
<1>3. K \subseteq Keys
  BY <1>2, CoverType
<1>4. \A k \in Keys : critnib_get(T, k) <=> k \in K
  BY <1>1, Get
<1> QED BY <1>2, <1>3, <1>4 DEF IsTree

\* delete_node at the root frees all keys and all nodes, each of them once.
LEMMA DeleteAll ==
    ASSUME NEW T, NEW K, TreeOf(T, K)
    PROVE  Lists(delete_node(T, T.root), K \cup NodesOf(T))
<1>1. PICK B : TreeOk(T, K, B)
  BY DEF TreeOf
<1>2. IsTree(T) /\ Cover(B, T.root) = K
  BY <1>1, TreeFacts
<1>3. Top \in Places(T) /\ At(T, Top) = T.root
  BY <1>2, PlaceFacts
<1>4. Under(T, B, T.root) = NodesOf(T)
  BY <1>1, <1>2, BelowKeys DEF Under
<1>5. Lists(delete_node(T, At(T, Top)), Cover(B, At(T, Top)) \cup Under(T, B, At(T, Top)))
  BY <1>1, <1>3, DeleteLists
<1> QED BY <1>2, <1>3, <1>4, <1>5

LEMMA TreeWellFormed ==
    ASSUME NEW T, NEW K, TreeOf(T, K)
    PROVE  WellFormed(T)
<1>1. PICK B : TreeOk(T, K, B)
  BY DEF TreeOf
<1>2. IsTree(T)
  BY <1>1, TreeFacts
<1> SUFFICES ASSUME NEW n \in NodesOf(T)
             PROVE  LET byte == T.node[n].byte
                        bit == T.node[n].bit
                        Below(i) == Elements(delete_node(T, T.node[n].child[i])) \cap Keys
                    IN  /\ \E i, j \in Children(T, n) : i # j
                        /\ \A i \in Children(T, n) : \A k \in Below(i) :
                             /\ Len(k) > byte /\ Slot(T, n, k) = i
                             /\ \A j \in Children(T, n) : \A l \in Below(j) :
                                  /\ \A b \in 1 .. byte : k[b] = l[b]
                                  /\ \A b \in Bits : b > bit => k[byte + 1][b] = l[byte + 1][b]
  BY DEF WellFormed
<1> DEFINE Below(i) == Elements(delete_node(T, T.node[n].child[i])) \cap Keys
<1>3. NodeOk(T, B, n) /\ T.node[n].byte \in Nat
  BY <1>1, TreeFacts DEF TreeOk
<1>4. \A i \in Slots : At(T, <<n, i>>) = T.node[n].child[i] /\ <<n, i>> \in Places(T)
  BY <1>2, PlaceFacts
<1>5. ASSUME NEW i \in Slots PROVE Below(i) = {k \in B[n] : Slot(T, n, k) = i}
  <2>1. PICK p : p = T.node[n].child[i]
    OBVIOUS
  <2>2. Lists(delete_node(T, p), Cover(B, p) \cup Under(T, B, p))
    BY <1>1, <1>4, <2>1, DeleteLists
  <2>3. Elements(delete_node(T, p)) = Cover(B, p) \cup Under(T, B, p)
    BY <2>2 DEF Lists
  <2>4. Under(T, B, p) \cap Keys = {}
    BY <1>1, TreeFacts DEF Under
  <2>5. Cover(B, p) = {k \in B[n] : Slot(T, n, k) = i} /\ B[n] \subseteq Keys
    <3>1. B[n] \subseteq Keys
      BY <1>1, TreeFacts
    <3> QED BY <1>3, <1>4, <2>1, <3>1 DEF NodeOk
  <2> QED BY <2>1, <2>3, <2>4, <2>5
<1>6. Children(T, n) \subseteq Slots /\ \E i, j \in Children(T, n) : i # j
  BY <1>3, <1>4 DEF Children, NodeOk
<1>7. ASSUME NEW i \in Children(T, n), NEW k \in Below(i)
      PROVE  /\ k \in B[n] /\ Len(k) > T.node[n].byte /\ Slot(T, n, k) = i
  <2>1. k \in {x \in B[n] : Slot(T, n, x) = i}
    BY <1>5, <1>6
  <2> QED BY <1>3, <2>1 DEF NodeOk
<1>8. ASSUME NEW i \in Children(T, n), NEW k \in Below(i), NEW j \in Children(T, n), NEW l \in Below(j)
      PROVE  /\ \A b \in 1 .. T.node[n].byte : k[b] = l[b]
             /\ \A b \in Bits : b > T.node[n].bit =>
                   k[T.node[n].byte + 1][b] = l[T.node[n].byte + 1][b]
  <2>1. k \in B[n] /\ l \in B[n]
    BY <1>7
  <2>2. Agree(k, l, T.node[n].byte, T.node[n].bit)
    BY <1>3, <2>1 DEF NodeOk
  <2>3. ASSUME NEW b \in 1 .. T.node[n].byte PROVE k[b] = l[b]
    <3>1. b - 1 \in Nat /\ b - 1 < T.node[n].byte /\ (b - 1) + 1 = b
      BY <1>3
    <3>2. k[(b - 1) + 1] = l[(b - 1) + 1]
      BY <2>2, <3>1 DEF Agree
    <3> QED BY <3>1, <3>2
  <2> QED BY <2>2, <2>3 DEF Agree
<1> HIDE DEF Below
<1>9. /\ \E i, j \in Children(T, n) : i # j
      /\ \A i \in Children(T, n) : \A k \in Below(i) :
           /\ Len(k) > T.node[n].byte /\ Slot(T, n, k) = i
           /\ \A j \in Children(T, n) : \A l \in Below(j) :
                /\ \A b \in 1 .. T.node[n].byte : k[b] = l[b]
                /\ \A b \in Bits : b > T.node[n].bit =>
                     k[T.node[n].byte + 1][b] = l[T.node[n].byte + 1][b]
  BY <1>6, <1>7, <1>8
<1> QED BY <1>9, Zenon DEF Below
=============================================================================
