--------------------------- MODULE RingBufProofs ---------------------------
(***************************************************************************)
(* Proofs about the ring buffer of ringbuf.c (module RingBuf) with one     *)
(* consumer at a time, for any number of producers and pointers, any       *)
(* length of the ring and any width of the counters.                       *)
(***************************************************************************)
EXTENDS RingBuf, FiniteSetTheorems, TLAPS

----------------------------------------------------------------------------
(* The inductive invariant.  Positions are counted without wrapping around:   *)
(* R is the oldest one that is not emptied yet, W the next one to be claimed. *)

\* Consumers exclude each other: they hold head->lock.
OneConsumer == \A c, d \in Consumers : c = d

\* The counter's value at position P, and the slot that belongs to it.
At(P) == P % PosMod
Cell(P) == P % RingLen

Fetchers == {p \in Producers : ppc[p] = "fetch"}
Storers == {p \in Producers : ppc[p] = "store"}
Posters == {p \in Producers : ppc[p] = "post"}
Takers == {c \in Consumers : cpc[c] \in {"fetch", "swap"}}
Givers == {c \in Consumers : cpc[c] = "post"}

RingTypes ==
    /\ nfree \in Nat /\ nused \in Nat
    /\ data \in [Slots -> Entries \cup {None}]
    /\ ppc \in [Producers -> {"idle", "fetch", "store", "post"}]
    /\ pdata \in [Producers -> Entries \cup {None}]
    /\ w \in [Producers -> Nat]
    /\ cpc \in [Consumers -> {"idle", "fetch", "swap", "post"}]
    /\ cdata \in [Consumers -> Entries \cup {None}]
    /\ r \in [Consumers -> Nat]
    /\ avail \in SUBSET Entries

\* A pointer is in one place: with the clients, in the hands of a producer or a
\* consumer, or in a slot.
Pointers ==
    /\ \A p \in Producers : pdata[p] # None <=> ppc[p] \in {"fetch", "store"}
    /\ \A c \in Consumers : cdata[c] # None <=> cpc[c] = "post"
    /\ \A p, q \in Producers : pdata[p] # None /\ pdata[p] = pdata[q] => p = q
    /\ \A s, u \in Slots : data[s] # None /\ data[s] = data[u] => s = u
    /\ \A p \in Producers : pdata[p] # None =>
          /\ pdata[p] \notin avail
          /\ \A s \in Slots : data[s] # pdata[p]
          /\ \A c \in Consumers : cdata[c] # pdata[p]
    /\ \A s \in Slots : data[s] # None =>
          data[s] \notin avail /\ \A c \in Consumers : cdata[c] # data[s]
    /\ \A c \in Consumers : cdata[c] \notin avail

\* A producer has claimed this position and not stored its pointer yet.
Pending(pos) == \E p \in Storers : w[p] = pos

\* Each token is somewhere: between the semaphores and the window R .. W - 1.
Tokens(R, W) ==
    /\ nfree + Cardinality(Fetchers) + (W - R) + Cardinality(Givers) = RingLen
    /\ nused + Cardinality(Takers) + Cardinality(Storers) + Cardinality(Posters) = W - R

\* Where the counters and the threads are.
Counters(R, W) ==
    /\ R <= W
    /\ write_pos = At(W)
    /\ \A c \in Consumers : cpc[c] = "swap" => r[c] = At(R) /\ read_pos = At(R + 1)
    /\ (\A c \in Consumers : cpc[c] # "swap") => read_pos = At(R)
    /\ \A p \in Storers : \E P \in R .. W - 1 : w[p] = At(P)
    /\ \A p, q \in Storers : w[p] = w[q] => p = q

\* A slot is full if and only if its position in the window is not pending.
Contents(R, W) ==
    /\ \A P \in R .. W - 1 : data[Cell(P)] = None <=> Pending(At(P))
    /\ \A s \in Slots : data[s] # None => \E P \in R .. W - 1 : s = Cell(P)

Window(R, W) == Tokens(R, W) /\ Counters(R, W) /\ Contents(R, W)

WindowInv == \E R, W \in Nat : Window(R, W)

RingInv == RingTypes /\ Pointers /\ WindowInv

----------------------------------------------------------------------------
(* Counters that wrap around *)

\* Division with remainder.
LEMMA DivMod ==
    ASSUME NEW a \in Int, NEW m \in Nat \ {0}
    PROVE  a % m \in 0 .. m - 1 /\ \E q \in Int : a = m * q + (a % m)
<1>1. a % m \in 0 .. m - 1 /\ a \div m \in Int /\ a = m * (a \div m) + (a % m)
  OBVIOUS
<1> QED  BY <1>1

\* The remainder is the only one.
LEMMA ModIs ==
    ASSUME NEW m \in Nat \ {0}, NEW q \in Int, NEW d \in 0 .. m - 1
    PROVE  (m * q + d) % m = d
OBVIOUS

\* Adding a multiple.
LEMMA ModShift ==
    ASSUME NEW m \in Nat \ {0}, NEW a \in Int, NEW k \in Int
    PROVE  (m * k + a) % m = a % m
<1>1. PICK q \in Int : a = m * q + (a % m) /\ a % m \in 0 .. m - 1
  BY DivMod
<1>2. PICK d \in 0 .. m - 1 : d = a % m
  BY <1>1
<1>3. PICK h \in Int : h = k + q
  OBVIOUS
<1>4. m * h = m * k + m * q
  BY <1>3
<1>5. m * k + a = m * h + d
  BY <1>1, <1>2, <1>4
<1>6. (m * h + d) % m = d
  BY ModIs
<1> QED  BY <1>2, <1>5, <1>6

\* Numbers closer to each other than m have different remainders.
LEMMA ModInjective ==
    ASSUME NEW m \in Nat \ {0}, NEW a \in Int, NEW b \in Int, a <= b, b < a + m, a % m = b % m
    PROVE  a = b
<1>1. PICK q \in Int : a = m * q + (a % m)
  BY DivMod
<1>2. PICK h \in Int : b = m * h + (b % m)
  BY DivMod
<1>3. PICK d \in Int : d = h - q
  OBVIOUS
<1>4. m * h = m * q + m * d
  BY <1>3
<1>5. a % m \in Int /\ m * h \in Int /\ m * q \in Int /\ m * d \in Int
  BY DivMod
<1>6. b - a = m * d
  BY <1>1, <1>2, <1>4, <1>5
<1>7. m * d >= 0 /\ m * d < m
  BY <1>6
<1>8. d >= 1 => m * d >= m
  OBVIOUS
<1>9. d <= -1 => m * d <= -m
  OBVIOUS
<1>10. d = 0
  BY <1>7, <1>8, <1>9
<1> QED  BY <1>6, <1>10

\* Counting on from a remainder.
LEMMA ModPlus ==
    ASSUME NEW m \in Nat \ {0}, NEW a \in Int, NEW i \in Int
    PROVE  ((a % m) + i) % m = (a + i) % m
<1>1. PICK q \in Int : a = m * q + (a % m) /\ a % m \in 0 .. m - 1
  BY DivMod
<1>2. PICK b \in Int : b = (a % m) + i
  BY <1>1
<1>3. a + i = m * q + b
  BY <1>1, <1>2
<1>4. (m * q + b) % m = b % m
  BY ModShift
<1> QED  BY <1>2, <1>3, <1>4

\* The distance of two remainders.
LEMMA ModMinus ==
    ASSUME NEW m \in Nat \ {0}, NEW a \in Int, NEW b \in Int
    PROVE  ((b % m) - (a % m)) % m = (b - a) % m
<1>1. PICK q \in Int : a = m * q + (a % m) /\ a % m \in 0 .. m - 1
  BY DivMod
<1>2. PICK h \in Int : b = m * h + (b % m) /\ b % m \in 0 .. m - 1
  BY DivMod
<1>3. PICK x \in Int, y \in Int : x = a % m /\ y = b % m
  BY <1>1, <1>2
<1>4. PICK d \in Int : d = h - q
  OBVIOUS
<1>5. m * d = m * h - m * q
  BY <1>4
<1>6. PICK c \in Int : c = y - x
  OBVIOUS
<1>7. PICK mq \in Int, mh \in Int, md \in Int : mq = m * q /\ mh = m * h /\ md = m * d
  OBVIOUS
<1>8. a = mq + x /\ b = mh + y /\ md = mh - mq
  BY <1>1, <1>2, <1>3, <1>5, <1>7
<1>9. b - a = md + c
  BY <1>6, <1>8
<1>10. (m * d + c) % m = c % m
  BY ModShift
<1> QED  BY <1>3, <1>6, <1>7, <1>9, <1>10

\* Reducing twice, first by a multiple.
LEMMA ModMod ==
    ASSUME NEW l \in Nat \ {0}, NEW m \in Nat \ {0}, m % l = 0, NEW a \in Int
    PROVE  (a % m) % l = a % l
<1>1. PICK q \in Int : a = m * q + (a % m) /\ a % m \in 0 .. m - 1
  BY DivMod
<1>2. PICK k \in Int : m = l * k
  <2>1. m = l * (m \div l) + (m % l) /\ m \div l \in Int
    OBVIOUS
  <2> QED  BY <2>1
<1>3. PICK b \in Int : b = a % m
  BY <1>1
<1>4. PICK h \in Int : h = k * q
  OBVIOUS
<1>5. m * q = l * h
  BY <1>2, <1>4
<1>6. a = l * h + b
  BY <1>1, <1>3, <1>5
<1>7. (l * h + b) % l = b % l
  BY ModShift
<1> QED  BY <1>3, <1>6, <1>7

\* What is needed of positions: a fetch-and-add moves on by one, a counter value
\* determines the slot, and within RingLen positions neither is ambiguous.
LEMMA Wrapping ==
    /\ \A P \in Int : At(P) \in Nat /\ Cell(P) \in Slots /\ Slot(At(P)) = Cell(P)
    /\ \A P, Q \in Int : P <= Q /\ Q < P + RingLen /\ Cell(P) = Cell(Q) => P = Q
    /\ \A P, Q \in Int : P <= Q /\ Q <= P + RingLen /\ At(P) = At(Q) => P = Q
    /\ \A P \in Int : Next64(At(P)) = At(P + 1)
    /\ \A P, i \in Int : (At(P) + i - 1) % PosMod = At(P + i - 1)
    /\ \A P, Q \in Int : P <= Q /\ Q <= P + RingLen => (At(Q) - At(P)) % PosMod = Q - P
<1>0. /\ RingLen \in Nat \ {0} /\ PosMod \in Nat \ {0} /\ PosMod > RingLen
      /\ PosMod % RingLen = 0
  BY RingBufAssumption
<1>1. ASSUME NEW P \in Int PROVE At(P) \in Nat /\ Cell(P) \in Slots /\ Slot(At(P)) = Cell(P)
  <2>1. P % PosMod \in 0 .. PosMod - 1 /\ P % RingLen \in 0 .. RingLen - 1
    BY <1>0, DivMod
  <2>2. (P % PosMod) % RingLen = P % RingLen
    BY <1>0, ModMod
  <2> QED  BY <2>1, <2>2 DEF At, Cell, Slots, Slot
<1>2. ASSUME NEW P \in Int, NEW Q \in Int, P <= Q, Q < P + RingLen, Cell(P) = Cell(Q)
      PROVE  P = Q
  BY <1>0, <1>2, ModInjective DEF Cell
<1>3. ASSUME NEW P \in Int, NEW Q \in Int, P <= Q, Q <= P + RingLen, At(P) = At(Q)
      PROVE  P = Q
  <2>1. Q < P + PosMod
    BY <1>0, <1>3
  <2> QED  BY <1>0, <1>3, <2>1, ModInjective DEF At
<1>4. ASSUME NEW P \in Int PROVE Next64(At(P)) = At(P + 1)
  <2>1. PICK j \in Int : j = 1
    OBVIOUS
  <2>2. ((P % PosMod) + j) % PosMod = (P + j) % PosMod
    BY <1>0, ModPlus
  <2> QED  BY <2>1, <2>2 DEF Next64, At
<1>5. ASSUME NEW P \in Int, NEW i \in Int
      PROVE  (At(P) + i - 1) % PosMod = At(P + i - 1)
  <2>1. PICK j \in Int : j = i - 1
    OBVIOUS
  <2>2. ((P % PosMod) + j) % PosMod = (P + j) % PosMod
    BY <1>0, ModPlus
  <2>3. P % PosMod \in 0 .. PosMod - 1
    BY <1>0, DivMod
  <2>4. (P % PosMod) + i - 1 = (P % PosMod) + j /\ P + i - 1 = P + j
    BY <1>0, <2>1, <2>3
  <2> QED  BY <2>2, <2>4 DEF At
<1>6. ASSUME NEW P \in Int, NEW Q \in Int, P <= Q, Q <= P + RingLen
      PROVE  (At(Q) - At(P)) % PosMod = Q - P
  <2>1. (At(Q) - At(P)) % PosMod = (Q - P) % PosMod
    BY <1>0, ModMinus DEF At
  <2>2. PICK n \in Int : n = Q - P
    OBVIOUS
  <2>3. 0 <= n /\ n < PosMod
    BY <1>0, <1>6, <2>2
  <2>4. n % PosMod = n
    BY <1>0, <2>3
  <2> QED  BY <2>1, <2>2, <2>4
<1> QED  BY <1>1, <1>2, <1>3, <1>4, <1>5, <1>6

----------------------------------------------------------------------------
(* Counting threads *)

\* One member comes, goes or stays.
LEMMA SetMove ==
    ASSUME NEW T, IsFiniteSet(T), NEW A \in SUBSET T, NEW B \in SUBSET T, NEW t \in T,
           \A u \in T : u # t => (u \in A <=> u \in B)
    PROVE  /\ Cardinality(A) \in Nat /\ Cardinality(B) \in Nat
           /\ (t \in A <=> t \in B) => Cardinality(B) = Cardinality(A)
           /\ t \notin A /\ t \in B => Cardinality(B) = Cardinality(A) + 1
           /\ t \in A /\ t \notin B => Cardinality(B) = Cardinality(A) - 1
           /\ t \in A => Cardinality(A) >= 1
<1>1. IsFiniteSet(A) /\ IsFiniteSet(B) /\ IsFiniteSet(A \ {t})
  BY FS_Subset
<1>2. Cardinality(A) \in Nat /\ Cardinality(B) \in Nat /\ Cardinality(A \ {t}) \in Nat
  BY <1>1, FS_CardinalityType
<1>3. t \in A => Cardinality(A \ {t}) = Cardinality(A) - 1
  BY <1>1, FS_RemoveElement
<1>4. t \in A => Cardinality(A) >= 1
  BY <1>2, <1>3
<1>5. ASSUME t \in A <=> t \in B PROVE Cardinality(B) = Cardinality(A)
  <2>1. A = B
    BY <1>5
  <2> QED  BY <2>1
<1>6. ASSUME t \notin A, t \in B PROVE Cardinality(B) = Cardinality(A) + 1
  <2>1. B = A \cup {t}
    BY <1>6
  <2> QED  BY <1>1, <1>6, <2>1, FS_AddElement
<1>7. ASSUME t \in A, t \notin B PROVE Cardinality(B) = Cardinality(A) - 1
  <2>1. B = A \ {t}
    BY <1>7
  <2> QED  BY <1>3, <1>7, <2>1
<1> QED  BY <1>2, <1>4, <1>5, <1>6, <1>7

Moves(A, B, before, after) ==
    /\ Cardinality(A) \in Nat /\ Cardinality(B) \in Nat
    /\ Cardinality(B) + (IF before THEN 1 ELSE 0) = Cardinality(A) + (IF after THEN 1 ELSE 0)
    /\ before => Cardinality(A) >= 1

\* A producer takes a step.
LEMMA ProducerMoves ==
    ASSUME RingTypes, NEW p \in Producers, NEW x, ppc' = [ppc EXCEPT ![p] = x]
    PROVE  /\ Moves(Fetchers, Fetchers', ppc[p] = "fetch", x = "fetch")
           /\ Moves(Storers, Storers', ppc[p] = "store", x = "store")
           /\ Moves(Posters, Posters', ppc[p] = "post", x = "post")
<1>1. IsFiniteSet(Producers)
  BY RingBufAssumption
<1>2. ASSUME NEW A \in SUBSET Producers, NEW B \in SUBSET Producers,
             NEW before \in BOOLEAN, NEW after \in BOOLEAN,
             \A u \in Producers : u # p => (u \in A <=> u \in B),
             p \in A <=> before, p \in B <=> after
      PROVE  Moves(A, B, before, after)
  BY <1>1, <1>2, SetMove DEF Moves
<1>3. ASSUME NEW y \in {"fetch", "store", "post"}
      PROVE  Moves({u \in Producers : ppc[u] = y}, {u \in Producers : ppc'[u] = y},
                   ppc[p] = y, x = y)
  <2> DEFINE A == {u \in Producers : ppc[u] = y}
             B == {u \in Producers : ppc'[u] = y}
             before == ppc[p] = y
             after == x = y
  <2>1. A \in SUBSET Producers /\ B \in SUBSET Producers
    OBVIOUS
  <2>2. \A u \in Producers : u # p => (u \in A <=> u \in B)
    BY DEF RingTypes
  <2>3. (p \in A <=> before) /\ (p \in B <=> after)
    BY DEF RingTypes
  <2>4. before \in BOOLEAN /\ after \in BOOLEAN
    OBVIOUS
  <2> HIDE DEF A, B, before, after
  <2>5. Moves(A, B, before, after)
    BY <1>2, <2>1, <2>2, <2>3, <2>4
  <2> QED  BY <2>5 DEF A, B, before, after
<1> QED  BY <1>3 DEF Fetchers, Storers, Posters

\* A consumer takes a step.
LEMMA ConsumerMoves ==
    ASSUME RingTypes, NEW c \in Consumers, NEW x, cpc' = [cpc EXCEPT ![c] = x]
    PROVE  /\ Moves(Takers, Takers', cpc[c] \in {"fetch", "swap"}, x \in {"fetch", "swap"})
           /\ Moves(Givers, Givers', cpc[c] = "post", x = "post")
<1>1. IsFiniteSet(Consumers)
  BY RingBufAssumption
<1>2. ASSUME NEW A \in SUBSET Consumers, NEW B \in SUBSET Consumers,
             NEW before \in BOOLEAN, NEW after \in BOOLEAN,
             \A u \in Consumers : u # c => (u \in A <=> u \in B),
             c \in A <=> before, c \in B <=> after
      PROVE  Moves(A, B, before, after)
  BY <1>1, <1>2, SetMove DEF Moves
<1>3. ASSUME NEW Y
      PROVE  Moves({u \in Consumers : cpc[u] \in Y}, {u \in Consumers : cpc'[u] \in Y},
                   cpc[c] \in Y, x \in Y)
  <2> DEFINE A == {u \in Consumers : cpc[u] \in Y}
             B == {u \in Consumers : cpc'[u] \in Y}
             before == cpc[c] \in Y
             after == x \in Y
  <2>1. A \in SUBSET Consumers /\ B \in SUBSET Consumers
    OBVIOUS
  <2>2. \A u \in Consumers : u # c => (u \in A <=> u \in B)
    BY DEF RingTypes
  <2>3. (c \in A <=> before) /\ (c \in B <=> after)
    BY DEF RingTypes
  <2>4. before \in BOOLEAN /\ after \in BOOLEAN
    OBVIOUS
  <2> HIDE DEF A, B, before, after
  <2>5. Moves(A, B, before, after)
    BY <1>2, <2>1, <2>2, <2>3, <2>4
  <2> QED  BY <2>5 DEF A, B, before, after
<1>4. Moves(Takers, Takers', cpc[c] \in {"fetch", "swap"}, x \in {"fetch", "swap"})
  BY <1>3 DEF Takers
<1>5. Moves(Givers, Givers', cpc[c] \in {"post"}, x \in {"post"})
  <2>1. Givers = {u \in Consumers : cpc[u] \in {"post"}}
    BY DEF Givers
  <2>2. Givers' = {u \in Consumers : cpc'[u] \in {"post"}}
    BY DEF Givers
  <2> QED  BY <1>3, <2>1, <2>2
<1> QED  BY <1>4, <1>5 DEF Moves

----------------------------------------------------------------------------
(* The invariant is kept.  One lemma per part, one step per action. *)

\* The members of the window have slots and counter values of their own.
LEMMA WindowFacts ==
    ASSUME NEW R \in Nat, NEW W \in Nat, R <= W, W <= R + RingLen
    PROVE  /\ \A P, Q \in R .. W - 1 : Cell(P) = Cell(Q) => P = Q
           /\ \A P, Q \in R .. W : At(P) = At(Q) => P = Q
<1>0. RingLen \in Nat
  BY RingBufAssumption
<1>1. ASSUME NEW P \in R .. W - 1, NEW Q \in R .. W - 1, Cell(P) = Cell(Q) PROVE P = Q
  <2>1. P \in Int /\ Q \in Int /\ (P <= Q \/ Q <= P) /\ Q < P + RingLen /\ P < Q + RingLen
    BY <1>0
  <2> QED  BY <1>1, <2>1, Wrapping
<1>2. ASSUME NEW P \in R .. W, NEW Q \in R .. W, At(P) = At(Q) PROVE P = Q
  <2>1. P \in Int /\ Q \in Int /\ (P <= Q \/ Q <= P) /\ Q <= P + RingLen /\ P <= Q + RingLen
    BY <1>0
  <2> QED  BY <1>2, <2>1, Wrapping
<1> QED  BY <1>1, <1>2

\* The window is no longer than the ring.
LEMMA WindowBound ==
    ASSUME RingTypes, NEW R \in Nat, NEW W \in Nat, Tokens(R, W)
    PROVE  /\ W <= R + RingLen
           /\ Fetchers # {} => W + 1 <= R + RingLen
           /\ Takers # {} => R + 1 <= W
           /\ Cardinality(Fetchers) \in Nat /\ Cardinality(Storers) \in Nat
           /\ Cardinality(Posters) \in Nat /\ Cardinality(Takers) \in Nat
           /\ Cardinality(Givers) \in Nat
<1>1. /\ IsFiniteSet(Fetchers) /\ IsFiniteSet(Storers) /\ IsFiniteSet(Posters)
      /\ IsFiniteSet(Takers) /\ IsFiniteSet(Givers)
  <2>1. /\ Fetchers \in SUBSET Producers /\ Storers \in SUBSET Producers
        /\ Posters \in SUBSET Producers
        /\ Takers \in SUBSET Consumers /\ Givers \in SUBSET Consumers
    BY DEF Fetchers, Storers, Posters, Takers, Givers
  <2> QED  BY <2>1, RingBufAssumption, FS_Subset
<1>2. /\ Cardinality(Fetchers) \in Nat /\ Cardinality(Storers) \in Nat
      /\ Cardinality(Posters) \in Nat /\ Cardinality(Takers) \in Nat
      /\ Cardinality(Givers) \in Nat
  BY <1>1, FS_CardinalityType
<1>3. /\ Cardinality(Fetchers) = 0 => Fetchers = {}
      /\ Cardinality(Takers) = 0 => Takers = {}
  BY <1>1, FS_EmptySet
<1> QED  BY <1>2, <1>3, RingBufAssumption DEF Tokens, RingTypes

\* Types.
LEMMA TypesStep ==
    ASSUME RingTypes, NEW R \in Nat, NEW W \in Nat, Tokens(R, W), Counters(R, W), Pointers,
           Next
    PROVE  RingTypes'
<1> USE DEF RingTypes, prodVars, consVars
<1>1. ASSUME NEW p \in Producers, NEW x \in avail, TryEnqueue(p, x) PROVE RingTypes'
  BY <1>1 DEF TryEnqueue, util_semaphore_trywait
<1>2. ASSUME NEW p \in Producers, EnqueueFetch(p) PROVE RingTypes'
  <2>1. write_pos \in Nat
    BY Wrapping DEF Counters
  <2> QED  BY <1>2, <2>1 DEF EnqueueFetch
<1>3. ASSUME NEW p \in Producers, EnqueueStore(p) PROVE RingTypes'
  BY <1>3 DEF EnqueueStore
<1>4. ASSUME NEW p \in Producers, EnqueuePost(p) PROVE RingTypes'
  BY <1>4 DEF EnqueuePost, util_semaphore_post
<1>5. ASSUME NEW c \in Consumers, TryDequeue(c) PROVE RingTypes'
  BY <1>5 DEF TryDequeue, util_semaphore_trywait
<1>6. ASSUME NEW c \in Consumers, DequeueFetch(c) PROVE RingTypes'
  <2>1. read_pos = At(R) \/ read_pos = At(R + 1)
    BY DEF Counters
  <2>2. At(R) \in Nat /\ At(R + 1) \in Nat
    BY Wrapping
  <2> QED  BY <1>6, <2>1, <2>2 DEF DequeueFetch
<1>7. ASSUME NEW c \in Consumers, DequeueSwap(c) PROVE RingTypes'
  <2>1. PICK n \in Nat : n = r[c]
    BY <1>7
  <2>2. Slot(n) \in Slots
    BY RingBufAssumption, DivMod DEF Slot, Slots
  <2> QED  BY <1>7, <2>1, <2>2 DEF DequeueSwap
<1>8. ASSUME NEW c \in Consumers, DequeuePost(c), cdata[c] # None PROVE RingTypes'
  BY <1>8 DEF DequeuePost, util_semaphore_post
<1> QED
  BY <1>1, <1>2, <1>3, <1>4, <1>5, <1>6, <1>7, <1>8
     DEF Next, ProducerStep, ConsumerStep, Pointers, DequeuePost

\* Pointers are passed on, never copied.
LEMMA PointersStep ==
    ASSUME OneConsumer, RingTypes, Pointers, NEW R \in Nat, NEW W \in Nat, Counters(R, W),
           Next
    PROVE  Pointers'
<1> USE RingBufAssumption DEF RingTypes, Pointers, prodVars, consVars
<1>1. ASSUME NEW p \in Producers, NEW x \in avail, TryEnqueue(p, x) PROVE Pointers'
  BY <1>1 DEF TryEnqueue
<1>2. ASSUME NEW p \in Producers, EnqueueFetch(p) PROVE Pointers'
  BY <1>2 DEF EnqueueFetch
<1>3. ASSUME NEW p \in Producers, EnqueueStore(p) PROVE Pointers'
  <2>1. PICK P \in R .. W - 1 : w[p] = At(P)
    BY <1>3 DEF EnqueueStore, Counters, Storers
  <2>2. Slot(w[p]) = Cell(P) /\ Cell(P) \in Slots
    BY <2>1, Wrapping
  <2>3. PICK s \in Slots : s = Slot(w[p])
    BY <2>2
  <2> QED  BY <1>3, <2>3 DEF EnqueueStore
<1>4. ASSUME NEW p \in Producers, EnqueuePost(p) PROVE Pointers'
  BY <1>4 DEF EnqueuePost
<1>5. ASSUME NEW c \in Consumers, TryDequeue(c) PROVE Pointers'
  BY <1>5 DEF TryDequeue
<1>6. ASSUME NEW c \in Consumers, DequeueFetch(c) PROVE Pointers'
  BY <1>6 DEF DequeueFetch
<1>7. ASSUME NEW c \in Consumers, DequeueSwap(c) PROVE Pointers'
  <2>1. r[c] = At(R)
    BY <1>7 DEF DequeueSwap, Counters
  <2>2. Slot(r[c]) = Cell(R) /\ Cell(R) \in Slots
    BY <2>1, Wrapping
  <2>3. PICK s \in Slots : s = Slot(r[c])
    BY <2>2
  <2> QED  BY <1>7, <2>3 DEF DequeueSwap
<1>8. ASSUME NEW c \in Consumers, DequeuePost(c) PROVE Pointers'
  BY <1>8 DEF DequeuePost, OneConsumer
<1> QED
  BY <1>1, <1>2, <1>3, <1>4, <1>5, <1>6, <1>7, <1>8 DEF Next, ProducerStep, ConsumerStep

\* ringbuf_tryenqueue but for the store, and the end of ringbuf_trydequeue.
LEMMA WindowTokens ==
    ASSUME RingTypes, NEW R \in Nat, NEW W \in Nat, Window(R, W),
           \/ \E p \in Producers : \/ \E x \in avail : TryEnqueue(p, x)
                                   \/ EnqueuePost(p)
           \/ \E c \in Consumers : TryDequeue(c) \/ DequeuePost(c)
    PROVE  Window(R, W)'
<1> USE DEF RingTypes, prodVars, consVars, util_semaphore_trywait, util_semaphore_post
<1>1. UNCHANGED <<read_pos, write_pos, data, w, r>>
  BY DEF TryEnqueue, EnqueuePost, TryDequeue, DequeuePost
<1>2. /\ \A p \in Producers : p \in Storers' <=> p \in Storers
      /\ Storers' = Storers
      /\ \A c \in Consumers : cpc'[c] = "swap" <=> cpc[c] = "swap"
  BY DEF TryEnqueue, EnqueuePost, TryDequeue, DequeuePost, Storers
<1>3. Counters(R, W)'
  BY <1>1, <1>2 DEF Window, Counters
<1>4. Contents(R, W)'
  BY <1>1, <1>2 DEF Window, Contents, Pending
<1>5. ASSUME NEW p \in Producers, NEW x \in avail, TryEnqueue(p, x) PROVE Tokens(R, W)'
  <2>1. /\ ppc' = [ppc EXCEPT ![p] = "fetch"] /\ ppc[p] = "idle"
        /\ nfree' = nfree - 1 /\ UNCHANGED <<nused, cpc>>
    BY <1>5 DEF TryEnqueue
  <2>2. /\ Moves(Fetchers, Fetchers', ppc[p] = "fetch", "fetch" = "fetch")
        /\ Moves(Storers, Storers', ppc[p] = "store", "fetch" = "store")
        /\ Moves(Posters, Posters', ppc[p] = "post", "fetch" = "post")
    BY <2>1, ProducerMoves
  <2>3. Takers' = Takers /\ Givers' = Givers
    BY <2>1 DEF Takers, Givers
  <2> QED  BY <2>1, <2>2, <2>3, WindowBound, RingBufAssumption DEF Window, Tokens, Moves
<1>6. ASSUME NEW p \in Producers, EnqueuePost(p) PROVE Tokens(R, W)'
  <2>1. /\ ppc' = [ppc EXCEPT ![p] = "idle"] /\ ppc[p] = "post"
        /\ nused' = nused + 1 /\ UNCHANGED <<nfree, cpc>>
    BY <1>6 DEF EnqueuePost
  <2>2. /\ Moves(Fetchers, Fetchers', ppc[p] = "fetch", "idle" = "fetch")
        /\ Moves(Storers, Storers', ppc[p] = "store", "idle" = "store")
        /\ Moves(Posters, Posters', ppc[p] = "post", "idle" = "post")
    BY <2>1, ProducerMoves
  <2>3. Takers' = Takers /\ Givers' = Givers
    BY <2>1 DEF Takers, Givers
  <2>4. /\ Cardinality(Fetchers') = Cardinality(Fetchers)
        /\ Cardinality(Storers') = Cardinality(Storers)
        /\ Cardinality(Posters') = Cardinality(Posters) - 1
    BY <2>1, <2>2 DEF Moves
  <2> QED  BY <2>1, <2>3, <2>4, WindowBound, RingBufAssumption DEF Window, Tokens
<1>7. ASSUME NEW c \in Consumers, TryDequeue(c) PROVE Tokens(R, W)'
  <2>1. /\ cpc' = [cpc EXCEPT ![c] = "fetch"] /\ cpc[c] = "idle"
        /\ nused' = nused - 1 /\ UNCHANGED <<nfree, ppc>>
    BY <1>7 DEF TryDequeue
  <2>2. /\ Moves(Takers, Takers', cpc[c] \in {"fetch", "swap"}, "fetch" \in {"fetch", "swap"})
        /\ Moves(Givers, Givers', cpc[c] = "post", "fetch" = "post")
    BY <2>1, ConsumerMoves
  <2>3. Fetchers' = Fetchers /\ Storers' = Storers /\ Posters' = Posters
    BY <2>1 DEF Fetchers, Storers, Posters
  <2> QED  BY <2>1, <2>2, <2>3, WindowBound, RingBufAssumption DEF Window, Tokens, Moves
<1>8. ASSUME NEW c \in Consumers, DequeuePost(c) PROVE Tokens(R, W)'
  <2>1. /\ cpc' = [cpc EXCEPT ![c] = "idle"] /\ cpc[c] = "post"
        /\ nfree' = nfree + 1 /\ UNCHANGED <<nused, ppc>>
    BY <1>8 DEF DequeuePost
  <2>2. /\ Moves(Takers, Takers', cpc[c] \in {"fetch", "swap"}, "idle" \in {"fetch", "swap"})
        /\ Moves(Givers, Givers', cpc[c] = "post", "idle" = "post")
    BY <2>1, ConsumerMoves
  <2>3. Fetchers' = Fetchers /\ Storers' = Storers /\ Posters' = Posters
    BY <2>1 DEF Fetchers, Storers, Posters
  <2> QED  BY <2>1, <2>2, <2>3, WindowBound, RingBufAssumption DEF Window, Tokens, Moves
<1> QED  BY <1>3, <1>4, <1>5, <1>6, <1>7, <1>8 DEF Window

\* ringbuf_enqueue_atomic claims position W.
LEMMA WindowClaim ==
    ASSUME RingTypes, NEW R \in Nat, NEW W \in Nat, Window(R, W),
           NEW p \in Producers, EnqueueFetch(p)
    PROVE  Window(R, W + 1)'
<1> USE DEF RingTypes, prodVars, consVars
<1>0. /\ RingLen \in Nat /\ R <= W /\ W + 1 <= R + RingLen /\ W <= R + RingLen
  <2>1. Fetchers # {}
    BY DEF EnqueueFetch, Fetchers
  <2> QED  BY <2>1, WindowBound, RingBufAssumption DEF Window, Counters
<1>1. /\ ppc[p] = "fetch" /\ ppc' = [ppc EXCEPT ![p] = "store"]
      /\ w' = [w EXCEPT ![p] = At(W)] /\ write_pos' = At(W + 1) /\ At(W) \in Nat
      /\ UNCHANGED <<read_pos, nfree, nused, data, cpc, r>>
  BY Wrapping DEF EnqueueFetch, Window, Counters
<1>2. Storers' = Storers \cup {p} /\ p \notin Storers /\ Storers \subseteq Producers
  BY <1>1 DEF Storers
<1>3. \A q \in Storers : w'[q] = w[q] /\ w[q] # At(W)
  <2>1. \A q \in Storers : \E P \in R .. W - 1 : w[q] = At(P)
    BY DEF Window, Counters
  <2>2. \A P \in R .. W - 1 : At(P) # At(W)
    <3>1. \A P \in R .. W - 1 : P \in R .. W /\ W \in R .. W /\ P # W
      BY <1>0
    <3> QED  BY <1>0, <3>1, WindowFacts
  <2> QED  BY <1>1, <1>2, <2>1, <2>2
<1>4. w'[p] = At(W)
  BY <1>1
<1>5. Tokens(R, W + 1)'
  <2>1. /\ Moves(Fetchers, Fetchers', ppc[p] = "fetch", "store" = "fetch")
        /\ Moves(Storers, Storers', ppc[p] = "store", "store" = "store")
        /\ Moves(Posters, Posters', ppc[p] = "post", "store" = "post")
    BY <1>1, ProducerMoves
  <2>2. /\ Cardinality(Fetchers') = Cardinality(Fetchers) - 1
        /\ Cardinality(Storers') = Cardinality(Storers) + 1
        /\ Cardinality(Posters') = Cardinality(Posters)
    BY <1>1, <2>1 DEF Moves
  <2>3. Takers' = Takers /\ Givers' = Givers
    BY <1>1 DEF Takers, Givers
  <2> QED  BY <1>1, <2>2, <2>3, WindowBound, RingBufAssumption DEF Window, Tokens
<1>6. Counters(R, W + 1)'
  <2>1. \A q \in Storers' : \E P \in R .. W : w'[q] = At(P)
    <3>1. W \in R .. W /\ \A P \in R .. W - 1 : P \in R .. W
      BY <1>0
    <3>2. \A q \in Storers : \E P \in R .. W - 1 : w[q] = At(P)
      BY DEF Window, Counters
    <3> QED  BY <1>2, <1>3, <1>4, <3>1, <3>2
  <2>2. \A x, y \in Storers' : w'[x] = w'[y] => x = y
    BY <1>2, <1>3, <1>4 DEF Window, Counters
  <2>3. R <= W + 1 /\ W + 1 - 1 = W
    BY <1>0
  <2> QED  BY <1>1, <2>1, <2>2, <2>3 DEF Window, Counters
<1>7. \A P \in R .. W - 1 : Pending(At(P))' <=> Pending(At(P))
  <2>1. \A P \in R .. W - 1 : At(P) # At(W)
    <3>1. \A P \in R .. W - 1 : P \in R .. W /\ W \in R .. W /\ P # W
      BY <1>0
    <3> QED  BY <1>0, <3>1, WindowFacts
  <2> QED  BY <1>2, <1>3, <1>4, <2>1 DEF Pending
<1>8. Contents(R, W + 1)'
  <2>1. Pending(At(W))'
    BY <1>2, <1>4 DEF Pending
  <2>2. data[Cell(W)] = None
    <3>1. \A P \in R .. W - 1 : Cell(P) # Cell(W)
      <4>1. \A P \in R .. W - 1 : P \in R .. (W + 1) - 1 /\ W \in R .. (W + 1) - 1 /\ P # W
        BY <1>0
      <4>2. W + 1 \in Nat /\ R <= W + 1
        BY <1>0
      <4> QED  BY <1>0, <4>1, <4>2, WindowFacts
    <3>2. Cell(W) \in Slots
      BY Wrapping
    <3> QED  BY <3>1, <3>2 DEF Window, Contents
  <2>3. \A P \in R .. (W + 1) - 1 : P \in R .. W - 1 \/ P = W
    BY <1>0
  <2>4. \A P \in R .. W - 1 : P \in R .. (W + 1) - 1
    BY <1>0
  <2>5. \A P \in R .. (W + 1) - 1 : data'[Cell(P)] = None <=> Pending(At(P))'
    BY <1>1, <1>7, <2>1, <2>2, <2>3 DEF Window, Contents
  <2>6. \A s \in Slots : data'[s] # None => \E P \in R .. (W + 1) - 1 : s = Cell(P)
    BY <1>1, <2>4 DEF Window, Contents
  <2> QED  BY <2>5, <2>6 DEF Contents
<1> QED  BY <1>5, <1>6, <1>8 DEF Window

\* ... and stores the pointer in its slot.
LEMMA WindowStore ==
    ASSUME RingTypes, Pointers, NEW R \in Nat, NEW W \in Nat, Window(R, W),
           NEW p \in Producers, EnqueueStore(p)
    PROVE  Window(R, W)'
<1> USE DEF RingTypes, prodVars, consVars
<1>0. RingLen \in Nat /\ R <= W /\ W <= R + RingLen
  BY WindowBound, RingBufAssumption DEF Window, Counters
<1>1. PICK Q \in R .. W - 1 : w[p] = At(Q)
  BY DEF EnqueueStore, Storers, Window, Counters
<1>2. /\ ppc[p] = "store" /\ ppc' = [ppc EXCEPT ![p] = "post"]
      /\ w' = [w EXCEPT ![p] = 0] /\ data' = [data EXCEPT ![Cell(Q)] = pdata[p]]
      /\ pdata[p] # None /\ Cell(Q) \in Slots
      /\ UNCHANGED <<read_pos, write_pos, nfree, nused, cpc, r>>
  <2>1. Slot(w[p]) = Cell(Q) /\ Cell(Q) \in Slots
    BY <1>1, Wrapping
  <2> QED  BY <2>1 DEF EnqueueStore, Pointers
<1>3. Storers' = Storers \ {p} /\ p \in Storers /\ Storers \subseteq Producers
  BY <1>2 DEF Storers
<1>4. \A q \in Storers' : w'[q] = w[q]
  BY <1>2, <1>3
<1>5. Tokens(R, W)'
  <2>1. /\ Moves(Fetchers, Fetchers', ppc[p] = "fetch", "post" = "fetch")
        /\ Moves(Storers, Storers', ppc[p] = "store", "post" = "store")
        /\ Moves(Posters, Posters', ppc[p] = "post", "post" = "post")
    BY <1>2, ProducerMoves
  <2>2. /\ Cardinality(Fetchers') = Cardinality(Fetchers)
        /\ Cardinality(Storers') = Cardinality(Storers) - 1
        /\ Cardinality(Posters') = Cardinality(Posters) + 1
    BY <1>2, <2>1 DEF Moves
  <2>3. Takers' = Takers /\ Givers' = Givers
    BY <1>2 DEF Takers, Givers
  <2> QED  BY <1>2, <2>2, <2>3, WindowBound, RingBufAssumption DEF Window, Tokens
<1>6. Counters(R, W)'
  BY <1>2, <1>3, <1>4 DEF Window, Counters
<1>7. \A P \in R .. W - 1 : P # Q => Cell(P) # Cell(Q) /\ At(P) # At(Q)
  <2>1. \A P \in R .. W - 1 : P \in R .. W
    BY <1>0
  <2> QED  BY <1>0, <2>1, WindowFacts
<1>8. ~Pending(At(Q))'
  <2>1. \A q \in Storers : w[q] = w[p] => q = p
    BY <1>3 DEF Window, Counters
  <2> QED  BY <1>1, <1>3, <1>4, <2>1 DEF Pending
<1>9. \A P \in R .. W - 1 : P # Q => (Pending(At(P))' <=> Pending(At(P)))
  BY <1>1, <1>3, <1>4, <1>7 DEF Pending
<1>10. \A P \in R .. W - 1 : data'[Cell(P)] = None <=> Pending(At(P))'
  <2>1. \A P \in R .. W - 1 : Cell(P) \in Slots
    BY Wrapping
  <2> QED  BY <1>2, <1>7, <1>8, <1>9, <2>1 DEF Window, Contents
<1>11. \A s \in Slots : data'[s] # None => \E P \in R .. W - 1 : s = Cell(P)
  BY <1>2 DEF Window, Contents
<1> QED  BY <1>5, <1>6, <1>10, <1>11 DEF Window, Contents

\* ringbuf_dequeue_atomic claims position R.
LEMMA WindowFetch ==
    ASSUME OneConsumer, RingTypes, NEW R \in Nat, NEW W \in Nat, Window(R, W),
           NEW c \in Consumers, DequeueFetch(c)
    PROVE  Window(R, W)'
<1> USE DEF RingTypes, prodVars, consVars
<1>1. /\ cpc[c] = "fetch" /\ cpc' = [cpc EXCEPT ![c] = "swap"]
      /\ r' = [r EXCEPT ![c] = At(R)] /\ read_pos' = At(R + 1) /\ At(R) \in Nat
      /\ UNCHANGED <<write_pos, nfree, nused, data, ppc, w>>
  <2>1. \A d \in Consumers : cpc[d] # "swap"
    BY DEF DequeueFetch, OneConsumer
  <2>2. read_pos = At(R)
    BY <2>1 DEF Window, Counters
  <2> QED  BY <2>2, Wrapping DEF DequeueFetch
<1>2. Fetchers' = Fetchers /\ Storers' = Storers /\ Posters' = Posters
  BY <1>1 DEF Fetchers, Storers, Posters
<1>3. Tokens(R, W)'
  <2>1. Takers' = Takers /\ Givers' = Givers
    BY <1>1 DEF Takers, Givers
  <2> QED  BY <1>1, <1>2, <2>1 DEF Window, Tokens
<1>4. Counters(R, W)'
  BY <1>1, <1>2 DEF Window, Counters, OneConsumer
<1>5. Contents(R, W)'
  BY <1>1, <1>2 DEF Window, Contents, Pending
<1> QED  BY <1>3, <1>4, <1>5 DEF Window

\* ... and empties its slot.
LEMMA WindowTake ==
    ASSUME OneConsumer, RingTypes, NEW R \in Nat, NEW W \in Nat, Window(R, W),
           NEW c \in Consumers, DequeueSwap(c)
    PROVE  Window(R + 1, W)'
<1> USE DEF RingTypes, prodVars, consVars
<1>0. RingLen \in Nat /\ R + 1 <= W /\ W <= R + RingLen
  <2>1. Takers # {}
    BY DEF DequeueSwap, Takers
  <2> QED  BY <2>1, WindowBound, RingBufAssumption DEF Window
<1>1. /\ cpc[c] = "swap" /\ cpc' = [cpc EXCEPT ![c] = "post"]
      /\ data' = [data EXCEPT ![Cell(R)] = None] /\ data[Cell(R)] # None
      /\ read_pos = At(R + 1) /\ Cell(R) \in Slots
      /\ UNCHANGED <<read_pos, write_pos, nfree, nused, ppc, w>>
  <2>1. r[c] = At(R) /\ read_pos = At(R + 1)
    BY DEF DequeueSwap, Window, Counters
  <2>2. Slot(r[c]) = Cell(R) /\ Cell(R) \in Slots
    BY <2>1, Wrapping
  <2> QED  BY <2>1, <2>2 DEF DequeueSwap
<1>2. Fetchers' = Fetchers /\ Storers' = Storers /\ Posters' = Posters
  BY <1>1 DEF Fetchers, Storers, Posters
<1>3. Tokens(R + 1, W)'
  <2>1. /\ Moves(Takers, Takers', cpc[c] \in {"fetch", "swap"}, "post" \in {"fetch", "swap"})
        /\ Moves(Givers, Givers', cpc[c] = "post", "post" = "post")
    BY <1>1, ConsumerMoves
  <2>2. /\ Cardinality(Takers') = Cardinality(Takers) - 1
        /\ Cardinality(Givers') = Cardinality(Givers) + 1
    BY <1>1, <2>1 DEF Moves
  <2> QED  BY <1>1, <1>2, <2>2, WindowBound, RingBufAssumption DEF Window, Tokens
<1>4. R \in R .. W - 1 /\ \A P \in (R + 1) .. W - 1 : P \in R .. W - 1 /\ P # R
  BY <1>0
<1>5. \A P \in R .. W - 1 : P \in (R + 1) .. W - 1 \/ P = R
  BY <1>0
<1>6. ~Pending(At(R))
  BY <1>1, <1>4 DEF Window, Contents
<1>7. Counters(R + 1, W)'
  <2>1. \A q \in Storers : \E P \in (R + 1) .. W - 1 : w[q] = At(P)
    BY <1>5, <1>6 DEF Window, Counters, Pending
  <2>2. \A d \in Consumers : cpc'[d] # "swap"
    BY <1>1 DEF OneConsumer
  <2> QED  BY <1>0, <1>1, <1>2, <2>1, <2>2 DEF Window, Counters
<1>8. Contents(R + 1, W)'
  <2>1. \A P \in (R + 1) .. W - 1 : Cell(P) # Cell(R) /\ Cell(P) \in Slots
    <3>0. R <= W
      BY <1>0
    <3>1. \A P, Q \in R .. W - 1 : Cell(P) = Cell(Q) => P = Q
      BY <1>0, <3>0, WindowFacts
    <3>2. \A P \in (R + 1) .. W - 1 : P \in Int
      OBVIOUS
    <3> QED  BY <1>4, <3>1, <3>2, Wrapping
  <2>2. \A P \in (R + 1) .. W - 1 : Pending(At(P))' <=> Pending(At(P))
    BY <1>1, <1>2 DEF Pending
  <2>3. \A P \in (R + 1) .. W - 1 : data'[Cell(P)] = None <=> Pending(At(P))'
    BY <1>1, <1>4, <2>1, <2>2 DEF Window, Contents
  <2>4. \A s \in Slots : data'[s] # None => \E P \in (R + 1) .. W - 1 : s = Cell(P)
    BY <1>1, <1>5 DEF Window, Contents
  <2> QED  BY <2>3, <2>4 DEF Contents
<1> QED  BY <1>3, <1>7, <1>8 DEF Window

\* Nothing happens.
LEMMA RingStutter ==
    ASSUME RingInv, UNCHANGED vars
    PROVE  RingInv'
<1> USE DEF vars, prodVars, consVars
<1>1. RingTypes'
  BY DEF RingInv, RingTypes
<1>2. Pointers'
  BY DEF RingInv, Pointers
<1>3. PICK R \in Nat, W \in Nat : Window(R, W)
  BY DEF RingInv, WindowInv
<1>4. /\ Fetchers' = Fetchers /\ Storers' = Storers /\ Posters' = Posters
      /\ Takers' = Takers /\ Givers' = Givers
  BY DEF Fetchers, Storers, Posters, Takers, Givers
<1>5. Tokens(R, W)'
  BY <1>3, <1>4 DEF Window, Tokens
<1>6. Counters(R, W)'
  BY <1>3, <1>4 DEF Window, Counters
<1>7. Contents(R, W)'
  BY <1>3, <1>4 DEF Window, Contents, Pending
<1> QED  BY <1>1, <1>2, <1>5, <1>6, <1>7 DEF RingInv, WindowInv, Window

\* Every step keeps the invariant.
LEMMA RingInvStep ==
    ASSUME OneConsumer
    PROVE  RingInv /\ [Next]_vars => RingInv'
<1> SUFFICES ASSUME RingInv, [Next]_vars PROVE RingInv'
  OBVIOUS
<1>1. CASE UNCHANGED vars
  BY <1>1, RingStutter
<1>2. CASE Next
  <2>1. PICK R \in Nat, W \in Nat : Window(R, W)
    BY DEF RingInv, WindowInv
  <2>2. RingTypes /\ Pointers /\ Tokens(R, W) /\ Counters(R, W)
    BY <2>1 DEF RingInv, Window
  <2>3. RingTypes' /\ Pointers'
    BY <1>2, <2>2, TypesStep, PointersStep
  <2>4. R + 1 \in Nat /\ W + 1 \in Nat
    OBVIOUS
  <2>5. Window(R, W)' \/ Window(R, W + 1)' \/ Window(R + 1, W)'
    BY <1>2, <2>1, <2>2, WindowTokens, WindowClaim, WindowStore, WindowFetch, WindowTake
       DEF Next, ProducerStep, ConsumerStep
  <2>6. WindowInv'
    BY <2>4, <2>5 DEF WindowInv
  <2> QED  BY <2>3, <2>6 DEF RingInv
<1> QED  BY <1>1, <1>2

\* It holds for a new ring.
LEMMA RingInvInit == Init => RingInv
<1> SUFFICES ASSUME Init PROVE RingInv
  OBVIOUS
<1>1. RingTypes
  BY RingBufAssumption DEF Init, RingTypes
<1>2. Pointers
  BY RingBufAssumption DEF Init, Pointers
<1>3. Fetchers = {} /\ Storers = {} /\ Posters = {} /\ Takers = {} /\ Givers = {}
  BY DEF Init, Fetchers, Storers, Posters, Takers, Givers
<1>4. Cardinality({}) = 0
  BY FS_EmptySet
<1>5. Tokens(0, 0)
  BY <1>3, <1>4, RingBufAssumption DEF Init, Tokens
<1>6. At(0) = 0
  BY RingBufAssumption DEF At
<1>7. Counters(0, 0)
  BY <1>3, <1>6 DEF Init, Counters
<1>8. Contents(0, 0)
  BY DEF Init, Contents
<1> QED  BY <1>1, <1>2, <1>5, <1>7, <1>8 DEF RingInv, WindowInv, Window

\* The invariant holds for ever.
LEMMA RingInvariant ==
    ASSUME OneConsumer
    PROVE  Spec => []RingInv
BY RingInvInit, RingInvStep, PTL DEF Spec

\* A producer that has claimed a position finds its slot empty, however many
\* producers overtake each other and however often the counters have wrapped
\* around: the spin loop of ringbuf_enqueue_atomic never spins.
THEOREM RingStoreNeverWaits ==
    ASSUME OneConsumer
    PROVE  Spec => []StoreNeverWaits
<1>1. RingInv => StoreNeverWaits
  <2> SUFFICES ASSUME RingInv, NEW p \in Producers, ppc[p] = "store"
               PROVE  data[Slot(w[p])] = None
    BY DEF StoreNeverWaits
  <2>1. PICK R \in Nat, W \in Nat : Window(R, W)
    BY DEF RingInv, WindowInv
  <2>2. p \in Storers
    BY DEF Storers
  <2>3. PICK P \in R .. W - 1 : w[p] = At(P)
    BY <2>1, <2>2 DEF Window, Counters
  <2>4. Slot(w[p]) = Cell(P)
    BY <2>3, Wrapping
  <2>5. Pending(At(P))
    BY <2>2, <2>3 DEF Pending
  <2> QED  BY <2>1, <2>4, <2>5 DEF Window, Contents
<1> QED  BY <1>1, RingInvariant, PTL

----------------------------------------------------------------------------
(* Refinement *)

\* The queue that the ring stands for: the pointers of the window, those that
\* are still in their producers' hands included.
QueueIs(R, W) ==
    /\ QueueRing \in Seq(Entries) /\ Len(QueueRing) = W - R
    /\ \A i \in 1 .. W - R :
          /\ \A p \in Storers : w[p] = At(R + i - 1) => QueueRing[i] = pdata[p]
          /\ ~Pending(At(R + i - 1)) => QueueRing[i] = data[Cell(R + i - 1)]
    /\ QueueUnwritten = {pdata[p] : p \in Storers}
    /\ QueueFree = nfree + Cardinality(Givers)
    /\ QueueUsed = nused + Cardinality(Takers)

\* The refinement mapping, in terms of the window.
LEMMA QueueOfWindow ==
    ASSUME OneConsumer
    PROVE  \A R, W \in Nat : RingTypes /\ Pointers /\ Window(R, W) => QueueIs(R, W)
<1> SUFFICES ASSUME NEW R \in Nat, NEW W \in Nat, RingTypes, Pointers, Window(R, W)
             PROVE  QueueIs(R, W)
  OBVIOUS
<1>0. RingLen \in Nat /\ R <= W /\ W <= R + RingLen
  BY WindowBound, RingBufAssumption DEF Window, Counters
<1>1. Oldest = At(R)
  <2>1. CASE \E c \in Consumers : cpc[c] = "swap"
    <3>1. /\ (CHOOSE c \in Consumers : cpc[c] = "swap") \in Consumers
          /\ cpc[CHOOSE c \in Consumers : cpc[c] = "swap"] = "swap"
      BY <2>1
    <3> QED  BY <2>1, <3>1 DEF Oldest, Window, Counters
  <2>2. CASE ~\E c \in Consumers : cpc[c] = "swap"
    BY <2>2 DEF Oldest, Window, Counters
  <2> QED  BY <2>1, <2>2
<1>2. Claimed(Oldest) = W - R
  BY <1>0, <1>1, Wrapping DEF Claimed, Window, Counters
<1>3. \A i \in 1 .. W - R : (Oldest + i - 1) % PosMod = At(R + i - 1)
  <2>1. \A P, i \in Int : (At(P) + i - 1) % PosMod = At(P + i - 1)
    BY Wrapping, Zenon
  <2>2. R \in Int /\ \A i \in 1 .. W - R : i \in Int
    OBVIOUS
  <2> QED  BY <1>1, <2>1, <2>2, Zenon
<1>4. QueueRing = [i \in 1 .. W - R |-> PointerAt(At(R + i - 1))]
  BY <1>2, <1>3 DEF QueueRing
<1>5. ASSUME NEW i \in 1 .. W - R
      PROVE  /\ \A p \in Storers : w[p] = At(R + i - 1) => PointerAt(At(R + i - 1)) = pdata[p]
             /\ ~Pending(At(R + i - 1)) => PointerAt(At(R + i - 1)) = data[Cell(R + i - 1)]
             /\ PointerAt(At(R + i - 1)) \in Entries
  <2>1. PICK P \in R .. W - 1 : P = R + i - 1
    BY <1>0
  <2>2. ASSUME NEW p \in Storers, w[p] = At(P) PROVE PointerAt(At(P)) = pdata[p]
    <3> DEFINE q == CHOOSE x \in Producers : ppc[x] = "store" /\ w[x] = At(P)
    <3>1. p \in Producers /\ ppc[p] = "store" /\ w[p] = At(P)
      BY <2>2 DEF Storers
    <3>2. q \in Producers /\ ppc[q] = "store" /\ w[q] = At(P)
      BY <3>1
    <3> HIDE DEF q
    <3>3. q \in Storers /\ w[q] = w[p]
      BY <3>1, <3>2 DEF Storers
    <3>4. q = p
      BY <2>2, <3>3 DEF Window, Counters
    <3>5. PointerAt(At(P)) = pdata[q]
      BY <3>1 DEF PointerAt, q
    <3> QED  BY <3>4, <3>5
  <2>3. ~Pending(At(P)) => PointerAt(At(P)) = data[Cell(P)]
    <3>1. Slot(At(P)) = Cell(P)
      BY Wrapping
    <3> QED  BY <3>1 DEF Pending, Storers, PointerAt
  <2>4. \A p \in Storers : pdata[p] \in Entries
    BY DEF Storers, RingTypes, Pointers
  <2>5. ~Pending(At(P)) => data[Cell(P)] \in Entries
    <3>1. Cell(P) \in Slots
      BY Wrapping
    <3> QED  BY <3>1 DEF Window, Contents, RingTypes
  <2>6. PointerAt(At(P)) \in Entries
    BY <2>2, <2>3, <2>4, <2>5 DEF Pending
  <2> QED  BY <2>1, <2>2, <2>3, <2>6
<1>6. W - R \in Nat
  BY <1>0
<1>7. QueueRing \in Seq(Entries) /\ Len(QueueRing) = W - R
  <2>1. PICK n \in Nat : n = W - R
    BY <1>6
  <2>2. \A i \in 1 .. n : PointerAt(At(R + i - 1)) \in Entries
    BY <1>5, <2>1
  <2>3. QueueRing = [i \in 1 .. n |-> PointerAt(At(R + i - 1))]
    BY <1>4, <2>1
  <2>4. QueueRing \in Seq(Entries) /\ Len(QueueRing) = n
    BY <2>2, <2>3
  <2> QED  BY <2>1, <2>4
<1>8. \A i \in 1 .. W - R : QueueRing[i] = PointerAt(At(R + i - 1))
  BY <1>4
<1>9. /\ QueueUnwritten = {pdata[p] : p \in Storers}
      /\ QueueFree = nfree + Cardinality(Givers)
      /\ QueueUsed = nused + Cardinality(Takers)
  BY DEF QueueUnwritten, QueueFree, QueueUsed, Storers, Givers, Takers
<1> QED  BY <1>5, <1>7, <1>8, <1>9 DEF QueueIs

\* ... also after a step.
LEMMA QueueOfNextWindow ==
    ASSUME OneConsumer
    PROVE  (\A R, W \in Nat : RingTypes /\ Pointers /\ Window(R, W) => QueueIs(R, W))'
BY QueueOfWindow, PTL

\* Two queues with the same pointers at the same places are the same.
LEMMA SameQueue ==
    ASSUME NEW s \in Seq(Entries), NEW u \in Seq(Entries), Len(s) = Len(u),
           \A i \in 1 .. Len(s) : s[i] = u[i]
    PROVE  s = u
OBVIOUS

\* The cardinality in the queue's specification is that of this module.
LEMMA QueueCardinality == \A S : Queue!Cardinality(S) = Cardinality(S)
BY DEF Queue!Cardinality, Cardinality

\* A producer or a consumer with a token at hand takes or posts one.
LEMMA TokensSeen ==
    ASSUME OneConsumer, NEW R \in Nat, NEW W \in Nat, Window(R, W), RingTypes, Pointers,
           QueueIs(R, W), QueueIs(R, W)',
           \/ \E p \in Producers : \/ \E x \in avail : TryEnqueue(p, x)
                                   \/ EnqueuePost(p)
           \/ \E c \in Consumers : TryDequeue(c) \/ DequeueFetch(c) \/ DequeuePost(c)
    PROVE  [Queue!RingNext]_Queue!ringVars
<1> USE DEF RingTypes, prodVars, consVars, util_semaphore_trywait, util_semaphore_post
<1>1. Storers' = Storers /\ \A p \in Storers : pdata'[p] = pdata[p] /\ w'[p] = w[p]
  BY DEF TryEnqueue, EnqueuePost, TryDequeue, DequeueFetch, DequeuePost, Storers
<1>2. data' = data
  BY DEF TryEnqueue, EnqueuePost, TryDequeue, DequeueFetch, DequeuePost
<1>3. QueueRing' = QueueRing
  <2>1. ASSUME NEW i \in 1 .. W - R PROVE QueueRing'[i] = QueueRing[i]
    <3>1. CASE Pending(At(R + i - 1))
      <4>1. PICK p \in Storers : w[p] = At(R + i - 1)
        BY <3>1 DEF Pending
      <4> QED  BY <1>1, <4>1 DEF QueueIs
    <3>2. CASE ~Pending(At(R + i - 1))
      <4>1. ~Pending(At(R + i - 1))'
        BY <1>1, <3>2 DEF Pending
      <4> QED  BY <1>2, <3>2, <4>1 DEF QueueIs
    <3> QED  BY <3>1, <3>2
  <2>2. /\ QueueRing \in Seq(Entries) /\ QueueRing' \in Seq(Entries)
        /\ Len(QueueRing) = W - R /\ Len(QueueRing') = W - R
    BY DEF QueueIs
  <2> QED  BY <2>1, <2>2, SameQueue
<1>4. QueueUnwritten' = QueueUnwritten
  <2>1. QueueUnwritten = {pdata[p] : p \in Storers}
    BY DEF QueueIs
  <2>2. QueueUnwritten' = {pdata'[p] : p \in Storers'}
    BY DEF QueueIs
  <2> QED  BY <1>1, <2>1, <2>2
<1>5. /\ QueueFree = nfree + Cardinality(Givers) /\ QueueUsed = nused + Cardinality(Takers)
      /\ QueueFree' = nfree' + Cardinality(Givers')
      /\ QueueUsed' = nused' + Cardinality(Takers')
      /\ Len(QueueRing) = W - R
  BY DEF QueueIs
<1>6. /\ Cardinality(Fetchers) \in Nat /\ Cardinality(Storers) \in Nat
      /\ Cardinality(Posters) \in Nat /\ Cardinality(Takers) \in Nat
      /\ Cardinality(Givers) \in Nat
  BY WindowBound DEF Window
<1>7. ASSUME NEW p \in Producers, NEW x \in avail, TryEnqueue(p, x) PROVE Queue!Reserve
  <2>1. nfree > 0 /\ nfree' = nfree - 1 /\ UNCHANGED <<nused, cpc>>
    BY <1>7 DEF TryEnqueue
  <2>2. Takers' = Takers /\ Givers' = Givers
    BY <2>1 DEF Takers, Givers
  <2>3. QueueFree > 0 /\ QueueFree' = QueueFree - 1 /\ QueueUsed' = QueueUsed
    <3>1. PICK g \in Nat : g = Cardinality(Givers)
      BY <1>6
    <3>2. QueueFree = nfree + g /\ QueueFree' = (nfree - 1) + g
      BY <1>5, <2>1, <2>2, <3>1
    <3>3. QueueUsed' = QueueUsed
      BY <1>5, <2>1, <2>2
    <3> QED  BY <2>1, <3>2, <3>3
  <2> QED  BY <1>3, <1>4, <2>3 DEF Queue!Reserve
<1>8. ASSUME NEW p \in Producers, EnqueuePost(p)
      PROVE  Queue!Unposted > Cardinality(QueueUnwritten) /\ Queue!Post
  <2>1. nused' = nused + 1 /\ UNCHANGED <<nfree, cpc>> /\ ppc[p] = "post"
    BY <1>8 DEF EnqueuePost
  <2>2. Takers' = Takers /\ Givers' = Givers
    BY <2>1 DEF Takers, Givers
  <2>3. QueueUsed' = QueueUsed + 1 /\ QueueFree' = QueueFree
    <3>1. PICK g \in Nat : g = Cardinality(Takers)
      BY <1>6
    <3>2. QueueUsed = nused + g /\ QueueUsed' = (nused + 1) + g
      BY <1>5, <2>1, <2>2, <3>1
    <3>3. QueueFree' = QueueFree
      BY <1>5, <2>1, <2>2
    <3> QED  BY <3>2, <3>3
  <2>4. Cardinality(Posters) >= 1
    <3>1. ppc' = [ppc EXCEPT ![p] = "idle"]
      BY <1>8 DEF EnqueuePost
    <3>2. Moves(Posters, Posters', ppc[p] = "post", "idle" = "post")
      BY <3>1, ProducerMoves
    <3> QED  BY <2>1, <3>2 DEF Moves
  <2>5. Cardinality(QueueUnwritten) <= Cardinality(Storers)
        /\ Cardinality(QueueUnwritten) \in Nat
    <3>1. IsFiniteSet(Storers)
      <4>1. Storers \in SUBSET Producers
        BY DEF Storers
      <4> QED  BY <4>1, RingBufAssumption, FS_Subset
    <3> DEFINE f == [q \in Storers |-> pdata[q]]
    <3>2. f \in Surjection(Storers, QueueUnwritten)
      BY DEF QueueIs, Surjection
    <3> HIDE DEF f
    <3>3. /\ IsFiniteSet(QueueUnwritten)
          /\ Cardinality(QueueUnwritten) <= Cardinality(Storers)
      BY <3>1, <3>2, FS_Surjection
    <3> QED  BY <3>3, FS_CardinalityType
  <2>6. Len(QueueRing) - QueueUsed > Cardinality(QueueUnwritten)
    <3>1. nused + Cardinality(Takers) + Cardinality(Storers) + Cardinality(Posters) = W - R
      BY DEF Window, Tokens
    <3>2. PICK u \in Nat : u = Cardinality(QueueUnwritten)
      BY <2>5
    <3>3. PICK s \in Nat : s = Cardinality(Storers)
      BY <1>6
    <3>4. u <= s
      BY <2>5, <3>2, <3>3
    <3>5. PICK n \in Nat : n = QueueUsed
      BY <1>5, <1>6
    <3>6. PICK m \in Nat : m = Cardinality(Posters) /\ m >= 1
      BY <1>6, <2>4
    <3>7. n + s + m = W - R
      BY <1>5, <1>6, <3>1, <3>3, <3>5, <3>6
    <3>8. Len(QueueRing) - n > u
      BY <1>5, <3>4, <3>6, <3>7
    <3> QED  BY <3>2, <3>5, <3>8
  <2> QED  BY <1>3, <1>4, <2>3, <2>6 DEF Queue!Post, Queue!Unposted
<1>9. ASSUME NEW c \in Consumers, TryDequeue(c) \/ DequeueFetch(c) \/ DequeuePost(c)
      PROVE  QueueFree' = QueueFree /\ QueueUsed' = QueueUsed
  <2>1. CASE TryDequeue(c)
    <3>1. /\ cpc[c] = "idle" /\ cpc' = [cpc EXCEPT ![c] = "fetch"] /\ nfree' = nfree
          /\ nused' = nused - 1
      BY <2>1 DEF TryDequeue
    <3>2. /\ Moves(Takers, Takers', cpc[c] \in {"fetch", "swap"}, "fetch" \in {"fetch", "swap"})
          /\ Moves(Givers, Givers', cpc[c] = "post", "fetch" = "post")
      BY <3>1, ConsumerMoves
    <3>3. /\ Cardinality(Takers') = Cardinality(Takers) + 1
          /\ Cardinality(Givers') = Cardinality(Givers)
      BY <3>1, <3>2 DEF Moves
    <3>4. PICK g \in Nat : g = Cardinality(Takers)
      BY <1>6
    <3>5. QueueUsed = nused + g /\ QueueUsed' = (nused - 1) + (g + 1)
      BY <1>5, <3>1, <3>3, <3>4
    <3>6. QueueFree' = QueueFree
      BY <1>5, <3>1, <3>3
    <3> QED  BY <3>5, <3>6
  <2>2. CASE DequeueFetch(c)
    <3>1. Takers' = Takers /\ Givers' = Givers /\ UNCHANGED <<nfree, nused>>
      BY <2>2 DEF DequeueFetch, Takers, Givers
    <3> QED  BY <1>5, <3>1
  <2>3. CASE DequeuePost(c)
    <3>1. /\ cpc[c] = "post" /\ cpc' = [cpc EXCEPT ![c] = "idle"] /\ nfree' = nfree + 1
          /\ nused' = nused
      BY <2>3 DEF DequeuePost
    <3>2. /\ Moves(Takers, Takers', cpc[c] \in {"fetch", "swap"}, "idle" \in {"fetch", "swap"})
          /\ Moves(Givers, Givers', cpc[c] = "post", "idle" = "post")
      BY <3>1, ConsumerMoves
    <3>3. /\ Cardinality(Takers') = Cardinality(Takers)
          /\ Cardinality(Givers') = Cardinality(Givers) - 1
      BY <3>1, <3>2 DEF Moves
    <3>4. PICK g \in Nat : g = Cardinality(Givers)
      BY <1>6
    <3>5. QueueFree = nfree + g /\ QueueFree' = (nfree + 1) + (g - 1)
      BY <1>5, <3>1, <3>3, <3>4
    <3>6. QueueUsed' = QueueUsed
      BY <1>5, <3>1, <3>3
    <3> QED  BY <3>5, <3>6
  <2> QED  BY <1>9, <2>1, <2>2, <2>3
<1>10. CASE \E p \in Producers : (\E x \in avail : TryEnqueue(p, x)) \/ EnqueuePost(p)
  <2>1. Queue!RingNext
    BY <1>7, <1>8, <1>10, QueueCardinality DEF Queue!RingNext
  <2> QED  BY <2>1
<1>11. CASE \E c \in Consumers : TryDequeue(c) \/ DequeueFetch(c) \/ DequeuePost(c)
  <2>1. QueueFree' = QueueFree /\ QueueUsed' = QueueUsed
    BY <1>9, <1>11
  <2>2. UNCHANGED Queue!ringVars
    BY <1>3, <1>4, <2>1 DEF Queue!ringVars
  <2> QED  BY <2>2
<1> QED  BY <1>10, <1>11

\* A pointer of the queue is in the hands of its producer or in its slot.
LEMMA QueuePlaces ==
    ASSUME NEW R \in Nat, NEW W \in Nat, QueueIs(R, W), NEW i \in 1 .. W - R
    PROVE  \/ \E p \in Storers : w[p] = At(R + i - 1) /\ QueueRing[i] = pdata[p]
           \/ /\ ~Pending(At(R + i - 1)) /\ QueueRing[i] = data[Cell(R + i - 1)]
              /\ Cell(R + i - 1) \in Slots
<1>1. CASE Pending(At(R + i - 1))
  BY <1>1 DEF QueueIs, Pending
<1>2. CASE ~Pending(At(R + i - 1))
  <2>1. R + i - 1 \in Int
    OBVIOUS
  <2>2. Cell(R + i - 1) \in Slots
    BY <2>1, Wrapping
  <2> QED  BY <1>2, <2>2 DEF QueueIs
<1> QED  BY <1>1, <1>2

\* A claimed position is a new last element of the queue.
LEMMA ClaimSeen ==
    ASSUME NEW R \in Nat, NEW W \in Nat, Window(R, W), RingTypes, Pointers,
           QueueIs(R, W), NEW V \in Nat, V = W + 1, QueueIs(R, V)',
           NEW p \in Producers, EnqueueFetch(p)
    PROVE  Queue!RingNext
<1> USE DEF RingTypes, prodVars, consVars
<1>0. RingLen \in Nat /\ R <= W /\ W + 1 <= R + RingLen /\ W <= R + RingLen
  <2>1. Fetchers # {}
    BY DEF EnqueueFetch, Fetchers
  <2> QED  BY <2>1, WindowBound, RingBufAssumption DEF Window, Counters
<1>1. /\ ppc[p] = "fetch" /\ ppc' = [ppc EXCEPT ![p] = "store"]
      /\ w' = [w EXCEPT ![p] = At(W)] /\ UNCHANGED <<pdata, data, nfree, nused, cpc>>
  BY DEF EnqueueFetch, Window, Counters
<1>2. /\ Storers' = Storers \cup {p} /\ p \notin Storers /\ Storers \subseteq Producers
      /\ w'[p] = At(W) /\ \A q \in Storers : w'[q] = w[q]
  BY <1>1 DEF Storers
<1>3. pdata[p] \in Entries /\ pdata[p] # None
  BY <1>1 DEF Pointers
<1>4. /\ QueueRing \in Seq(Entries) /\ QueueRing' \in Seq(Entries)
      /\ Len(QueueRing) = W - R /\ Len(QueueRing') = V - R
  BY DEF QueueIs
<1>5. ASSUME NEW i \in 1 .. W - R PROVE QueueRing'[i] = QueueRing[i]
  <2>0. i \in 1 .. V - R /\ R + i - 1 \in R .. W - 1
    BY <1>0
  <2>1. CASE \E q \in Storers : w[q] = At(R + i - 1) /\ QueueRing[i] = pdata[q]
    <3>1. PICK q \in Storers : w[q] = At(R + i - 1) /\ QueueRing[i] = pdata[q]
      BY <2>1
    <3>2. q \in Storers' /\ w'[q] = At(R + i - 1) /\ pdata'[q] = pdata[q]
      BY <1>1, <1>2, <3>1
    <3> QED  BY <2>0, <3>1, <3>2 DEF QueueIs
  <2>2. CASE ~Pending(At(R + i - 1)) /\ QueueRing[i] = data[Cell(R + i - 1)]
    <3>1. At(R + i - 1) # At(W)
      <4>1. R + i - 1 \in R .. W /\ W \in R .. W /\ R + i - 1 # W
        BY <1>0, <2>0
      <4> QED  BY <1>0, <4>1, WindowFacts
    <3>2. ~Pending(At(R + i - 1))'
      BY <1>2, <2>2, <3>1 DEF Pending
    <3>3. \A j \in 1 .. V - R :
            ~Pending(At(R + j - 1))' => QueueRing'[j] = data'[Cell(R + j - 1)]
      BY DEF QueueIs
    <3>4. QueueRing'[i] = data'[Cell(R + i - 1)]
      BY <2>0, <3>2, <3>3, Zenon
    <3> QED  BY <1>1, <2>2, <3>4
  <2> QED  BY <2>1, <2>2, QueuePlaces
<1>6. QueueRing'[V - R] = pdata[p]
  <2>1. PICK n \in 1 .. V - R : n = V - R /\ R + n - 1 = W
    BY <1>0
  <2>2. p \in Storers' /\ w'[p] = At(R + n - 1) /\ pdata'[p] = pdata[p]
    BY <1>1, <1>2, <2>1
  <2>3. \A i \in 1 .. V - R :
          \A q \in Storers' : w'[q] = At(R + i - 1) => QueueRing'[i] = pdata'[q]
    BY DEF QueueIs
  <2>4. QueueRing'[n] = pdata'[p]
    BY <2>2, <2>3, Zenon
  <2> QED  BY <2>1, <2>2, <2>4
<1>7. QueueRing' = Append(QueueRing, pdata[p])
  <2>0. \A q \in Seq(Entries), x \in Entries : Append(q, x) \in Seq(Entries)
    OBVIOUS
  <2>1. PICK s \in Seq(Entries) : s = Append(QueueRing, pdata[p])
    BY <1>3, <1>4, <2>0, Zenon
  <2>2. /\ Len(s) = V - R /\ s[V - R] = pdata[p]
        /\ \A i \in 1 .. W - R : s[i] = QueueRing[i]
    BY <1>0, <1>4, <2>1
  <2>3. \A i \in 1 .. V - R : i \in 1 .. W - R \/ i = V - R
    BY <1>0
  <2>4. \A i \in 1 .. Len(QueueRing') : QueueRing'[i] = s[i]
    BY <1>4, <1>5, <1>6, <2>2, <2>3
  <2>5. Len(QueueRing') = Len(s)
    BY <1>4, <2>2
  <2>6. QueueRing' = s
    BY <1>4, <2>1, <2>4, <2>5, SameQueue
  <2> QED  BY <2>1, <2>6
<1>8. pdata[p] \notin Queue!Elems(QueueRing)
  <2>1. ASSUME NEW i \in 1 .. W - R PROVE QueueRing[i] # pdata[p]
    <3>1. \A q \in Storers : pdata[q] # pdata[p]
      BY <1>2, <1>3 DEF Pointers
    <3>2. \A s \in Slots : data[s] # pdata[p]
      BY <1>3 DEF Pointers
    <3> QED  BY <3>1, <3>2, QueuePlaces
  <2>2. DOMAIN QueueRing = 1 .. W - R
    BY <1>4
  <2> QED  BY <2>1, <2>2 DEF Queue!Elems
<1>9. QueueUnwritten' = QueueUnwritten \cup {pdata[p]}
  <2>1. QueueUnwritten = {pdata[q] : q \in Storers}
    BY DEF QueueIs
  <2>2. QueueUnwritten' = {pdata'[q] : q \in Storers'}
    BY DEF QueueIs
  <2> QED  BY <1>1, <1>2, <2>1, <2>2
<1>10. QueueFree' = QueueFree /\ QueueUsed' = QueueUsed
  <2>1. Takers' = Takers /\ Givers' = Givers
    BY <1>1 DEF Takers, Givers
  <2> QED  BY <1>1, <2>1 DEF QueueIs
<1>11. RingLen - QueueFree - Len(QueueRing) > 0
  <2>1. Moves(Fetchers, Fetchers', ppc[p] = "fetch", "store" = "fetch")
    BY <1>1, ProducerMoves
  <2>2. Cardinality(Fetchers) >= 1
    BY <1>1, <2>1 DEF Moves
  <2>3. nfree + Cardinality(Fetchers) + (W - R) + Cardinality(Givers) = RingLen
    BY DEF Window, Tokens
  <2>4. PICK n \in Nat : n = nfree + Cardinality(Givers)
    BY WindowBound DEF Window
  <2>5. PICK k \in Nat : k = Cardinality(Fetchers) /\ k >= 1
    BY <2>2, WindowBound DEF Window
  <2>6. n + k + (W - R) = RingLen
    BY <2>3, <2>4, <2>5, WindowBound DEF Window
  <2>7. QueueFree = n
    BY <2>4 DEF QueueIs
  <2> QED  BY <1>0, <1>4, <2>5, <2>6, <2>7
<1>12. Queue!Claim(pdata[p])
  BY <1>7, <1>9, <1>10 DEF Queue!Claim
<1> QED  BY <1>3, <1>8, <1>11, <1>12 DEF Queue!RingNext, Queue!Reserved

\* A stored pointer keeps its place in the queue.
LEMMA StoreSeen ==
    ASSUME NEW R \in Nat, NEW W \in Nat, Window(R, W), RingTypes, Pointers,
           QueueIs(R, W), QueueIs(R, W)', NEW p \in Producers, EnqueueStore(p)
    PROVE  Queue!RingNext
<1> USE DEF RingTypes, prodVars, consVars
<1>0. RingLen \in Nat /\ R <= W /\ W <= R + RingLen
  BY WindowBound, RingBufAssumption DEF Window, Counters
<1>1. PICK Q \in R .. W - 1 : w[p] = At(Q)
  BY DEF EnqueueStore, Storers, Window, Counters
<1>2. /\ ppc[p] = "store" /\ ppc' = [ppc EXCEPT ![p] = "post"]
      /\ w' = [w EXCEPT ![p] = 0] /\ data' = [data EXCEPT ![Cell(Q)] = pdata[p]]
      /\ pdata' = [pdata EXCEPT ![p] = None]
      /\ pdata[p] # None /\ Cell(Q) \in Slots
      /\ UNCHANGED <<nfree, nused, cpc>>
  <2>1. Slot(w[p]) = Cell(Q) /\ Cell(Q) \in Slots
    BY <1>1, Wrapping
  <2> QED  BY <2>1 DEF EnqueueStore, Pointers
<1>3. Storers' = Storers \ {p} /\ p \in Storers /\ Storers \subseteq Producers
  BY <1>2 DEF Storers
<1>4. \A q \in Storers' : w'[q] = w[q] /\ pdata'[q] = pdata[q]
  BY <1>2, <1>3
<1>5. \A q \in Storers : w[q] = w[p] => q = p
  BY <1>3 DEF Window, Counters
<1>6. ASSUME NEW i \in 1 .. W - R PROVE QueueRing'[i] = QueueRing[i]
  <2>1. PICK P \in R .. W - 1 : P = R + i - 1
    BY <1>0
  <2>2. CASE P = Q
    <3>1. ~Pending(At(P))'
      BY <1>1, <1>3, <1>4, <1>5, <2>2 DEF Pending
    <3>2. data'[Cell(P)] = pdata[p]
      BY <1>2, <2>2
    <3>3. QueueRing[i] = pdata[p]
      BY <1>1, <1>3, <2>1, <2>2 DEF QueueIs
    <3> QED  BY <2>1, <3>1, <3>2, <3>3 DEF QueueIs
  <2>3. CASE P # Q
    <3>1. Cell(P) # Cell(Q) /\ At(P) # At(Q)
      <4>1. P \in R .. W /\ Q \in R .. W
        BY <1>0
      <4> QED  BY <1>0, <2>3, <4>1, WindowFacts
    <3>2. CASE \E q \in Storers : w[q] = At(P) /\ QueueRing[i] = pdata[q]
      <4>1. PICK q \in Storers : w[q] = At(P) /\ QueueRing[i] = pdata[q]
        BY <3>2
      <4>2. q \in Storers' /\ w'[q] = At(P) /\ pdata'[q] = pdata[q]
        BY <1>1, <1>3, <1>4, <3>1, <4>1
      <4> QED  BY <2>1, <4>1, <4>2 DEF QueueIs
    <3>3. CASE ~Pending(At(P)) /\ QueueRing[i] = data[Cell(P)] /\ Cell(P) \in Slots
      <4>1. ~Pending(At(P))'
        BY <1>3, <1>4, <3>3 DEF Pending
      <4>2. data'[Cell(P)] = data[Cell(P)]
        BY <1>2, <3>1, <3>3
      <4> QED  BY <2>1, <3>3, <4>1, <4>2 DEF QueueIs
    <3> QED  BY <2>1, <3>2, <3>3, QueuePlaces
  <2> QED  BY <2>2, <2>3
<1>7. QueueRing' = QueueRing
  <2>1. /\ QueueRing \in Seq(Entries) /\ QueueRing' \in Seq(Entries)
        /\ Len(QueueRing) = W - R /\ Len(QueueRing') = W - R
    BY DEF QueueIs
  <2> QED  BY <1>6, <2>1, SameQueue
<1>8. pdata[p] \in QueueUnwritten /\ QueueUnwritten' = QueueUnwritten \ {pdata[p]}
  <2>1. QueueUnwritten = {pdata[q] : q \in Storers}
    BY DEF QueueIs
  <2>2. QueueUnwritten' = {pdata'[q] : q \in Storers'}
    BY DEF QueueIs
  <2>3. \A q \in Storers : pdata[q] = pdata[p] => q = p
    BY <1>2, <1>3 DEF Pointers
  <2> QED  BY <1>3, <1>4, <2>1, <2>2, <2>3
<1>9. QueueFree' = QueueFree /\ QueueUsed' = QueueUsed
  <2>1. Takers' = Takers /\ Givers' = Givers
    BY <1>2 DEF Takers, Givers
  <2> QED  BY <1>2, <2>1 DEF QueueIs
<1>10. Queue!Write(pdata[p])
  BY <1>7, <1>8, <1>9 DEF Queue!Write
<1> QED  BY <1>8, <1>10 DEF Queue!RingNext

\* An emptied slot is the first element of the queue, taken away.
LEMMA TakeSeen ==
    ASSUME NEW R \in Nat, NEW W \in Nat, Window(R, W), RingTypes, Pointers,
           QueueIs(R, W), QueueIs(R + 1, W)', NEW c \in Consumers, DequeueSwap(c)
    PROVE  Queue!RingNext
<1> USE DEF RingTypes, prodVars, consVars
<1>0. RingLen \in Nat /\ R + 1 <= W /\ R <= W /\ W <= R + RingLen
  <2>1. Takers # {}
    BY DEF DequeueSwap, Takers
  <2> QED  BY <2>1, WindowBound, RingBufAssumption DEF Window
<1>1. /\ cpc[c] = "swap" /\ cpc' = [cpc EXCEPT ![c] = "post"]
      /\ data' = [data EXCEPT ![Cell(R)] = None] /\ data[Cell(R)] # None
      /\ Cell(R) \in Slots /\ UNCHANGED <<nfree, nused, ppc, pdata, w>>
  <2>1. r[c] = At(R)
    BY DEF DequeueSwap, Window, Counters
  <2>2. Slot(r[c]) = Cell(R) /\ Cell(R) \in Slots
    BY <2>1, Wrapping
  <2> QED  BY <2>1, <2>2 DEF DequeueSwap
<1>2. Storers' = Storers
  BY <1>1 DEF Storers
<1>3. /\ QueueRing \in Seq(Entries) /\ QueueRing' \in Seq(Entries)
      /\ Len(QueueRing) = W - R /\ Len(QueueRing') = W - (R + 1)
  BY DEF QueueIs
<1>4. ASSUME NEW i \in 1 .. W - (R + 1) PROVE QueueRing'[i] = QueueRing[i + 1]
  <2>1. PICK P \in R .. W - 1 : P = (R + 1) + i - 1 /\ P = R + (i + 1) - 1 /\ P # R
    BY <1>0
  <2>2. PICK j \in 1 .. W - R : j = i + 1 /\ P = R + j - 1
    BY <1>0, <2>1
  <2>3. CASE \E q \in Storers : w[q] = At(P) /\ QueueRing[j] = pdata[q]
    <3>1. PICK q \in Storers : w[q] = At(P) /\ QueueRing[j] = pdata[q]
      BY <2>3
    <3>2. q \in Storers' /\ w'[q] = At(P) /\ pdata'[q] = pdata[q]
      BY <1>1, <1>2, <3>1
    <3>3. QueueRing'[i] = pdata'[q]
      BY <2>1, <3>2 DEF QueueIs
    <3> QED  BY <2>2, <3>1, <3>2, <3>3
  <2>4. CASE ~Pending(At(P)) /\ QueueRing[j] = data[Cell(P)] /\ Cell(P) \in Slots
    <3>1. ~Pending(At(P))'
      BY <1>1, <1>2, <2>4 DEF Pending
    <3>2. Cell(P) # Cell(R)
      <4>1. P \in R .. W - 1 /\ R \in R .. W - 1
        BY <1>0
      <4> QED  BY <1>0, <2>1, <4>1, WindowFacts
    <3>3. data'[Cell(P)] = data[Cell(P)]
      BY <1>1, <2>4, <3>2
    <3>4. QueueRing'[i] = data'[Cell(P)]
      BY <2>1, <3>1 DEF QueueIs
    <3> QED  BY <2>2, <2>4, <3>3, <3>4
  <2> QED  BY <2>2, <2>3, <2>4, QueuePlaces
<1>5. QueueRing' = Tail(QueueRing)
  <2>1. PICK n \in Nat : n = W - (R + 1) /\ n + 1 = W - R
    BY <1>0
  <2>2. \A q \in Seq(Entries) : Len(q) = n + 1 =>
          Tail(q) \in Seq(Entries) /\ Len(Tail(q)) = n /\ \A i \in 1 .. n : Tail(q)[i] = q[i + 1]
    OBVIOUS
  <2>3. PICK s \in Seq(Entries) :
          s = Tail(QueueRing) /\ Len(s) = n /\ \A i \in 1 .. n : s[i] = QueueRing[i + 1]
    BY <1>3, <2>1, <2>2
  <2>4. Len(QueueRing') = n /\ \A i \in 1 .. n : QueueRing'[i] = s[i]
    BY <1>3, <1>4, <2>1, <2>3
  <2>5. QueueRing' = s
    BY <1>3, <2>3, <2>4, SameQueue
  <2> QED  BY <2>3, <2>5
<1>6. QueueUnwritten' = QueueUnwritten
  <2>1. QueueUnwritten = {pdata[p] : p \in Storers}
    BY DEF QueueIs
  <2>2. QueueUnwritten' = {pdata'[p] : p \in Storers'}
    BY DEF QueueIs
  <2> QED  BY <1>1, <1>2, <2>1, <2>2
<1>7. Queue!HeadStored
  <2>1. ~Pending(At(R))
    <3>1. R \in R .. W - 1
      BY <1>0
    <3> QED  BY <1>1, <3>1 DEF Window, Contents
  <2>2. 1 \in 1 .. W - R /\ R + 1 - 1 = R
    BY <1>0
  <2>3. QueueRing[1] = data[Cell(R)]
    BY <2>1, <2>2 DEF QueueIs
  <2>4. Head(QueueRing) = data[Cell(R)] /\ QueueRing # <<>>
    BY <1>0, <1>3, <2>3
  <2>5. \A p \in Storers : pdata[p] # data[Cell(R)]
    BY <1>1 DEF Storers, Pointers
  <2>6. QueueUnwritten = {pdata[p] : p \in Storers}
    BY DEF QueueIs
  <2>7. Head(QueueRing) \notin QueueUnwritten
    BY <2>4, <2>5, <2>6
  <2> QED  BY <2>4, <2>7 DEF Queue!HeadStored
<1>8. QueueUsed > 0 /\ QueueUsed' = QueueUsed - 1 /\ QueueFree' = QueueFree + 1
  <2>1. /\ Moves(Takers, Takers', cpc[c] \in {"fetch", "swap"}, "post" \in {"fetch", "swap"})
        /\ Moves(Givers, Givers', cpc[c] = "post", "post" = "post")
    BY <1>1, ConsumerMoves
  <2>2. /\ Cardinality(Takers') = Cardinality(Takers) - 1 /\ Cardinality(Takers) >= 1
        /\ Cardinality(Givers') = Cardinality(Givers) + 1
    BY <1>1, <2>1 DEF Moves
  <2>3. Cardinality(Takers) \in Nat /\ Cardinality(Givers) \in Nat
    BY WindowBound DEF Window
  <2>4. /\ QueueFree = nfree + Cardinality(Givers) /\ QueueUsed = nused + Cardinality(Takers)
        /\ QueueFree' = nfree' + Cardinality(Givers')
        /\ QueueUsed' = nused' + Cardinality(Takers')
    BY DEF QueueIs
  <2> QED  BY <1>1, <2>2, <2>3, <2>4
<1>9. Queue!Take
  BY <1>5, <1>6, <1>7, <1>8 DEF Queue!Take
<1> QED  BY <1>9 DEF Queue!RingNext

\* Every step of the ring is a step of the queue, or none.
LEMMA QueueStep ==
    ASSUME OneConsumer
    PROVE  RingInv /\ [Next]_vars => [Queue!RingNext]_Queue!ringVars
<1> SUFFICES ASSUME RingInv, [Next]_vars PROVE [Queue!RingNext]_Queue!ringVars
  OBVIOUS
<1>1. CASE UNCHANGED vars
  <2>1. Oldest' = Oldest /\ write_pos' = write_pos
    BY <1>1 DEF vars, consVars, Oldest
  <2>2. \A q : PointerAt(q)' = PointerAt(q)
    BY <1>1 DEF vars, prodVars, PointerAt
  <2>3. QueueRing' = QueueRing
    BY <2>1, <2>2 DEF QueueRing, Claimed
  <2>4. /\ QueueUnwritten' = QueueUnwritten /\ QueueFree' = QueueFree
        /\ QueueUsed' = QueueUsed
    BY <1>1 DEF vars, prodVars, consVars, QueueUnwritten, QueueFree, QueueUsed
  <2>5. UNCHANGED Queue!ringVars
    BY <2>3, <2>4 DEF Queue!ringVars
  <2> QED  BY <2>5
<1>2. CASE Next
  <2>1. PICK R \in Nat, W \in Nat : Window(R, W)
    BY DEF RingInv, WindowInv
  <2>2. RingTypes /\ Pointers /\ Tokens(R, W) /\ Counters(R, W)
    BY <2>1 DEF RingInv, Window
  <2>3. RingTypes' /\ Pointers'
    BY <1>2, <2>2, TypesStep, PointersStep
  <2>4. QueueIs(R, W)
    BY <2>1, <2>2, QueueOfWindow
  <2>5. \A P, Q \in Nat : Window(P, Q)' => QueueIs(P, Q)'
    BY <2>3, QueueOfNextWindow
  <2>6. R + 1 \in Nat /\ W + 1 \in Nat
    OBVIOUS
  <2>7. CASE \/ \E p \in Producers : \/ \E x \in avail : TryEnqueue(p, x)
                                     \/ EnqueuePost(p)
             \/ \E c \in Consumers : TryDequeue(c) \/ DequeueFetch(c) \/ DequeuePost(c)
    <3>1. Window(R, W)'
      BY <2>1, <2>2, <2>7, WindowTokens, WindowFetch
    <3>2. QueueIs(R, W)'
      BY <2>5, <3>1
    <3> QED  BY <2>1, <2>2, <2>4, <2>7, <3>2, TokensSeen
  <2>8. ASSUME NEW p \in Producers, EnqueueFetch(p) PROVE Queue!RingNext
    <3>1. Window(R, W + 1)'
      BY <2>1, <2>2, <2>8, WindowClaim
    <3>2. QueueIs(R, W + 1)'
      BY <2>5, <2>6, <3>1
    <3> QED  BY <2>1, <2>2, <2>4, <2>6, <2>8, <3>2, ClaimSeen
  <2>9. ASSUME NEW p \in Producers, EnqueueStore(p) PROVE Queue!RingNext
    <3>1. Window(R, W)'
      BY <2>1, <2>2, <2>9, WindowStore
    <3>2. QueueIs(R, W)'
      BY <2>5, <3>1
    <3> QED  BY <2>1, <2>2, <2>4, <2>9, <3>2, StoreSeen
  <2>10. ASSUME NEW c \in Consumers, DequeueSwap(c) PROVE Queue!RingNext
    <3>1. Window(R + 1, W)'
      BY <2>1, <2>2, <2>10, WindowTake
    <3>2. QueueIs(R + 1, W)'
      BY <2>5, <2>6, <3>1
    <3> QED  BY <2>1, <2>2, <2>4, <2>10, <3>2, TakeSeen
  <2> QED  BY <1>2, <2>7, <2>8, <2>9, <2>10 DEF Next, ProducerStep, ConsumerStep
<1> QED  BY <1>1, <1>2

\* A new ring is an empty queue.
LEMMA QueueInit ==
    ASSUME OneConsumer
    PROVE  Init => Queue!RingInit
<1> SUFFICES ASSUME Init PROVE Queue!RingInit
  OBVIOUS
<1>1. Oldest = 0 /\ write_pos = 0
  BY DEF Init, Oldest
<1>2. 0 - 0 = 0 /\ 0 % PosMod = 0
  BY RingBufAssumption
<1>3. Claimed(Oldest) = 0
  BY <1>1, <1>2 DEF Claimed
<1>4. QueueRing = <<>>
  BY <1>3 DEF QueueRing
<1>5. QueueUnwritten = {}
  BY DEF Init, QueueUnwritten
<1>6. /\ {c \in Consumers : cpc[c] = "post"} = {}
      /\ {c \in Consumers : cpc[c] \in {"fetch", "swap"}} = {}
  BY DEF Init
<1>7. QueueFree = RingLen /\ QueueUsed = 0
  <2>1. Cardinality({}) = 0
    BY FS_EmptySet
  <2>2. QueueFree = RingLen + 0 /\ QueueUsed = 0 + 0
    BY <1>6, <2>1 DEF Init, QueueFree, QueueUsed
  <2> QED  BY <2>2, RingBufAssumption
<1> QED  BY <1>4, <1>5, <1>7 DEF Queue!RingInit

\* With one consumer at a time the ring is the bounded FIFO queue of RingQueue,
\* whatever the producers do: the pointers leave in the order in which
\* ringbuf_enqueue_atomic claimed their positions, none is lost, doubled or taken
\* before it is stored, and there are never more than the ring has slots.
THEOREM RingFifo ==
    ASSUME OneConsumer
    PROVE  Spec => FifoQueue
BY RingInvariant, QueueInit, QueueStep, PTL DEF Spec, FifoQueue, Queue!RingSpec
=============================================================================
