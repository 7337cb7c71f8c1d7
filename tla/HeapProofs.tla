----------------------------- MODULE HeapProofs -----------------------------
(***************************************************************************)
(* Proofs about the allocator (module Heap).                               *)
(***************************************************************************)
EXTENDS Heap, FiniteSetTheorems, SequenceTheorems, WellFoundedInduction, TLAPS

----------------------------------------------------------------------------
(* Induction *)

Less == {ss \in Nat \X Nat : ss[1] < ss[2]}

\* A set of natural numbers that is not empty has a least element: proofs by
\* induction are given as proofs about a least counterexample.
LEMMA Least ==
    ASSUME NEW T \in SUBSET Nat, T # {}
    PROVE  \E x \in T : \A y \in T : x <= y
<1>1. IsWellFoundedOn(Less, Nat)
  BY NatLessThanWellFounded, Zenon DEF OpToRel, Less
<1>2. \E x \in T : \A y \in T : <<y, x>> \notin Less
  BY <1>1, WFMin
<1>3. \A x, y \in Nat : y < x => <<y, x>> \in Less
  BY DEF Less
<1>4. PICK x \in T : \A y \in T : <<y, x>> \notin Less
  BY <1>2
<1>5. \A y \in T : ~(y < x)
  BY <1>3, <1>4
<1>6. \A y \in T : y \in Nat /\ x \in Nat
  OBVIOUS
<1> QED BY <1>5, <1>6

----------------------------------------------------------------------------
(* Numbers *)

LEMMA MinTwo ==
    ASSUME NEW a \in Int, NEW b \in Int
    PROVE  Min({a, b}) = IF a < b THEN a ELSE b
<1>1. Min({a, b}) \in {a, b} /\ \A y \in {a, b} : Min({a, b}) <= y
  <2>1. \E x \in {a, b} : \A y \in {a, b} : x <= y
    OBVIOUS
  <2> QED BY <2>1 DEF Min
<1> QED BY <1>1

\* Multiples of the extent size.
Mult(n) == \E k \in Int : n = k * extent_size

LEMMA ExtentSize == extent_size \in Nat /\ extent_size >= 6
BY HeapAssumption DEF HeapAssumption, HFER_SIZE, HEADER_SIZE, FOOTER_SIZE

LEMMA MultSum == \A m, n \in Int : Mult(m) /\ Mult(n) => Mult(m + n) /\ Mult(m - n)
<1> SUFFICES ASSUME NEW m \in Int, NEW n \in Int, Mult(m), Mult(n)
             PROVE  Mult(m + n) /\ Mult(m - n)
  OBVIOUS
<1>1. PICK j \in Int : m = j * extent_size
  BY DEF Mult
<1>2. PICK k \in Int : n = k * extent_size
  BY DEF Mult
<1>3. m + n = (j + k) * extent_size /\ m - n = (j - k) * extent_size
  BY <1>1, <1>2, ExtentSize
<1> QED BY <1>3 DEF Mult

LEMMA MultLeast == \A n \in Int : Mult(n) /\ n > 0 => n >= extent_size
<1> SUFFICES ASSUME NEW n \in Int, Mult(n), n > 0
             PROVE  n >= extent_size
  OBVIOUS
<1>1. PICK k \in Int : n = k * extent_size
  BY DEF Mult
<1>2. k >= 1
  BY <1>1, ExtentSize
<1> QED BY <1>1, <1>2, ExtentSize

LEMMA MultZero == Mult(0) /\ Mult(extent_size)
<1>1. 0 = 0 * extent_size /\ extent_size = 1 * extent_size
  BY ExtentSize
<1> QED BY <1>1 DEF Mult

\* The rounding of vmcache_alloc.
LEMMA RoundUp ==
    ASSUME NEW n \in Nat
    PROVE  /\ AlignUp(n, extent_size) \in Int
           /\ Mult(AlignUp(n, extent_size))
           /\ n <= AlignUp(n, extent_size)
           /\ AlignUp(n, extent_size) < n + extent_size
<1>1. extent_size \in Nat \ {0}
  BY ExtentSize
<1>2. PICK m \in Nat : m = n + extent_size - 1
  BY <1>1
<1>3. PICK r \in 0 .. extent_size - 1 : r = m % extent_size
  BY <1>1
<1>4. PICK q \in Int : q = m \div extent_size
  BY <1>1
<1>5. m = q * extent_size + r
  BY <1>1, <1>3, <1>4
<1>6. AlignUp(n, extent_size) = m - r
  BY <1>2, <1>3 DEF AlignUp, AlignDown
<1>7. m - r = q * extent_size
  BY <1>1, <1>5
<1>8. Mult(m - r)
  BY <1>7 DEF Mult
<1> QED BY <1>1, <1>2, <1>3, <1>6, <1>8

\* The pool lies between the guards, inside the mapping.
LEMMA Layout ==
    /\ new_addr \in Nat /\ new_size \in Nat /\ new_size > 2
    /\ Addr \in Nat /\ MapLen \in Nat
    /\ Addr < new_addr /\ new_addr + new_size < Addr + MapLen
<1>1. Addr \in Nat /\ MapLen \in Nat /\ GUARD_SIZE \in Nat \ {0} /\ new_size > 2
  BY HeapAssumption DEF HeapAssumption, HFER_SIZE, HEADER_SIZE, FOOTER_SIZE
<1>2. PICK m \in Nat : m = Addr + GUARD_SIZE + GUARD_SIZE - 1
  BY <1>1
<1>3. PICK r \in 0 .. GUARD_SIZE - 1 : r = m % GUARD_SIZE
  BY <1>1
<1>4. new_addr = m - r
  BY <1>2, <1>3 DEF new_addr, AlignUp, AlignDown
<1>5. new_addr \in Nat /\ new_addr >= Addr + GUARD_SIZE
  BY <1>1, <1>2, <1>3, <1>4
<1>6. PICK s \in Int : s = MapLen - (new_addr - Addr) - GUARD_SIZE
  BY <1>1, <1>5
<1>7. PICK t \in 0 .. GUARD_SIZE - 1 : t = s % GUARD_SIZE
  BY <1>1
<1>8. new_size = s - t
  BY <1>6, <1>7 DEF new_size, AlignDown
<1> QED BY <1>1, <1>5, <1>6, <1>7, <1>8

\* What is left of the pool over the whole extents.
LEMMA Rest ==
    /\ new_size % extent_size \in 0 .. extent_size - 1
    /\ Mult(new_size - (new_size % extent_size))
<1>1. extent_size \in Nat \ {0} /\ new_size \in Nat
  BY ExtentSize, Layout
<1>2. PICK r \in 0 .. extent_size - 1 : r = new_size % extent_size
  BY <1>1
<1>3. PICK q \in Int : q = new_size \div extent_size
  BY <1>1
<1>4. new_size = q * extent_size + r
  BY <1>1, <1>2, <1>3
<1>5. new_size - r = q * extent_size
  BY <1>1, <1>4
<1> QED BY <1>2, <1>5 DEF Mult

----------------------------------------------------------------------------
(* The entries of the pool *)

PtrOrNull == Nat \cup {Null}
Cell == [next : PtrOrNull, prev : PtrOrNull, size : Nat, allocated : BOOLEAN,
         data : {Null} \cup (Values \X Nat)]
Mem == [Cells -> Cell]

\* The fields of the header of the extent p in the memory m.
Sz(m, p) == m[p - 1].size
Nx(m, p) == m[p - 1].next
Pv(m, p) == m[p - 1].prev

\* The extents of E, with their tags, fill the pool but for a hole from lo to
\* hi - 1, which is what a call has taken out and has not yet put back.
Tiles(m, E, lo, hi) ==
    /\ lo \in Nat /\ hi \in Nat
    /\ new_addr <= lo /\ lo <= hi /\ hi <= new_addr + new_size
    /\ E \subseteq Nat
    /\ \A p \in E : Sz(m, p) \in Nat
    /\ \A p \in E : new_addr < p /\ p + Sz(m, p) < new_addr + new_size
    /\ \A p, q \in E : p < q => p + Sz(m, p) + 2 <= q
    /\ \A p \in E : p + Sz(m, p) < lo \/ hi < p
    /\ \A a \in Pool : (lo <= a /\ a < hi)
                        \/ \E p \in E : p <= a + 1 /\ a <= p + Sz(m, p)

\* An extent is taken out where there was no hole; next to the hole, below it
\* and above it.
LEMMA TilesOpen ==
    ASSUME NEW m, NEW E, NEW lo, Tiles(m, E, lo, lo), NEW p \in E
    PROVE  Tiles(m, E \ {p}, p - 1, p + Sz(m, p) + 1)
<1>1. p \in Nat /\ Sz(m, p) \in Nat /\ lo \in Nat /\ new_addr < p
  BY DEF Tiles
<1>2. PICK s \in Nat : s = Sz(m, p)
  BY <1>1
<1>3. \A a \in Pool : (p - 1 <= a /\ a < p + s + 1)
           \/ \E q \in E \ {p} : q <= a + 1 /\ a <= q + Sz(m, q)
  BY <1>1, <1>2, Layout DEF Tiles, Pool
<1>4. \A q \in E \ {p} : q + Sz(m, q) < p - 1 \/ p + s + 1 < q
  BY <1>1, <1>2 DEF Tiles
<1> QED BY <1>1, <1>2, <1>3, <1>4, Layout DEF Tiles

LEMMA TilesBelow ==
    ASSUME NEW m, NEW E, NEW lo, NEW hi, Tiles(m, E, lo, hi), NEW p \in E,
           p + Sz(m, p) + 1 = lo
    PROVE  Tiles(m, E \ {p}, p - 1, hi)
<1>1. p \in Nat /\ Sz(m, p) \in Nat /\ lo \in Nat /\ hi \in Nat /\ new_addr < p
  BY DEF Tiles
<1>2. PICK s \in Nat : s = Sz(m, p)
  BY <1>1
<1>3. \A a \in Pool : (p - 1 <= a /\ a < hi)
           \/ \E q \in E \ {p} : q <= a + 1 /\ a <= q + Sz(m, q)
  BY <1>1, <1>2, Layout DEF Tiles, Pool
<1>4. \A q \in E \ {p} : q + Sz(m, q) < p - 1 \/ hi < q
  BY <1>1, <1>2 DEF Tiles
<1> QED BY <1>1, <1>2, <1>3, <1>4, Layout DEF Tiles

LEMMA TilesAbove ==
    ASSUME NEW m, NEW E, NEW lo, NEW hi, Tiles(m, E, lo, hi), NEW p \in E,
           p = hi + 1
    PROVE  Tiles(m, E \ {p}, lo, p + Sz(m, p) + 1)
<1>1. p \in Nat /\ Sz(m, p) \in Nat /\ lo \in Nat /\ hi \in Nat /\ new_addr < p
  BY DEF Tiles
<1>2. PICK s \in Nat : s = Sz(m, p)
  BY <1>1
<1>3. \A a \in Pool : (lo <= a /\ a < p + s + 1)
           \/ \E q \in E \ {p} : q <= a + 1 /\ a <= q + Sz(m, q)
  BY <1>1, <1>2, Layout DEF Tiles, Pool
<1>4. \A q \in E \ {p} : q + Sz(m, q) < lo \/ p + s + 1 < q
  BY <1>1, <1>2 DEF Tiles
<1> QED BY <1>1, <1>2, <1>3, <1>4, Layout DEF Tiles

\* An extent is put into the upper part of the hole.
LEMMA TilesInsert ==
    ASSUME NEW m, NEW n, NEW E, NEW lo, NEW hi, Tiles(m, E, lo, hi),
           \A q \in E : Sz(n, q) = Sz(m, q),
           NEW p \in Nat, NEW s \in Nat, Sz(n, p) = s,
           lo < p, p + s + 1 = hi
    PROVE  Tiles(n, E \cup {p}, lo, p - 1) /\ p \notin E
<1>1. lo \in Nat /\ hi \in Nat
  BY DEF Tiles
<1>2. \A a \in Pool : (lo <= a /\ a < p - 1)
           \/ \E q \in E \cup {p} : q <= a + 1 /\ a <= q + Sz(n, q)
  BY <1>1, Layout DEF Tiles, Pool
<1>3. \A q \in E : q \in Nat /\ Sz(m, q) \in Nat /\ (q + Sz(m, q) < lo \/ hi < q)
  BY DEF Tiles
<1>4. p \notin E
  BY <1>1, <1>3
<1>5. \A q \in E \cup {p} : q + Sz(n, q) < lo \/ p - 1 < q
  BY <1>1, <1>3
<1>6. \A q, r \in E \cup {p} : q < r => q + Sz(n, q) + 2 <= r
  <2>1. \A q, r \in E : q < r => q + Sz(n, q) + 2 <= r
    BY DEF Tiles
  <2>2. \A q \in E : p < q => p + s + 2 <= q
    BY <1>1, <1>3
  <2>3. \A q \in E : q < p => q + Sz(n, q) + 2 <= p
    BY <1>1, <1>3
  <2> QED BY <2>1, <2>2, <2>3
<1>7. \A q \in E \cup {p} : Sz(n, q) \in Nat /\ new_addr < q /\ q + Sz(n, q) < new_addr + new_size
  BY <1>1, Layout DEF Tiles
<1>8. E \cup {p} \subseteq Nat /\ p - 1 \in Nat /\ new_addr <= lo /\ lo <= p - 1
  BY <1>1 DEF Tiles
<1>9. p - 1 <= new_addr + new_size
  BY <1>1, Layout DEF Tiles
<1> QED BY <1>1, <1>2, <1>4, <1>5, <1>6, <1>7, <1>8, <1>9 DEF Tiles

\* The empty hole may be anywhere between two entries.
LEMMA TilesClose ==
    ASSUME NEW m, NEW E, NEW lo, Tiles(m, E, lo, lo)
    PROVE  Tiles(m, E, new_addr, new_addr)
<1>1. lo \in Nat /\ new_addr \in Nat /\ new_size \in Nat
  BY Layout DEF Tiles
<1>2. \A a \in Pool : \E p \in E : p <= a + 1 /\ a <= p + Sz(m, p)
  <2>1. \A a \in Pool : a \in Int /\ ~(lo <= a /\ a < lo)
    BY <1>1 DEF Pool
  <2> QED BY <2>1 DEF Tiles
<1>3. \A p \in E : new_addr < p
  BY DEF Tiles
<1> QED BY <1>1, <1>2, <1>3 DEF Tiles

LEMMA TilesFrame ==
    ASSUME NEW m, NEW n, NEW E, NEW lo, NEW hi, Tiles(m, E, lo, hi),
           \A q \in E : Sz(n, q) = Sz(m, q)
    PROVE  Tiles(n, E, lo, hi)
BY DEF Tiles

\* What is next to the hole: a guard or an entry.
LEMMA EntryBelow ==
    ASSUME NEW m, NEW E, NEW lo, NEW hi, Tiles(m, E, lo, hi), lo # new_addr
    PROVE  \E p \in E : p + Sz(m, p) + 1 = lo
<1>1. lo \in Nat /\ hi \in Nat /\ lo - 1 \in Pool
  BY Layout DEF Tiles, Pool
<1>2. PICK p \in E : p <= lo /\ lo - 1 <= p + Sz(m, p)
  BY <1>1 DEF Tiles
<1>3. p \in Nat /\ Sz(m, p) \in Nat /\ (p + Sz(m, p) < lo \/ hi < p) /\ lo <= hi
  BY DEF Tiles
<1> QED BY <1>1, <1>2, <1>3

LEMMA EntryAbove ==
    ASSUME NEW m, NEW E, NEW lo, NEW hi, Tiles(m, E, lo, hi), hi # new_addr + new_size
    PROVE  hi + 1 \in E
<1>1. lo \in Nat /\ hi \in Nat /\ hi \in Pool
  BY Layout DEF Tiles, Pool
<1>2. PICK p \in E : p <= hi + 1 /\ hi <= p + Sz(m, p)
  BY <1>1 DEF Tiles
<1>3. p \in Nat /\ Sz(m, p) \in Nat /\ (p + Sz(m, p) < lo \/ hi < p) /\ lo <= hi
  BY DEF Tiles
<1>4. p = hi + 1
  BY <1>1, <1>2, <1>3
<1> QED BY <1>4

----------------------------------------------------------------------------
(* The lists *)

\* own tells on which list an extent is, hd where the list starts.  The ranks
\* decrease along a list.  On a list of cut the back pointer of the head is
\* stale: vmcache_free leaves it alone.
Heads(E, own, hd) ==
    \A x \in Lists : hd[x] = Null \/ (hd[x] \in E /\ own[hd[x]] = x)

Forward(m, E, own, rank, hd) ==
    \A p \in E : Nx(m, p) # Null =>
        /\ Nx(m, p) \in E /\ own[Nx(m, p)] = own[p]
        /\ rank[Nx(m, p)] < rank[p]
        /\ Pv(m, Nx(m, p)) = p
        /\ Nx(m, p) # hd[own[p]]

Backward(m, E, own, hd) ==
    \A p \in E : p # hd[own[p]] => Pv(m, p) \in E /\ Nx(m, Pv(m, p)) = p

HeadsFirst(m, hd, cut) ==
    \A x \in Lists \ cut : hd[x] # Null => Pv(m, hd[x]) = Null

Links(m, E, own, rank, top, hd, cut) ==
    /\ E \subseteq Nat
    /\ own \in [Nat -> Lists] /\ rank \in [Nat -> Nat] /\ top \in Nat
    /\ \A p \in E : rank[p] <= top
    /\ hd \in [Lists -> PtrOrNull]
    /\ Heads(E, own, hd)
    /\ Forward(m, E, own, rank, hd)
    /\ Backward(m, E, own, hd)
    /\ HeadsFirst(m, hd, cut)

\* The heads when p leaves its list.
HeadsWithout(m, own, hd, p) ==
    [hd EXCEPT ![own[p]] = IF @ = p THEN Nx(m, p) ELSE @]

LEMMA NullNoNumber == Null \notin Nat
BY HeapAssumption DEF HeapAssumption

LEMMA NullNoValue == Null \notin Values
BY HeapAssumption DEF HeapAssumption

LEMMA LinksRemove ==
    ASSUME NEW m, NEW n, NEW E, NEW own, NEW rank, NEW top, NEW hd, NEW cut,
           Links(m, E, own, rank, top, hd, cut),
           NEW p \in E, own[p] \notin cut,
           \A q \in E : Nx(n, q) = IF q = Pv(m, p) THEN Nx(m, p) ELSE Nx(m, q),
           \A q \in E : Pv(n, q) = IF q = Nx(m, p) THEN Pv(m, p) ELSE Pv(m, q)
    PROVE  Links(n, E \ {p}, own, rank, top, HeadsWithout(m, own, hd, p), cut)
<1> DEFINE F == E \ {p}
           k == HeadsWithout(m, own, hd, p)
<1>1. p \in Nat /\ own[p] \in Lists /\ E \subseteq Nat /\ Null \notin E
  BY NullNoNumber DEF Links
<1>2. /\ Heads(E, own, hd) /\ Forward(m, E, own, rank, hd)
      /\ Backward(m, E, own, hd) /\ HeadsFirst(m, hd, cut)
      /\ hd \in [Lists -> PtrOrNull] /\ own \in [Nat -> Lists] /\ rank \in [Nat -> Nat]
  BY DEF Links
<1>3. \A x \in Lists : k[x] = IF x = own[p] /\ hd[x] = p THEN Nx(m, p) ELSE hd[x]
  BY <1>1, <1>2 DEF HeadsWithout
<1>4. Nx(m, p) \in PtrOrNull
  BY <1>1, <1>2 DEF Forward, PtrOrNull
<1>5. k \in [Lists -> PtrOrNull]
  BY <1>1, <1>2, <1>4 DEF HeadsWithout
<1>6. p # hd[own[p]] => /\ Pv(m, p) \in E /\ Nx(m, Pv(m, p)) = p
                        /\ own[Pv(m, p)] = own[p] /\ rank[p] < rank[Pv(m, p)]
                        /\ Pv(m, p) # p
  <2> HAVE p # hd[own[p]]
  <2>1. Pv(m, p) \in E /\ Nx(m, Pv(m, p)) = p
    BY <1>2 DEF Backward
  <2>2. own[Pv(m, p)] = own[p] /\ rank[p] < rank[Pv(m, p)]
    BY <2>1, <1>1, <1>2 DEF Forward
  <2>3. rank[p] \in Nat
    BY <1>1, <1>2
  <2> QED BY <2>1, <2>2, <2>3
<1>7. p = hd[own[p]] => Pv(m, p) = Null
  BY <1>1, <1>2 DEF HeadsFirst
<1>8. Nx(m, p) # Null => /\ Nx(m, p) \in F /\ own[Nx(m, p)] = own[p]
                         /\ rank[Nx(m, p)] < rank[p] /\ Pv(m, Nx(m, p)) = p
                         /\ Nx(m, p) # hd[own[p]]
  BY <1>1, <1>2 DEF Forward
<1>9. Heads(F, own, k)
  BY <1>1, <1>2, <1>3, <1>8 DEF Heads
<1>10. Forward(n, F, own, rank, k)
  <2> SUFFICES ASSUME NEW q \in F, Nx(n, q) # Null
               PROVE  /\ Nx(n, q) \in F /\ own[Nx(n, q)] = own[q]
                      /\ rank[Nx(n, q)] < rank[q]
                      /\ Pv(n, Nx(n, q)) = q
                      /\ Nx(n, q) # k[own[q]]
    BY DEF Forward
  <2>1. CASE q = Pv(m, p)
    <3>1. p # hd[own[p]]
      BY <1>1, <1>7, <2>1
    <3>2. Nx(n, q) = Nx(m, p) /\ Nx(m, p) # Null
      BY <2>1
    <3>3. Pv(n, Nx(m, p)) = q
      BY <3>2, <2>1, <1>8
    <3>4. rank[Nx(m, p)] < rank[q]
      <4>1. rank[Nx(m, p)] \in Nat /\ rank[p] \in Nat /\ rank[q] \in Nat
        BY <1>1, <1>2, <1>8, <3>2
      <4> QED BY <4>1, <1>8, <1>6, <3>1, <3>2, <2>1
    <3>5. k[own[q]] = hd[own[p]]
      BY <3>1, <1>1, <1>3, <1>6, <2>1
    <3> QED BY <3>1, <3>2, <3>3, <3>4, <3>5, <1>8, <1>6, <2>1
  <2>2. CASE q # Pv(m, p)
    <3>1. Nx(n, q) = Nx(m, q) /\ Nx(m, q) # Null
      BY <2>2
    <3>2. /\ Nx(m, q) \in E /\ own[Nx(m, q)] = own[q] /\ rank[Nx(m, q)] < rank[q]
          /\ Pv(m, Nx(m, q)) = q /\ Nx(m, q) # hd[own[q]]
      BY <3>1, <1>2 DEF Forward
    <3>3. Nx(m, q) # p
      BY <3>2, <2>2
    <3>4. Nx(m, q) # Nx(m, p)
      BY <3>1, <3>2, <1>8
    <3>5. Pv(n, Nx(m, q)) = q
      BY <3>2, <3>4
    <3>6. own[q] \in Lists
      BY <1>1, <1>2
    <3>7. Nx(m, q) # k[own[q]]
      BY <3>2, <3>4, <3>6, <1>3
    <3> QED BY <3>1, <3>2, <3>3, <3>5, <3>7
  <2> QED BY <2>1, <2>2
<1>11. Backward(n, F, own, k)
  <2> SUFFICES ASSUME NEW q \in F, q # k[own[q]]
               PROVE  Pv(n, q) \in F /\ Nx(n, Pv(n, q)) = q
    BY DEF Backward
  <2>1. own[q] \in Lists /\ q \in E
    BY <1>1, <1>2
  <2>2. CASE q = Nx(m, p)
    <3>1. q # Null /\ Pv(n, q) = Pv(m, p) /\ own[q] = own[p]
      BY <1>1, <1>8, <2>1, <2>2
    <3>2. hd[own[p]] # p
      BY <3>1, <1>3, <2>1, <2>2
    <3>3. Pv(m, p) \in F
      BY <3>2, <1>6
    <3>4. Nx(n, Pv(m, p)) = q
      BY <3>3, <2>2
    <3> QED BY <3>1, <3>3, <3>4
  <2>3. CASE q # Nx(m, p)
    <3>1. q # hd[own[q]]
      BY <2>3, <2>1, <1>3
    <3>2. Pv(m, q) \in E /\ Nx(m, Pv(m, q)) = q /\ Pv(n, q) = Pv(m, q)
      BY <3>1, <2>1, <2>3, <1>2 DEF Backward
    <3>3. Pv(m, q) # p
      BY <3>2, <2>3
    <3>4. Pv(m, q) # Pv(m, p)
      BY <3>2, <1>6, <1>7, <1>1
    <3> QED BY <3>2, <3>3, <3>4
  <2> QED BY <2>2, <2>3
<1>12. HeadsFirst(n, k, cut)
  <2> SUFFICES ASSUME NEW x \in Lists \ cut, k[x] # Null
               PROVE  Pv(n, k[x]) = Null
    BY DEF HeadsFirst
  <2>1. CASE x = own[p] /\ hd[x] = p
    <3>1. k[x] = Nx(m, p) /\ k[x] \in E
      BY <2>1, <1>3, <1>8
    <3> QED BY <3>1, <2>1, <1>7
  <2>2. CASE ~(x = own[p] /\ hd[x] = p)
    <3>1. k[x] = hd[x] /\ hd[x] \in E /\ own[hd[x]] = x /\ Pv(m, hd[x]) = Null
      BY <2>2, <1>2, <1>3 DEF HeadsFirst, Heads
    <3>2. hd[x] # Nx(m, p)
      BY <3>1, <1>1, <1>8
    <3> QED BY <3>1, <3>2
  <2> QED BY <2>1, <2>2
<1>13. \A q \in F : rank[q] <= top
  BY DEF Links
<1> QED BY <1>1, <1>2, <1>5, <1>9, <1>10, <1>11, <1>12, <1>13 DEF Links

Put(f, a, b) == [f EXCEPT ![a] = b]

\* The head of a list of cut leaves it: nothing is written.
LEMMA LinksDrop ==
    ASSUME NEW m, NEW E, NEW own, NEW rank, NEW top, NEW hd, NEW cut,
           Links(m, E, own, rank, top, hd, cut),
           NEW v \in Lists, v \in cut, hd[v] # Null
    PROVE  Links(m, E \ {hd[v]}, own, rank, top, Put(hd, v, Nx(m, hd[v])), cut)
<1>1. PICK p \in E : p = hd[v] /\ own[p] = v
  BY DEF Links, Heads
<1> DEFINE F == E \ {p}
           k == Put(hd, v, Nx(m, p))
<1>2. p \in Nat /\ own[p] \in Lists /\ E \subseteq Nat /\ Null \notin E
  BY NullNoNumber DEF Links
<1>3. /\ Heads(E, own, hd) /\ Forward(m, E, own, rank, hd)
      /\ Backward(m, E, own, hd) /\ HeadsFirst(m, hd, cut)
      /\ hd \in [Lists -> PtrOrNull] /\ own \in [Nat -> Lists] /\ rank \in [Nat -> Nat]
  BY DEF Links
<1>4. \A x \in Lists : k[x] = IF x = v THEN Nx(m, p) ELSE hd[x]
  BY <1>3 DEF Put
<1>5. Nx(m, p) \in PtrOrNull
  BY <1>2, <1>3 DEF Forward, PtrOrNull
<1>6. k \in [Lists -> PtrOrNull]
  BY <1>3, <1>5 DEF Put
<1>7. Nx(m, p) # Null => /\ Nx(m, p) \in E /\ own[Nx(m, p)] = v
                         /\ rank[Nx(m, p)] < rank[p] /\ Pv(m, Nx(m, p)) = p
                         /\ Nx(m, p) # p
  BY <1>1, <1>3 DEF Forward
<1>8. Heads(F, own, k)
  BY <1>1, <1>3, <1>4, <1>7 DEF Heads
<1>9. Forward(m, F, own, rank, k)
  <2> SUFFICES ASSUME NEW q \in F, Nx(m, q) # Null
               PROVE  /\ Nx(m, q) \in F /\ own[Nx(m, q)] = own[q]
                      /\ rank[Nx(m, q)] < rank[q]
                      /\ Pv(m, Nx(m, q)) = q
                      /\ Nx(m, q) # k[own[q]]
    BY DEF Forward
  <2>1. /\ Nx(m, q) \in E /\ own[Nx(m, q)] = own[q] /\ rank[Nx(m, q)] < rank[q]
        /\ Pv(m, Nx(m, q)) = q /\ Nx(m, q) # hd[own[q]]
    BY <1>3 DEF Forward
  <2>2. Nx(m, q) # p
    BY <2>1, <1>1
  <2>3. own[q] \in Lists
    BY <1>2, <1>3
  <2>4. Nx(m, q) # k[own[q]]
    BY <2>1, <2>3, <1>4, <1>7, <1>1
  <2> QED BY <2>1, <2>2, <2>4
<1>10. Backward(m, F, own, k)
  <2> SUFFICES ASSUME NEW q \in F, q # k[own[q]]
               PROVE  Pv(m, q) \in F /\ Nx(m, Pv(m, q)) = q
    BY DEF Backward
  <2>1. own[q] \in Lists
    BY <1>2, <1>3
  <2>2. q # hd[own[q]]
    BY <1>1, <1>4, <2>1
  <2>3. Pv(m, q) \in E /\ Nx(m, Pv(m, q)) = q
    BY <2>2, <1>3 DEF Backward
  <2>4. Pv(m, q) # p
    BY <2>3, <2>1, <1>4, <1>1, <1>7, <1>2
  <2> QED BY <2>3, <2>4
<1>11. HeadsFirst(m, k, cut)
  BY <1>3, <1>4 DEF HeadsFirst
<1>12. \A q \in F : rank[q] <= top
  BY DEF Links
<1>13. Links(m, F, own, rank, top, k, cut)
  BY <1>2, <1>3, <1>6, <1>8, <1>9, <1>10, <1>11, <1>12 DEF Links
<1> QED BY <1>1, <1>13

\* p becomes the head of the list x.
LEMMA LinksInsert ==
    ASSUME NEW m, NEW n, NEW E, NEW own, NEW rank, NEW top, NEW hd, NEW cut,
           Links(m, E, own, rank, top, hd, cut),
           NEW p \in Nat, p \notin E, NEW x \in Lists, x \notin cut,
           Nx(n, p) = hd[x], Pv(n, p) = Null,
           \A q \in E : Nx(n, q) = Nx(m, q),
           \A q \in E : Pv(n, q) = IF q = hd[x] THEN p ELSE Pv(m, q)
    PROVE  Links(n, E \cup {p}, Put(own, p, x), Put(rank, p, top + 1),
                 top + 1, Put(hd, x, p), cut)
<1> DEFINE F == E \cup {p}
           k == Put(hd, x, p)
           o == Put(own, p, x)
           r == Put(rank, p, top + 1)
<1>1. E \subseteq Nat /\ Null \notin E /\ p # Null /\ top \in Nat
  BY NullNoNumber DEF Links
<1>2. /\ Heads(E, own, hd) /\ Forward(m, E, own, rank, hd)
      /\ Backward(m, E, own, hd) /\ HeadsFirst(m, hd, cut)
      /\ hd \in [Lists -> PtrOrNull] /\ own \in [Nat -> Lists] /\ rank \in [Nat -> Nat]
  BY DEF Links
<1>3. /\ k \in [Lists -> PtrOrNull] /\ o \in [Nat -> Lists] /\ r \in [Nat -> Nat]
      /\ F \subseteq Nat /\ top + 1 \in Nat
  BY <1>1, <1>2 DEF PtrOrNull, Put
<1>4. /\ \A y \in Lists : k[y] = IF y = x THEN p ELSE hd[y]
      /\ \A q \in E : o[q] = own[q] /\ r[q] = rank[q] /\ own[q] \in Lists /\ rank[q] \in Nat
      /\ o[p] = x /\ r[p] = top + 1
  BY <1>1, <1>2 DEF Put
<1>5. \A q \in E : rank[q] <= top
  BY DEF Links
<1>6. \A q \in F : r[q] <= top + 1
  BY <1>1, <1>4, <1>5
<1>7. Heads(F, o, k)
  BY <1>2, <1>4 DEF Heads
<1>8. Forward(n, F, o, r, k)
  <2> SUFFICES ASSUME NEW q \in F, Nx(n, q) # Null
               PROVE  /\ Nx(n, q) \in F /\ o[Nx(n, q)] = o[q]
                      /\ r[Nx(n, q)] < r[q]
                      /\ Pv(n, Nx(n, q)) = q
                      /\ Nx(n, q) # k[o[q]]
    BY DEF Forward
  <2>1. CASE q = p
    <3>1. hd[x] \in E /\ own[hd[x]] = x /\ Nx(n, q) = hd[x]
      BY <2>1, <1>2 DEF Heads
    <3>2. r[hd[x]] = rank[hd[x]] /\ rank[hd[x]] \in Nat /\ rank[hd[x]] <= top
      BY <3>1, <1>4, <1>5
    <3>3. r[hd[x]] < r[p]
      BY <3>2, <1>4, <1>1
    <3>4. Pv(n, hd[x]) = p
      BY <3>1
    <3>5. hd[x] # p /\ k[x] = p /\ o[hd[x]] = x /\ o[p] = x /\ hd[x] \in F
      BY <3>1, <1>4
    <3> QED BY <3>1, <3>3, <3>4, <3>5, <2>1
  <2>2. CASE q \in E
    <3>1. Nx(n, q) = Nx(m, q) /\ Nx(m, q) # Null
      BY <2>2
    <3>2. /\ Nx(m, q) \in E /\ own[Nx(m, q)] = own[q] /\ rank[Nx(m, q)] < rank[q]
          /\ Pv(m, Nx(m, q)) = q /\ Nx(m, q) # hd[own[q]]
      BY <3>1, <2>2, <1>2 DEF Forward
    <3>3. Nx(m, q) # hd[x]
      BY <3>2, <1>2 DEF Heads
    <3> QED BY <3>1, <3>2, <3>3, <2>2, <1>4
  <2> QED BY <2>1, <2>2
<1>9. Backward(n, F, o, k)
  <2> SUFFICES ASSUME NEW q \in F, q # k[o[q]]
               PROVE  Pv(n, q) \in F /\ Nx(n, Pv(n, q)) = q
    BY DEF Backward
  <2>1. q \in E
    BY <1>4
  <2>2. CASE q = hd[x]
    BY <2>1, <2>2
  <2>3. CASE q # hd[x]
    <3>1. q # hd[own[q]]
      BY <2>1, <2>3, <1>4
    <3> QED BY <3>1, <2>1, <2>3, <1>2 DEF Backward
  <2> QED BY <2>2, <2>3
<1>10. HeadsFirst(n, k, cut)
  <2> SUFFICES ASSUME NEW y \in Lists \ cut, k[y] # Null
               PROVE  Pv(n, k[y]) = Null
    BY DEF HeadsFirst
  <2>1. CASE y # x
    <3>1. hd[y] \in E /\ own[hd[y]] = y /\ k[y] = hd[y] /\ Pv(m, hd[y]) = Null
      BY <2>1, <1>2, <1>4 DEF Heads, HeadsFirst
    <3>2. hd[y] # hd[x]
      BY <3>1, <2>1, <1>1, <1>2 DEF Heads
    <3> QED BY <3>1, <3>2
  <2> QED BY <2>1, <1>4
<1>11. Links(n, F, o, r, top + 1, k, cut)
  BY <1>3, <1>6, <1>7, <1>8, <1>9, <1>10 DEF Links
<1> QED BY <1>11

LEMMA LinksFrame ==
    ASSUME NEW m, NEW n, NEW E, NEW own, NEW rank, NEW top, NEW hd, NEW cut,
           Links(m, E, own, rank, top, hd, cut),
           \A q \in E : Nx(n, q) = Nx(m, q) /\ Pv(n, q) = Pv(m, q)
    PROVE  Links(n, E, own, rank, top, hd, cut)
<1>1. /\ Heads(E, own, hd) /\ Forward(m, E, own, rank, hd)
      /\ Backward(m, E, own, hd) /\ HeadsFirst(m, hd, cut)
  BY DEF Links
<1>2. Forward(n, E, own, rank, hd)
  BY <1>1 DEF Forward
<1>3. Backward(n, E, own, hd)
  BY <1>1 DEF Backward
<1>4. HeadsFirst(n, hd, cut)
  BY <1>1 DEF HeadsFirst, Heads
<1> QED BY <1>1, <1>2, <1>3, <1>4 DEF Links

\* A list with an extent has a head.
LEMMA HeadExists ==
    ASSUME NEW m, NEW E, NEW own, NEW rank, NEW top, NEW hd, NEW cut,
           Links(m, E, own, rank, top, hd, cut),
           NEW q \in E
    PROVE  hd[own[q]] # Null
<1> SUFFICES ASSUME hd[own[q]] = Null PROVE FALSE
  OBVIOUS
<1> DEFINE x == own[q]
           T == {i \in Nat : \E p \in E : own[p] = x /\ top = rank[p] + i}
<1>1. E \subseteq Nat /\ Null \notin E /\ rank \in [Nat -> Nat] /\ top \in Nat
  BY NullNoNumber DEF Links
<1>2. \A p \in E : top - rank[p] \in Nat /\ top = rank[p] + (top - rank[p])
  BY <1>1 DEF Links
<1>3. T # {}
  BY <1>2
<1>4. PICK i \in T : \A j \in T : i <= j
  <2> HIDE DEF T
  <2>1. T \in SUBSET Nat
    BY DEF T
  <2> QED BY <2>1, <1>3, Least
<1>5. PICK p \in E : own[p] = x /\ top = rank[p] + i
  OBVIOUS
<1>6. p # hd[own[p]]
  BY <1>1, <1>5
<1>7. Pv(m, p) \in E /\ Nx(m, Pv(m, p)) = p
  BY <1>6 DEF Links, Backward
<1>8. own[Pv(m, p)] = x /\ rank[p] < rank[Pv(m, p)]
  BY <1>7, <1>1, <1>5 DEF Links, Forward
<1>9. top - rank[Pv(m, p)] \in T
  BY <1>2, <1>7, <1>8
<1>10. rank[p] \in Nat /\ rank[Pv(m, p)] \in Nat /\ i \in Nat
  BY <1>1, <1>7
<1> QED BY <1>1, <1>4, <1>5, <1>8, <1>9, <1>10

----------------------------------------------------------------------------
(* Writing tags *)

HeapType == [mem : Mem, first_extent : PtrOrNull, entries : Int,
             size_used : Int, asserts : BOOLEAN]

LEMMA SetPrev ==
    ASSUME NEW m \in Mem, NEW a \in Cells, NEW x \in PtrOrNull
    PROVE  /\ [m EXCEPT ![a].prev = x] \in Mem
           /\ \A b \in Cells :
                /\ [m EXCEPT ![a].prev = x][b].prev = IF b = a THEN x ELSE m[b].prev
                /\ [m EXCEPT ![a].prev = x][b].next = m[b].next
                /\ [m EXCEPT ![a].prev = x][b].size = m[b].size
                /\ [m EXCEPT ![a].prev = x][b].allocated = m[b].allocated
                /\ [m EXCEPT ![a].prev = x][b].data = m[b].data
BY DEF Mem, Cell

LEMMA SetNext ==
    ASSUME NEW m \in Mem, NEW a \in Cells, NEW x \in PtrOrNull
    PROVE  /\ [m EXCEPT ![a].next = x] \in Mem
           /\ \A b \in Cells :
                /\ [m EXCEPT ![a].next = x][b].next = IF b = a THEN x ELSE m[b].next
                /\ [m EXCEPT ![a].next = x][b].prev = m[b].prev
                /\ [m EXCEPT ![a].next = x][b].size = m[b].size
                /\ [m EXCEPT ![a].next = x][b].allocated = m[b].allocated
                /\ [m EXCEPT ![a].next = x][b].data = m[b].data
BY DEF Mem, Cell

\* Unlink: only the links of the neighbours change.
LEMMA UnlinkWrites ==
    ASSUME NEW h \in HeapType, NEW p, p - 1 \in Cells,
           Nx(h.mem, p) # Null => Nx(h.mem, p) - 1 \in Cells,
           Pv(h.mem, p) # Null => Pv(h.mem, p) - 1 \in Cells
    PROVE  LET g == Unlink(h, p) IN
           /\ g \in HeapType
           /\ g.first_extent = h.first_extent /\ g.entries = h.entries
           /\ g.size_used = h.size_used
           /\ \A b \in Cells :
                /\ g.mem[b].prev = IF Nx(h.mem, p) # Null /\ b = Nx(h.mem, p) - 1
                                   THEN Pv(h.mem, p) ELSE h.mem[b].prev
                /\ g.mem[b].next = IF Pv(h.mem, p) # Null /\ b = Pv(h.mem, p) - 1
                                   THEN Nx(h.mem, p) ELSE h.mem[b].next
                /\ g.mem[b].size = h.mem[b].size
                /\ g.mem[b].allocated = h.mem[b].allocated
                /\ g.mem[b].data = h.mem[b].data
           /\ h.asserts /\ (Nx(h.mem, p) # Null => Pv(h.mem, Nx(h.mem, p)) = p)
                        /\ (Pv(h.mem, p) # Null => Nx(h.mem, Pv(h.mem, p)) = p)
              => g.asserts
<1> DEFINE m == h.mem
           next == Nx(m, p)
           prev == Pv(m, p)
           m1 == IF next = Null THEN m ELSE [m EXCEPT ![next - 1].prev = prev]
           m2 == IF prev = Null THEN m1 ELSE [m1 EXCEPT ![prev - 1].next = next]
           ok == /\ (next # Null => m[next - 1].prev = p)
                 /\ (prev # Null => m[prev - 1].next = p)
           g == Unlink(h, p)
<1>1. m \in Mem /\ h.asserts \in BOOLEAN
  BY DEF HeapType
<1>2. m[p - 1] \in Cell
  BY <1>1 DEF Mem
<1>3. next \in PtrOrNull /\ prev \in PtrOrNull
  BY <1>2 DEF Cell, Nx, Pv
<1>4. g = [[h EXCEPT !.asserts = @ /\ ok] EXCEPT !.mem = m2]
  BY DEF Unlink, Check, HeaderOf, HEADER_SIZE, Nx, Pv
<1>5. /\ m1 \in Mem
      /\ \A b \in Cells :
                /\ m1[b].prev = IF next # Null /\ b = next - 1 THEN prev ELSE m[b].prev
                /\ m1[b].next = m[b].next
                /\ m1[b].size = m[b].size
                /\ m1[b].allocated = m[b].allocated
                /\ m1[b].data = m[b].data
  <2>1. CASE next = Null
    BY <2>1, <1>1
  <2>2. CASE next # Null
    <3> HIDE DEF m, next, prev
    <3>1. next - 1 \in Cells
      BY <2>2 DEF next, m
    <3>2. m1 = [m EXCEPT ![next - 1].prev = prev]
      BY <2>2
    <3> QED BY <3>1, <3>2, <2>2, <1>1, <1>3, SetPrev
  <2> QED BY <2>1, <2>2
<1>6. /\ m2 \in Mem
      /\ \A b \in Cells :
                /\ m2[b].next = IF prev # Null /\ b = prev - 1 THEN next ELSE m1[b].next
                /\ m2[b].prev = m1[b].prev
                /\ m2[b].size = m1[b].size
                /\ m2[b].allocated = m1[b].allocated
                /\ m2[b].data = m1[b].data
  <2> HIDE DEF m1
  <2>1. CASE prev = Null
    BY <2>1, <1>5
  <2>2. CASE prev # Null
    <3> HIDE DEF m, next, prev
    <3>1. prev - 1 \in Cells
      BY <2>2 DEF prev, m
    <3>2. m2 = [m1 EXCEPT ![prev - 1].next = next]
      BY <2>2
    <3> QED BY <3>1, <3>2, <2>2, <1>3, <1>5, SetNext
  <2> QED BY <2>1, <2>2
<1>7. /\ g \in HeapType
      /\ g.first_extent = h.first_extent /\ g.entries = h.entries
      /\ g.size_used = h.size_used /\ g.mem = m2
      /\ g.asserts = (h.asserts /\ ok)
  <2> HIDE DEF m2, ok
  <2>1. (h.asserts /\ ok) \in BOOLEAN
    OBVIOUS
  <2> QED BY <1>4, <1>6, <2>1 DEF HeapType
<1>8. h.asserts /\ (Nx(h.mem, p) # Null => Pv(h.mem, Nx(h.mem, p)) = p)
                        /\ (Pv(h.mem, p) # Null => Nx(h.mem, Pv(h.mem, p)) = p)
              => g.asserts
  BY <1>7 DEF Nx, Pv
<1> HIDE DEF g, m2, m1
<1>9. \A b \in Cells :
                /\ g.mem[b].prev = IF Nx(h.mem, p) # Null /\ b = Nx(h.mem, p) - 1
                                   THEN Pv(h.mem, p) ELSE h.mem[b].prev
                /\ g.mem[b].next = IF Pv(h.mem, p) # Null /\ b = Pv(h.mem, p) - 1
                                   THEN Nx(h.mem, p) ELSE h.mem[b].next
                /\ g.mem[b].size = h.mem[b].size
                /\ g.mem[b].allocated = h.mem[b].allocated
                /\ g.mem[b].data = h.mem[b].data
  BY <1>5, <1>6, <1>7
<1> QED BY <1>7, <1>8, <1>9 DEF g

\* The heap entry of the extent p of size s.
IsEntry(he, p, s) ==
    p \in Nat /\ s \in Nat /\ he = [ptr |-> p - 1, size |-> s + 2]

\* InsertEntry: the two tags of the new entry, and the back pointer of the old
\* head of the list.
Inserted(g, h, p, s, fst, al) ==
    /\ g \in HeapType
    /\ g.first_extent = h.first_extent /\ g.entries = h.entries
    /\ g.size_used = h.size_used
    /\ Nx(g.mem, p) = fst /\ Pv(g.mem, p) = Null /\ Sz(g.mem, p) = s
    /\ g.mem[p - 1].allocated = al
    /\ g.mem[p + s].size = s /\ g.mem[p + s].allocated = al
    /\ \A b \in Cells \ {p - 1, p + s} :
         /\ g.mem[b].prev = IF fst # Null /\ b = fst - 1 THEN p ELSE h.mem[b].prev
         /\ g.mem[b].next = h.mem[b].next
         /\ g.mem[b].size = h.mem[b].size
         /\ g.mem[b].allocated = h.mem[b].allocated
         /\ g.mem[b].data = h.mem[b].data
    /\ g.asserts

LEMMA InsertWrites ==
    ASSUME NEW h \in HeapType, NEW p, NEW s, NEW he, IsEntry(he, p, s),
           p - 1 \in Cells, p + s \in Cells,
           NEW fst \in PtrOrNull, NEW al \in BOOLEAN,
           fst # Null => fst - 1 \in Cells /\ fst # p /\ fst # p + s + 1,
           h.asserts, fst # Null => Pv(h.mem, fst) = Null
    PROVE  Inserted(InsertEntry(h, he, fst, al), h, p, s, fst, al)
<1> DEFINE m == h.mem
           hdr == Tag(fst, Null, s, al)
           ftr == Tag(Null, Null, s, al)
           t == [m EXCEPT ![he.ptr] = Tag(fst, Null, he.size - HFER_SIZE, al),
                          ![FooterOfEntry(he)] = Tag(Null, Null, he.size - HFER_SIZE, al)]
           ok == t[HeaderOf(fst)].prev = Null
           n == [t EXCEPT ![HeaderOf(fst)].prev = he.ptr + HEADER_SIZE]
           g == InsertEntry(h, he, fst, al)
<1> USE DEF IsEntry
<1>1. m \in Mem /\ h.asserts \in BOOLEAN
  BY DEF HeapType
<1>2. hdr \in Cell /\ ftr \in Cell
  BY DEF Cell, Tag, PtrOrNull
<1>3. hdr.next = fst /\ hdr.prev = Null /\ hdr.size = s /\ hdr.allocated = al
      /\ ftr.size = s /\ ftr.allocated = al
  BY DEF Tag
<1>4. p - 1 # p + s /\ p - 1 \in Int /\ p + s \in Int
  OBVIOUS
<1>5. /\ he.ptr = p - 1 /\ he.ptr + HEADER_SIZE = p /\ he.size - HFER_SIZE = s
      /\ FooterOfEntry(he) = p + s /\ HeaderOf(fst) = fst - 1
  BY DEF HEADER_SIZE, HFER_SIZE, FOOTER_SIZE, FooterOfEntry, HeaderOf
<1>6. t = [m EXCEPT ![p - 1] = hdr, ![p + s] = ftr]
  BY <1>5
<1>7. /\ t \in Mem /\ t[p - 1] = hdr /\ t[p + s] = ftr
      /\ \A b \in Cells \ {p - 1, p + s} : t[b] = m[b]
  <2> HIDE DEF hdr, ftr, m, t
  <2> QED BY <1>1, <1>2, <1>4, <1>6 DEF Mem
<1>8. g = IF fst = Null THEN [h EXCEPT !.mem = t]
          ELSE [[h EXCEPT !.asserts = @ /\ ok] EXCEPT !.mem = n]
  BY DEF InsertEntry, Check
<1>9. CASE fst = Null
  <2>1. g = [h EXCEPT !.mem = t]
    BY <1>8, <1>9
  <2> HIDE DEF t, g, hdr, ftr
  <2>2. g \in HeapType /\ g.mem = t /\ g.asserts = h.asserts
        /\ g.first_extent = h.first_extent /\ g.entries = h.entries
        /\ g.size_used = h.size_used
    BY <2>1, <1>7 DEF HeapType
  <2>3. Nx(g.mem, p) = fst /\ Pv(g.mem, p) = Null /\ Sz(g.mem, p) = s
    BY <2>2, <1>7, <1>3 DEF Nx, Pv, Sz
  <2> QED BY <2>2, <2>3, <1>3, <1>7, <1>9 DEF g, Inserted
<1>10. CASE fst # Null
  <2>1. g = [[h EXCEPT !.asserts = @ /\ ok] EXCEPT !.mem = n]
    BY <1>8, <1>10
  <2>2. fst - 1 \in Cells /\ fst \in Nat
    BY <1>10 DEF PtrOrNull
  <2>3. fst - 1 # p - 1 /\ fst - 1 # p + s
    BY <2>2, <1>10
  <2>4. p \in PtrOrNull
    BY DEF PtrOrNull
  <2> HIDE DEF t, g, hdr, ftr
  <2>5. /\ n \in Mem
        /\ \A b \in Cells :
                /\ n[b].prev = IF b = fst - 1 THEN p ELSE t[b].prev
                /\ n[b].next = t[b].next
                /\ n[b].size = t[b].size
                /\ n[b].allocated = t[b].allocated
                /\ n[b].data = t[b].data
    BY <1>7, <1>5, <2>2, <2>4 DEF Mem, Cell
  <2> HIDE DEF n
  <2>6. (h.asserts /\ ok) \in BOOLEAN
    OBVIOUS
  <2>7. ok <=> Pv(m, fst) = Null
    BY <1>7, <1>5, <2>2, <2>3 DEF Pv
  <2> HIDE DEF ok
  <2>8. g \in HeapType /\ g.mem = n /\ g.asserts = (h.asserts /\ ok)
        /\ g.first_extent = h.first_extent /\ g.entries = h.entries
        /\ g.size_used = h.size_used
    BY <2>1, <2>5, <2>6 DEF HeapType
  <2>9. Nx(g.mem, p) = fst /\ Pv(g.mem, p) = Null /\ Sz(g.mem, p) = s
    BY <2>3, <2>5, <2>8, <1>7, <1>3 DEF Nx, Pv, Sz
  <2>10. g.mem[p - 1].allocated = al /\ g.mem[p + s].size = s /\ g.mem[p + s].allocated = al
    BY <2>5, <2>8, <1>7, <1>3
  <2>11. \A b \in Cells \ {p - 1, p + s} :
                /\ g.mem[b].prev = IF fst # Null /\ b = fst - 1 THEN p ELSE h.mem[b].prev
                /\ g.mem[b].next = h.mem[b].next
                /\ g.mem[b].size = h.mem[b].size
                /\ g.mem[b].allocated = h.mem[b].allocated
                /\ g.mem[b].data = h.mem[b].data
    BY <2>5, <2>8, <1>7, <1>10
  <2>12. g.asserts
    BY <2>7, <2>8, <1>10
  <2> QED BY <2>8, <2>9, <2>10, <2>11, <2>12 DEF g, Inserted
<1> QED BY <1>9, <1>10

----------------------------------------------------------------------------
(* The heap between two writes *)

\* Both tags of an entry tell its size and whether it is allocated; the guards
\* look like allocated entries.
Tags(m, E, own) ==
    /\ \A p \in E : /\ m[p + Sz(m, p)].size = Sz(m, p)
                    /\ m[p - 1].allocated <=> own[p] # Null
                    /\ m[p + Sz(m, p)].allocated <=> own[p] # Null
    /\ m[new_addr - 1].allocated /\ m[new_addr + new_size].allocated

\* Entries start at multiples of the extent size, and all but the last one of
\* the pool have such a size.
Aligned(m, E) ==
    \A p \in E :
        /\ Mult(p - 1 - new_addr)
        /\ Mult(Sz(m, p) + 2) \/ p + Sz(m, p) + 1 = new_addr + new_size
        /\ Sz(m, p) + 2 >= extent_size \/ Sz(m, p) + 2 = new_size

HoleAligned(lo, hi) ==
    Mult(lo - new_addr) /\ (Mult(hi - new_addr) \/ hi = new_addr + new_size)

\* No two free entries are neighbours.
Apart(m, E, own) ==
    \A p, q \in E : own[p] = Null /\ own[q] = Null => p + Sz(m, p) + 2 # q

FreeIn(E, own) == {p \in E : own[p] = Null}

HeapOk(h, E, own, rank, top, hd, cut, lo, hi) ==
    /\ h \in HeapType
    /\ Tiles(h.mem, E, lo, hi)
    /\ Tags(h.mem, E, own)
    /\ Links(h.mem, E, own, rank, top, hd, cut)
    /\ Aligned(h.mem, E) /\ HoleAligned(lo, hi)
    /\ Apart(h.mem, E, own)
    /\ Null \notin cut /\ hd[Null] = h.first_extent
    /\ h.entries = Cardinality(FreeIn(E, own))
    /\ h.asserts

\* What a step of v leaves alone: the sizes, and the links and the bytes of the
\* extents that belong to other values.
Frame(m, n, F, own, v) ==
    \A p \in F :
        /\ Sz(n, p) = Sz(m, p)
        /\ own[p] \notin {Null, v} =>
             /\ Nx(n, p) = Nx(m, p)
             /\ \A a \in p .. p + Sz(m, p) - 1 : n[a].data = m[a].data

LEMMA EntryInCells ==
    ASSUME NEW m, NEW E, NEW lo, NEW hi, Tiles(m, E, lo, hi), NEW p \in E
    PROVE  /\ p \in Nat /\ Sz(m, p) \in Nat
           /\ p - 1 \in Cells /\ p + Sz(m, p) \in Cells
           /\ \A a \in p .. p + Sz(m, p) - 1 : a \in Cells
<1>1. p \in Nat /\ Sz(m, p) \in Nat /\ new_addr < p /\ p + Sz(m, p) < new_addr + new_size
  BY DEF Tiles
<1> QED BY <1>1, Layout DEF Cells

LEMMA GuardCells == new_addr - 1 \in Cells /\ new_addr + new_size \in Cells
BY Layout DEF Cells

LEMMA EntriesFinite ==
    ASSUME NEW m, NEW E, NEW lo, NEW hi, Tiles(m, E, lo, hi)
    PROVE  IsFiniteSet(E)
<1>1. E \subseteq new_addr .. new_addr + new_size
  <2>1. \A p \in E : p \in Nat /\ Sz(m, p) \in Nat /\ new_addr < p /\ p + Sz(m, p) < new_addr + new_size
    BY DEF Tiles
  <2> QED BY <2>1, Layout
<1>2. IsFiniteSet(new_addr .. new_addr + new_size)
  BY Layout, FS_Interval
<1> QED BY <1>1, <1>2, FS_Subset

LEMMA EntryAligned ==
    ASSUME NEW m, NEW E, NEW lo, NEW hi, Tiles(m, E, lo, hi), Aligned(m, E), NEW p \in E
    PROVE  /\ Mult((p - 1) - new_addr)
           /\ Mult((p + Sz(m, p) + 1) - new_addr) \/ p + Sz(m, p) + 1 = new_addr + new_size
<1>1. p \in Nat /\ Sz(m, p) \in Nat /\ new_addr \in Nat
  BY Layout DEF Tiles
<1>2. Mult(p - 1 - new_addr) /\ (Mult(Sz(m, p) + 2) \/ p + Sz(m, p) + 1 = new_addr + new_size)
  BY DEF Aligned
<1>3. PICK z \in Nat : z = Sz(m, p)
  BY <1>1
<1>4. Mult(z + 2) => Mult((p - 1 - new_addr) + (z + 2))
  BY <1>1, <1>2, MultSum
<1>5. (p - 1 - new_addr) + (z + 2) = (p + z + 1) - new_addr
  BY <1>1
<1> QED BY <1>2, <1>3, <1>4, <1>5

\* An extent leaves its list and becomes part of the hole.
LEMMA OkRemove ==
    ASSUME NEW h, NEW g \in HeapType, NEW E, NEW own, NEW rank, NEW top, NEW hd, NEW cut,
           NEW lo, NEW hi, NEW lo2, NEW hi2,
           HeapOk(h, E, own, rank, top, hd, cut, lo, hi),
           NEW p \in E, own[p] \notin cut,
           \A b \in Cells :
                /\ g.mem[b].prev = IF Nx(h.mem, p) # Null /\ b = Nx(h.mem, p) - 1
                                   THEN Pv(h.mem, p) ELSE h.mem[b].prev
                /\ g.mem[b].next = IF Pv(h.mem, p) # Null /\ b = Pv(h.mem, p) - 1
                                   THEN Nx(h.mem, p) ELSE h.mem[b].next
                /\ g.mem[b].size = h.mem[b].size
                /\ g.mem[b].allocated = h.mem[b].allocated
                /\ g.mem[b].data = h.mem[b].data,
           Tiles(h.mem, E \ {p}, lo2, hi2), HoleAligned(lo2, hi2),
           own[p] = Null =>
               /\ g.first_extent = IF h.first_extent = p THEN Nx(h.mem, p) ELSE h.first_extent
               /\ g.entries = h.entries - 1,
           own[p] # Null => g.first_extent = h.first_extent /\ g.entries = h.entries,
           g.asserts
    PROVE  /\ HeapOk(g, E \ {p}, own, rank, top, HeadsWithout(h.mem, own, hd, p), cut, lo2, hi2)
           /\ Frame(h.mem, g.mem, E \ {p}, own, own[p])
<1> DEFINE m == h.mem
           n == g.mem
           F == E \ {p}
           k == HeadsWithout(m, own, hd, p)
<1>1. /\ Tiles(m, E, lo, hi) /\ Tags(m, E, own) /\ Links(m, E, own, rank, top, hd, cut)
      /\ Aligned(m, E) /\ Apart(m, E, own) /\ Null \notin cut /\ hd[Null] = h.first_extent
      /\ h.entries = Cardinality(FreeIn(E, own))
  BY DEF HeapOk
<1>2. \A q \in E : /\ q \in Nat /\ Sz(m, q) \in Nat
                   /\ q - 1 \in Cells /\ q + Sz(m, q) \in Cells
                   /\ \A a \in q .. q + Sz(m, q) - 1 : a \in Cells
  BY <1>1, EntryInCells
<1>3. \A q \in E : Sz(n, q) = Sz(m, q)
  BY <1>2 DEF Sz
<1>4. Tiles(n, F, lo2, hi2)
  BY <1>3, TilesFrame
<1>5. Tags(n, F, own)
  <2>1. \A q \in F : /\ n[q + Sz(n, q)].size = Sz(n, q)
                     /\ n[q - 1].allocated <=> own[q] # Null
                     /\ n[q + Sz(n, q)].allocated <=> own[q] # Null
    <3> SUFFICES ASSUME NEW q \in F
                 PROVE  /\ n[q + Sz(n, q)].size = Sz(n, q)
                        /\ n[q - 1].allocated <=> own[q] # Null
                        /\ n[q + Sz(n, q)].allocated <=> own[q] # Null
      OBVIOUS
    <3>1. Sz(n, q) = Sz(m, q) /\ q - 1 \in Cells /\ q + Sz(m, q) \in Cells
      BY <1>2, <1>3
    <3>2. n[q - 1].allocated = m[q - 1].allocated
          /\ n[q + Sz(m, q)].allocated = m[q + Sz(m, q)].allocated
          /\ n[q + Sz(m, q)].size = m[q + Sz(m, q)].size
      BY <3>1
    <3>3. /\ m[q + Sz(m, q)].size = Sz(m, q)
          /\ m[q - 1].allocated <=> own[q] # Null
          /\ m[q + Sz(m, q)].allocated <=> own[q] # Null
      BY <1>1 DEF Tags
    <3> QED BY <3>1, <3>2, <3>3
  <2>2. n[new_addr - 1].allocated /\ n[new_addr + new_size].allocated
    BY <1>1, GuardCells DEF Tags
  <2> QED BY <2>1, <2>2 DEF Tags
<1>6. Null \notin Nat /\ E \subseteq Nat
  BY <1>2, NullNoNumber
<1>7. (Pv(m, p) # Null => p # hd[own[p]]) /\ own[p] \in Lists
  <2>1. own[p] \in Lists /\ HeadsFirst(m, hd, cut) /\ p # Null
    BY <1>1, <1>2, <1>6 DEF Links
  <2>2. p = hd[own[p]] => Pv(m, p) = Null
    BY <2>1 DEF HeadsFirst
  <2> QED BY <2>1, <2>2
<1>8. Pv(m, p) # Null => Pv(m, p) \in E /\ own[Pv(m, p)] = own[p]
  BY <1>1, <1>6, <1>7 DEF Links, Backward, Forward
<1>9. Nx(m, p) # Null => Nx(m, p) \in E
  BY <1>1 DEF Links, Forward
<1>10. \A q \in E : Nx(n, q) = IF q = Pv(m, p) THEN Nx(m, p) ELSE Nx(m, q)
  <2> SUFFICES ASSUME NEW q \in E PROVE Nx(n, q) = IF q = Pv(m, p) THEN Nx(m, p) ELSE Nx(m, q)
    OBVIOUS
  <2>1. q \in Nat /\ q # Null
    BY <1>6
  <2>2. Pv(m, p) # Null => (q - 1 = Pv(m, p) - 1 <=> q = Pv(m, p))
    <3>1. \A x \in Nat : q - 1 = x - 1 <=> q = x
      BY <2>1
    <3> QED BY <3>1, <1>8, <1>6
  <2> QED BY <2>1, <2>2, <1>2 DEF Nx
<1>11. \A q \in E : Pv(n, q) = IF q = Nx(m, p) THEN Pv(m, p) ELSE Pv(m, q)
  <2> SUFFICES ASSUME NEW q \in E PROVE Pv(n, q) = IF q = Nx(m, p) THEN Pv(m, p) ELSE Pv(m, q)
    OBVIOUS
  <2>1. q \in Nat /\ q # Null
    BY <1>6
  <2>2. Nx(m, p) # Null => (q - 1 = Nx(m, p) - 1 <=> q = Nx(m, p))
    <3>1. \A x \in Nat : q - 1 = x - 1 <=> q = x
      BY <2>1
    <3> QED BY <3>1, <1>9, <1>6
  <2> QED BY <2>1, <2>2, <1>2 DEF Pv
<1>12. Links(n, F, own, rank, top, k, cut)
  BY <1>1, <1>10, <1>11, LinksRemove
<1>13. Aligned(n, F)
  BY <1>1, <1>3 DEF Aligned
<1>14. Apart(n, F, own)
  BY <1>1, <1>3 DEF Apart
<1>15. k[Null] = g.first_extent
  <2>1. Null \in Lists /\ hd \in [Lists -> PtrOrNull]
    BY <1>1 DEF Lists, Links
  <2> QED BY <1>1, <1>7, <2>1 DEF HeadsWithout
<1>16. g.entries = Cardinality(FreeIn(F, own))
  <2>1. IsFiniteSet(E)
    BY <1>1, EntriesFinite
  <2>2. IsFiniteSet(FreeIn(E, own))
    BY <2>1, FS_Subset DEF FreeIn
  <2>3. CASE own[p] = Null
    <3>1. FreeIn(F, own) = FreeIn(E, own) \ {p} /\ p \in FreeIn(E, own)
      BY <2>3 DEF FreeIn
    <3> QED BY <3>1, <2>2, <2>3, <1>1, FS_RemoveElement
  <2>4. CASE own[p] # Null
    <3>1. FreeIn(F, own) = FreeIn(E, own)
      BY <2>4 DEF FreeIn
    <3> QED BY <3>1, <2>4, <1>1
  <2> QED BY <2>3, <2>4
<1>17. Frame(m, n, F, own, own[p])
  <2> SUFFICES ASSUME NEW q \in F, own[q] \notin {Null, own[p]}
               PROVE  /\ Nx(n, q) = Nx(m, q)
                      /\ \A a \in q .. q + Sz(m, q) - 1 : n[a].data = m[a].data
    BY <1>3 DEF Frame
  <2>1. q # Pv(m, p)
    BY <1>6, <1>8
  <2> QED BY <2>1, <1>2, <1>10
<1> QED BY <1>1, <1>4, <1>5, <1>12, <1>13, <1>14, <1>15, <1>16, <1>17 DEF HeapOk

\* The extent p of size s, with its tags, is the upper part of the hole.
InHole(p, s, lo, hi) ==
    p \in Nat /\ s \in Nat /\ lo < p /\ p + s + 1 = hi

\* No free entry is a neighbour of the extent p of size s.
NoFreeNext(m, E, own, p, s) ==
    \A q \in E : own[q] = Null => p + s + 2 # q /\ q + Sz(m, q) + 2 # p

\* The upper part of the hole becomes an entry, the first one of the list x.
InsertedIn(g, h, p, s, hd, x) ==
    /\ g \in HeapType
    /\ Nx(g.mem, p) = hd[x] /\ Pv(g.mem, p) = Null /\ Sz(g.mem, p) = s
    /\ g.mem[p - 1].allocated <=> x # Null
    /\ g.mem[p + s].size = s
    /\ g.mem[p + s].allocated <=> x # Null
    /\ \A b \in Cells \ {p - 1, p + s} :
         /\ g.mem[b].prev = IF hd[x] # Null /\ b = hd[x] - 1 THEN p ELSE h.mem[b].prev
         /\ g.mem[b].next = h.mem[b].next
         /\ g.mem[b].size = h.mem[b].size
         /\ g.mem[b].allocated = h.mem[b].allocated
         /\ g.mem[b].data = h.mem[b].data
    /\ x = Null => g.first_extent = p /\ g.entries = h.entries + 1
    /\ x # Null => g.first_extent = h.first_extent /\ g.entries = h.entries
    /\ g.asserts

LEMMA OkInsert ==
    ASSUME NEW h, NEW g, NEW E, NEW own, NEW rank, NEW top, NEW hd, NEW cut,
           NEW lo, NEW hi,
           HeapOk(h, E, own, rank, top, hd, cut, lo, hi),
           NEW p, NEW s, InHole(p, s, lo, hi), NEW x \in Lists, x \notin cut,
           Mult(p - 1 - new_addr),
           s + 2 >= extent_size \/ s + 2 = new_size,
           x = Null => NoFreeNext(h.mem, E, own, p, s),
           InsertedIn(g, h, p, s, hd, x)
    PROVE  /\ HeapOk(g, E \cup {p}, Put(own, p, x), Put(rank, p, top + 1),
                     top + 1, Put(hd, x, p), cut, lo, p - 1)
           /\ Frame(h.mem, g.mem, E, own, x)
           /\ p \notin E
<1> DEFINE m == h.mem
           n == g.mem
           F == E \cup {p}
           o == Put(own, p, x)
           k == Put(hd, x, p)
<1> USE DEF InHole, InsertedIn, NoFreeNext
<1>1. /\ Tiles(m, E, lo, hi) /\ Tags(m, E, own) /\ Links(m, E, own, rank, top, hd, cut)
      /\ Aligned(m, E) /\ Apart(m, E, own) /\ Null \notin cut /\ hd[Null] = h.first_extent
      /\ h.entries = Cardinality(FreeIn(E, own)) /\ HoleAligned(lo, hi)
  BY DEF HeapOk
<1>2. \A q \in E : /\ q \in Nat /\ Sz(m, q) \in Nat
                   /\ q - 1 \in Cells /\ q + Sz(m, q) \in Cells
                   /\ \A a \in q .. q + Sz(m, q) - 1 : a \in Cells
  BY <1>1, EntryInCells
<1>3. /\ lo \in Nat /\ hi \in Nat /\ new_addr <= lo /\ hi <= new_addr + new_size
      /\ new_addr \in Nat /\ new_size \in Nat
      /\ \A q \in E : q + Sz(m, q) < lo \/ hi < q
  BY <1>1, Layout DEF Tiles
<1>4. \A q \in E : /\ q - 1 \in Cells \ {p - 1, p + s}
                   /\ q + Sz(m, q) \in Cells \ {p - 1, p + s}
                   /\ \A a \in q .. q + Sz(m, q) - 1 : a \in Cells \ {p - 1, p + s}
  <2> SUFFICES ASSUME NEW q \in E
               PROVE  /\ q - 1 \notin {p - 1, p + s} /\ q + Sz(m, q) \notin {p - 1, p + s}
                      /\ \A a \in q .. q + Sz(m, q) - 1 : a \notin {p - 1, p + s}
    BY <1>2
  <2>1. q \in Nat /\ Sz(m, q) \in Nat /\ (q + Sz(m, q) < lo \/ hi < q)
    BY <1>2, <1>3
  <2>2. PICK z \in Nat : z = Sz(m, q)
    BY <2>1
  <2>3. q + z < p - 1 \/ p + s + 1 < q
    BY <2>1, <2>2, <1>3
  <2> QED BY <2>1, <2>2, <2>3
<1>5. \A q \in E : Sz(n, q) = Sz(m, q) /\ Nx(n, q) = Nx(m, q)
  BY <1>4 DEF Sz, Nx
<1>6. Tiles(n, F, lo, p - 1) /\ p \notin E
  BY <1>1, <1>5, TilesInsert
<1>7. own \in [Nat -> Lists] /\ hd \in [Lists -> PtrOrNull] /\ Null \in Lists
  BY <1>1 DEF Links, Lists
<1>8. o[p] = x /\ \A q \in E : o[q] = own[q]
  BY <1>2, <1>6, <1>7 DEF Put
<1>9. Tags(n, F, o)
  <2>1. \A q \in E : /\ n[q + Sz(n, q)].size = Sz(n, q)
                     /\ n[q - 1].allocated <=> o[q] # Null
                     /\ n[q + Sz(n, q)].allocated <=> o[q] # Null
    <3> SUFFICES ASSUME NEW q \in E
                 PROVE  /\ n[q + Sz(n, q)].size = Sz(n, q)
                        /\ n[q - 1].allocated <=> o[q] # Null
                        /\ n[q + Sz(n, q)].allocated <=> o[q] # Null
      OBVIOUS
    <3>1. Sz(n, q) = Sz(m, q) /\ o[q] = own[q]
      BY <1>5, <1>8
    <3>2. n[q - 1].allocated = m[q - 1].allocated
          /\ n[q + Sz(m, q)].allocated = m[q + Sz(m, q)].allocated
          /\ n[q + Sz(m, q)].size = m[q + Sz(m, q)].size
      BY <1>4
    <3>3. /\ m[q + Sz(m, q)].size = Sz(m, q)
          /\ m[q - 1].allocated <=> own[q] # Null
          /\ m[q + Sz(m, q)].allocated <=> own[q] # Null
      BY <1>1 DEF Tags
    <3> HIDE DEF o
    <3> QED BY <3>1, <3>2, <3>3
  <2>2. new_addr - 1 \in Cells \ {p - 1, p + s} /\ new_addr + new_size \in Cells \ {p - 1, p + s}
    BY <1>3, GuardCells
  <2>3. n[new_addr - 1].allocated /\ n[new_addr + new_size].allocated
    BY <1>1, <2>2 DEF Tags
  <2>4. /\ n[p + Sz(n, p)].size = Sz(n, p)
        /\ n[p - 1].allocated <=> o[p] # Null
        /\ n[p + Sz(n, p)].allocated <=> o[p] # Null
    <3> HIDE DEF o
    <3> QED BY <1>8
  <2> HIDE DEF o
  <2> QED BY <2>1, <2>3, <2>4 DEF Tags
<1>10. \A q \in E : Pv(n, q) = IF q = hd[x] THEN p ELSE Pv(m, q)
  <2> SUFFICES ASSUME NEW q \in E PROVE Pv(n, q) = IF q = hd[x] THEN p ELSE Pv(m, q)
    OBVIOUS
  <2>1. q \in Nat /\ q # Null
    BY <1>2, NullNoNumber
  <2>2. hd[x] # Null => (q - 1 = hd[x] - 1 <=> q = hd[x])
    <3>1. \A y \in Nat : q - 1 = y - 1 <=> q = y
      BY <2>1
    <3> QED BY <3>1, <1>7 DEF PtrOrNull
  <2> QED BY <2>1, <2>2, <1>4 DEF Pv
<1>11. Links(n, F, o, Put(rank, p, top + 1), top + 1, k, cut)
  BY <1>1, <1>5, <1>6, <1>10, LinksInsert
<1>12. Aligned(n, F)
  <2>1. Mult(s + 2) \/ p + s + 1 = new_addr + new_size
    <3>1. CASE Mult(hi - new_addr)
      <4>1. s + 2 = (hi - new_addr) - (p - 1 - new_addr)
        BY <1>3
      <4>2. hi - new_addr \in Int /\ p - 1 - new_addr \in Int
        BY <1>3
      <4>3. Mult((hi - new_addr) - (p - 1 - new_addr))
        BY <3>1, <4>2, MultSum
      <4> QED BY <4>1, <4>3
    <3> QED BY <3>1, <1>1 DEF HoleAligned
  <2> QED BY <2>1, <1>1, <1>5 DEF Aligned
<1>13. Apart(n, F, o)
  <2> SUFFICES ASSUME NEW q \in F, NEW r \in F, o[q] = Null, o[r] = Null
               PROVE  q + Sz(n, q) + 2 # r
    BY DEF Apart
  <2> HIDE DEF o
  <2>1. CASE q \in E /\ r \in E
    BY <2>1, <1>1, <1>5, <1>8 DEF Apart
  <2>2. CASE q = p /\ r \in E
    BY <2>2, <1>8
  <2>3. CASE q \in E /\ r = p
    BY <2>3, <1>5, <1>8
  <2>4. CASE q = p /\ r = p
    BY <2>4
  <2> QED BY <2>1, <2>2, <2>3, <2>4
<1>14. k[Null] = g.first_extent
  BY <1>1, <1>7 DEF Put
<1>15. g.entries = Cardinality(FreeIn(F, o))
  <2> HIDE DEF o
  <2>1. IsFiniteSet(E)
    BY <1>1, EntriesFinite
  <2>2. IsFiniteSet(FreeIn(E, own))
    BY <2>1, FS_Subset DEF FreeIn
  <2>3. CASE x = Null
    <3>1. FreeIn(F, o) = FreeIn(E, own) \cup {p} /\ p \notin FreeIn(E, own)
      BY <2>3, <1>6, <1>8 DEF FreeIn
    <3>2. Cardinality(FreeIn(E, own) \cup {p}) = Cardinality(FreeIn(E, own)) + 1
      BY <3>1, <2>2, FS_AddElement
    <3> QED BY <3>1, <3>2, <2>3, <1>1
  <2>4. CASE x # Null
    <3>1. FreeIn(F, o) = FreeIn(E, own)
      BY <2>4, <1>8 DEF FreeIn
    <3> QED BY <3>1, <2>4, <1>1
  <2> QED BY <2>3, <2>4
<1>16. Frame(m, n, E, own, x)
  BY <1>4, <1>5 DEF Frame
<1>17. HoleAligned(lo, p - 1)
  BY <1>1 DEF HoleAligned
<1> HIDE DEF o, k
<1>18. HeapOk(g, F, o, Put(rank, p, top + 1), top + 1, k, cut, lo, p - 1)
  BY <1>1, <1>6, <1>9, <1>11, <1>12, <1>13, <1>14, <1>15, <1>17 DEF HeapOk
<1> QED BY <1>6, <1>16, <1>18 DEF o, k

\* The head of a list that is being freed becomes part of the hole.
LEMMA OkDrop ==
    ASSUME NEW h, NEW E, NEW own, NEW rank, NEW top, NEW hd, NEW cut, NEW lo,
           HeapOk(h, E, own, rank, top, hd, cut, lo, lo),
           NEW v \in Values, v \in cut, hd[v] # Null
    PROVE  /\ hd[v] \in E /\ own[hd[v]] = v
           /\ HeapOk(h, E \ {hd[v]}, own, rank, top, Put(hd, v, Nx(h.mem, hd[v])),
                     cut, hd[v] - 1, hd[v] + Sz(h.mem, hd[v]) + 1)
<1> DEFINE m == h.mem
<1>1. /\ Tiles(m, E, lo, lo) /\ Tags(m, E, own) /\ Links(m, E, own, rank, top, hd, cut)
      /\ Aligned(m, E) /\ Apart(m, E, own) /\ Null \notin cut /\ hd[Null] = h.first_extent
      /\ h.entries = Cardinality(FreeIn(E, own)) /\ HoleAligned(lo, lo)
      /\ h \in HeapType /\ h.asserts
  BY DEF HeapOk
<1>2. v \in Lists /\ v # Null /\ Null \in Lists /\ hd \in [Lists -> PtrOrNull]
  BY <1>1, NullNoValue DEF Lists, Links
<1>3. hd[v] \in E /\ own[hd[v]] = v
  BY <1>1, <1>2 DEF Links, Heads
<1>4. PICK p \in E : p = hd[v] /\ own[p] = v
  BY <1>3
<1>5. Links(m, E \ {p}, own, rank, top, Put(hd, v, Nx(m, p)), cut)
  BY <1>1, <1>2, <1>4, LinksDrop
<1>6. Tiles(m, E \ {p}, p - 1, p + Sz(m, p) + 1)
  BY <1>1, TilesOpen
<1>7. HoleAligned(p - 1, p + Sz(m, p) + 1)
  BY <1>1, EntryAligned DEF HoleAligned
<1>8. Tags(m, E \ {p}, own) /\ Aligned(m, E \ {p}) /\ Apart(m, E \ {p}, own)
  BY <1>1 DEF Tags, Aligned, Apart
<1>9. Put(hd, v, Nx(m, p))[Null] = h.first_extent
  BY <1>1, <1>2 DEF Put
<1>10. FreeIn(E \ {p}, own) = FreeIn(E, own)
  BY <1>4, <1>2 DEF FreeIn
<1>11. HeapOk(h, E \ {p}, own, rank, top, Put(hd, v, Nx(m, p)),
                     cut, p - 1, p + Sz(m, p) + 1)
  BY <1>1, <1>5, <1>6, <1>7, <1>8, <1>9, <1>10 DEF HeapOk
<1> QED BY <1>3, <1>4, <1>11

----------------------------------------------------------------------------
(* The operations on the lists *)

LEMMA Neighbours ==
    ASSUME NEW h, NEW E, NEW own, NEW rank, NEW top, NEW hd, NEW cut, NEW lo, NEW hi,
           HeapOk(h, E, own, rank, top, hd, cut, lo, hi),
           NEW p \in E, own[p] \notin cut
    PROVE  /\ own[p] \in Lists
           /\ Nx(h.mem, p) # Null =>
                Nx(h.mem, p) - 1 \in Cells /\ Pv(h.mem, Nx(h.mem, p)) = p
           /\ Pv(h.mem, p) # Null =>
                Pv(h.mem, p) - 1 \in Cells /\ Nx(h.mem, Pv(h.mem, p)) = p
           /\ p = hd[own[p]] <=> Pv(h.mem, p) = Null
<1> DEFINE m == h.mem
<1>1. Tiles(m, E, lo, hi) /\ Links(m, E, own, rank, top, hd, cut)
  BY DEF HeapOk
<1>2. \A q \in E : q \in Nat /\ q - 1 \in Cells
  BY <1>1, EntryInCells
<1>3. own[p] \in Lists /\ Null \notin E
  BY <1>1, <1>2, NullNoNumber DEF Links
<1>4. Nx(m, p) # Null => Nx(m, p) \in E /\ Pv(m, Nx(m, p)) = p
  BY <1>1 DEF Links, Forward
<1>5. p = hd[own[p]] => Pv(m, p) = Null
  BY <1>1, <1>3 DEF Links, HeadsFirst
<1>6. p # hd[own[p]] => Pv(m, p) \in E /\ Nx(m, Pv(m, p)) = p
  BY <1>1 DEF Links, Backward
<1> QED BY <1>2, <1>3, <1>4, <1>5, <1>6

\* vmcache_free_extent takes the smallest extent off the list of its value.
LEMMA OkUnlink ==
    ASSUME NEW h, NEW E, NEW own, NEW rank, NEW top, NEW hd, NEW cut, NEW lo,
           HeapOk(h, E, own, rank, top, hd, cut, lo, lo),
           NEW p \in E, own[p] \notin cut, own[p] # Null, p # hd[own[p]]
    PROVE  LET g == Unlink(h, p) IN
           /\ HeapOk(g, E \ {p}, own, rank, top, hd, cut, p - 1, p + Sz(h.mem, p) + 1)
           /\ Frame(h.mem, g.mem, E \ {p}, own, own[p])
           /\ g.size_used = h.size_used
<1> DEFINE m == h.mem
           g == Unlink(h, p)
<1>1. /\ h \in HeapType /\ Tiles(m, E, lo, lo) /\ Aligned(m, E) /\ h.asserts
      /\ Links(m, E, own, rank, top, hd, cut)
  BY DEF HeapOk
<1>2. /\ own[p] \in Lists
      /\ Nx(m, p) # Null => Nx(m, p) - 1 \in Cells /\ Pv(m, Nx(m, p)) = p
      /\ Pv(m, p) # Null => Pv(m, p) - 1 \in Cells /\ Nx(m, Pv(m, p)) = p
  BY Neighbours
<1>3. p - 1 \in Cells
  BY <1>1, EntryInCells
<1>4. /\ g \in HeapType
      /\ g.first_extent = h.first_extent /\ g.entries = h.entries
      /\ g.size_used = h.size_used
      /\ \A b \in Cells :
                /\ g.mem[b].prev = IF Nx(h.mem, p) # Null /\ b = Nx(h.mem, p) - 1
                                   THEN Pv(h.mem, p) ELSE h.mem[b].prev
                /\ g.mem[b].next = IF Pv(h.mem, p) # Null /\ b = Pv(h.mem, p) - 1
                                   THEN Nx(h.mem, p) ELSE h.mem[b].next
                /\ g.mem[b].size = h.mem[b].size
                /\ g.mem[b].allocated = h.mem[b].allocated
                /\ g.mem[b].data = h.mem[b].data
      /\ g.asserts
  BY <1>1, <1>2, <1>3, UnlinkWrites
<1>5. Tiles(m, E \ {p}, p - 1, p + Sz(m, p) + 1)
  BY <1>1, TilesOpen
<1>6. HoleAligned(p - 1, p + Sz(m, p) + 1)
  BY <1>1, EntryAligned DEF HoleAligned
<1>7. HeadsWithout(m, own, hd, p) = hd
  <2>1. hd \in [Lists -> PtrOrNull]
    BY <1>1 DEF Links
  <2> QED BY <2>1, <1>2 DEF HeadsWithout
<1> HIDE DEF g
<1>8. /\ HeapOk(g, E \ {p}, own, rank, top, HeadsWithout(m, own, hd, p), cut,
                p - 1, p + Sz(m, p) + 1)
      /\ Frame(h.mem, g.mem, E \ {p}, own, own[p])
  BY <1>4, <1>5, <1>6, OkRemove
<1> QED BY <1>4, <1>7, <1>8 DEF g

\* vmcache_heap_remove takes a free neighbour of the hole off the free list.
LEMMA OkHeapRemove ==
    ASSUME NEW h, NEW E, NEW own, NEW rank, NEW top, NEW hd, NEW cut,
           NEW lo, NEW hi, NEW lo2, NEW hi2,
           HeapOk(h, E, own, rank, top, hd, cut, lo, hi),
           NEW p \in E, own[p] = Null,
           Tiles(h.mem, E \ {p}, lo2, hi2), HoleAligned(lo2, hi2)
    PROVE  LET g == HeapRemove(h, p) IN
           /\ HeapOk(g, E \ {p}, own, rank, top, HeadsWithout(h.mem, own, hd, p), cut, lo2, hi2)
           /\ Frame(h.mem, g.mem, E \ {p}, own, Null)
           /\ g.size_used = h.size_used
<1> DEFINE m == h.mem
           ok == \/ h.mem[HeaderOf(p)].next # Null \/ h.mem[HeaderOf(p)].prev # Null
                 \/ h.first_extent = p
           c == Check(h, ok)
           u == Unlink(c, p)
           g == HeapRemove(h, p)
<1>1. /\ h \in HeapType /\ Tiles(m, E, lo, hi) /\ h.asserts
      /\ Null \notin cut /\ hd[Null] = h.first_extent
  BY DEF HeapOk
<1>2. /\ Nx(m, p) # Null => Nx(m, p) - 1 \in Cells /\ Pv(m, Nx(m, p)) = p
      /\ Pv(m, p) # Null => Pv(m, p) - 1 \in Cells /\ Nx(m, Pv(m, p)) = p
      /\ p = hd[Null] <=> Pv(m, p) = Null
  BY <1>1, Neighbours
<1>3. p - 1 \in Cells
  BY <1>1, EntryInCells
<1>4. ok
  BY <1>1, <1>2 DEF HeaderOf, HEADER_SIZE, Pv
<1>5. c \in HeapType /\ c.mem = m /\ c.asserts /\ c.first_extent = h.first_extent
      /\ c.entries = h.entries /\ c.size_used = h.size_used
  <2> HIDE DEF ok
  <2>1. (h.asserts /\ ok) \in BOOLEAN
    OBVIOUS
  <2> QED BY <1>1, <1>4, <2>1 DEF Check, HeapType
<1> HIDE DEF c
<1>6. /\ u \in HeapType
      /\ u.first_extent = h.first_extent /\ u.entries = h.entries
      /\ u.size_used = h.size_used
      /\ \A b \in Cells :
                /\ u.mem[b].prev = IF Nx(h.mem, p) # Null /\ b = Nx(h.mem, p) - 1
                                   THEN Pv(h.mem, p) ELSE h.mem[b].prev
                /\ u.mem[b].next = IF Pv(h.mem, p) # Null /\ b = Pv(h.mem, p) - 1
                                   THEN Nx(h.mem, p) ELSE h.mem[b].next
                /\ u.mem[b].size = h.mem[b].size
                /\ u.mem[b].allocated = h.mem[b].allocated
                /\ u.mem[b].data = h.mem[b].data
      /\ u.asserts
  BY <1>2, <1>3, <1>5, UnlinkWrites
<1>7. g = [u EXCEPT !.first_extent = IF @ = p THEN Nx(m, p) ELSE @, !.entries = @ - 1]
  BY DEF HeapRemove, c, Nx, HeaderOf, HEADER_SIZE
<1> HIDE DEF u, g
<1>8. Nx(m, p) \in PtrOrNull
  <2>1. m[p - 1] \in Cell
    BY <1>1, <1>3 DEF HeapType, Mem
  <2> QED BY <2>1 DEF Cell, Nx
<1>9. /\ g \in HeapType /\ g.mem = u.mem /\ g.asserts /\ g.size_used = h.size_used
      /\ g.first_extent = IF h.first_extent = p THEN Nx(m, p) ELSE h.first_extent
      /\ g.entries = h.entries - 1
  <2>1. u.first_extent \in PtrOrNull /\ u.entries - 1 \in Int
    BY <1>6 DEF HeapType
  <2> QED BY <1>6, <1>7, <1>8, <2>1 DEF HeapType
<1>10. /\ HeapOk(g, E \ {p}, own, rank, top, HeadsWithout(m, own, hd, p), cut, lo2, hi2)
       /\ Frame(h.mem, g.mem, E \ {p}, own, Null)
  BY <1>1, <1>6, <1>9, OkRemove
<1> QED BY <1>9, <1>10 DEF g

\* vmcache_pop_heap_entry takes the first free entry.
LEMMA OkPop ==
    ASSUME NEW h, NEW E, NEW own, NEW rank, NEW top, NEW hd, NEW cut, NEW lo,
           HeapOk(h, E, own, rank, top, hd, cut, lo, lo),
           NEW p, p = h.first_extent, p # Null
    PROVE  LET g == Pop(h) IN
           /\ p \in E /\ own[p] = Null
           /\ HeapOk(g, E \ {p}, own, rank, top, HeadsWithout(h.mem, own, hd, p), cut,
                     p - 1, p + Sz(h.mem, p) + 1)
           /\ Frame(h.mem, g.mem, E \ {p}, own, Null)
           /\ g.size_used = h.size_used
<1> DEFINE m == h.mem
           g == Pop(h)
           next == Nx(m, p)
           header == m[p - 1]
           footer == m[p + Sz(m, p)]
           ok == /\ header.prev = Null /\ ~header.allocated
                 /\ footer.size = header.size /\ ~footer.allocated
                 /\ (next # Null => m[next - 1].prev # Null)
           n == IF next = Null THEN m ELSE [m EXCEPT ![next - 1].prev = Null]
<1>1. /\ h \in HeapType /\ Tiles(m, E, lo, lo) /\ Aligned(m, E) /\ h.asserts
      /\ Null \notin cut /\ hd[Null] = h.first_extent /\ Tags(m, E, own)
      /\ Links(m, E, own, rank, top, hd, cut)
  BY DEF HeapOk
<1>2. p \in E /\ own[p] = Null
  BY <1>1 DEF Links, Heads, Lists
<1>3. /\ next # Null => next - 1 \in Cells /\ Pv(m, next) = p
      /\ Pv(m, p) = Null
  BY <1>1, <1>2, Neighbours
<1>4. p - 1 \in Cells /\ p \in Nat /\ p + Sz(m, p) \in Cells
  BY <1>1, <1>2, EntryInCells
<1>5. m \in Mem /\ Null \in PtrOrNull /\ next \in PtrOrNull
  <2>1. m \in Mem
    BY <1>1 DEF HeapType
  <2>2. m[p - 1] \in Cell
    BY <1>4, <2>1 DEF Mem
  <2> QED BY <2>1, <2>2 DEF Cell, Nx, PtrOrNull
<1>6. ok
  <2>1. header.prev = Null /\ (next # Null => m[next - 1].prev # Null)
    BY <1>3, <1>4, NullNoNumber DEF Pv
  <2>2. footer.size = header.size
    BY <1>1, <1>2 DEF Tags, Sz
  <2>3. ~header.allocated /\ ~footer.allocated
    BY <1>1, <1>2 DEF Tags
  <2> QED BY <2>1, <2>2, <2>3
<1>7. /\ n \in Mem
      /\ \A b \in Cells :
            /\ n[b].prev = IF Nx(h.mem, p) # Null /\ b = Nx(h.mem, p) - 1
                               THEN Pv(h.mem, p) ELSE h.mem[b].prev
            /\ n[b].next = IF Pv(h.mem, p) # Null /\ b = Pv(h.mem, p) - 1
                               THEN Nx(h.mem, p) ELSE h.mem[b].next
            /\ n[b].size = h.mem[b].size
            /\ n[b].allocated = h.mem[b].allocated
            /\ n[b].data = h.mem[b].data
  <2>1. CASE next = Null
    BY <2>1, <1>3, <1>5
  <2>2. CASE next # Null
    <3>1. n = [m EXCEPT ![next - 1].prev = Null]
      BY <2>2
    <3>2. next - 1 \in Cells
      BY <2>2, <1>3
    <3>3. m \in Mem /\ Null \in PtrOrNull
      BY <1>5
    <3>4. PICK a \in Cells : a = next - 1
      BY <3>2
    <3> HIDE DEF m, next
    <3>5. PICK y \in PtrOrNull : y = Null
      BY <3>3
    <3>6. n = [m EXCEPT ![a].prev = y]
      BY <3>1, <3>4, <3>5
    <3> HIDE DEF n
    <3>7. /\ n \in Mem
          /\ \A b \in Cells :
                /\ n[b].prev = IF b = a THEN y ELSE m[b].prev
                /\ n[b].next = m[b].next
                /\ n[b].size = m[b].size
                /\ n[b].allocated = m[b].allocated
                /\ n[b].data = m[b].data
      BY <3>3, <3>6 DEF Mem, Cell
    <3> QED BY <3>7, <3>4, <3>5, <2>2, <1>3 DEF next, m
  <2> QED BY <2>1, <2>2
<1>8. g = [[h EXCEPT !.asserts = @ /\ ok] EXCEPT !.mem = n, !.first_extent = next, !.entries = @ - 1]
  BY DEF Pop, Check, HeaderOf, HEADER_SIZE, FooterOf, Size, Nx, Sz
<1>9. /\ g \in HeapType /\ g.mem = n /\ g.asserts /\ g.size_used = h.size_used
      /\ g.first_extent = next /\ g.entries = h.entries - 1
  <2> HIDE DEF ok, n, next, m
  <2>1. (h.asserts /\ ok) = TRUE
    BY <1>1, <1>6
  <2>2. h.entries - 1 \in Int
    BY <1>1 DEF HeapType
  <2> QED BY <1>1, <1>5, <1>7, <1>8, <2>1, <2>2 DEF HeapType
<1> HIDE DEF g, n
<1>10. Tiles(m, E \ {p}, p - 1, p + Sz(m, p) + 1)
  BY <1>1, <1>2, TilesOpen
<1>11. HoleAligned(p - 1, p + Sz(m, p) + 1)
  BY <1>1, <1>2, EntryAligned DEF HoleAligned
<1>12. /\ HeapOk(g, E \ {p}, own, rank, top, HeadsWithout(m, own, hd, p), cut,
                p - 1, p + Sz(m, p) + 1)
       /\ Frame(h.mem, g.mem, E \ {p}, own, Null)
  BY <1>1, <1>2, <1>7, <1>9, <1>10, <1>11, OkRemove
<1> QED BY <1>2, <1>9, <1>12 DEF g

LEMMA HoleOutside ==
    ASSUME NEW h, NEW E, NEW own, NEW rank, NEW top, NEW hd, NEW cut, NEW lo, NEW hi,
           HeapOk(h, E, own, rank, top, hd, cut, lo, hi),
           NEW p, NEW s, InHole(p, s, lo, hi), NEW x \in Lists
    PROVE  /\ p - 1 \in Cells /\ p + s \in Cells
           /\ hd[x] \in PtrOrNull
           /\ hd[x] # Null => hd[x] - 1 \in Cells /\ hd[x] # p /\ hd[x] # p + s + 1
<1> DEFINE m == h.mem
<1>1. Tiles(m, E, lo, hi) /\ Links(m, E, own, rank, top, hd, cut)
  BY DEF HeapOk
<1>2. /\ lo \in Nat /\ hi \in Nat /\ new_addr <= lo /\ hi <= new_addr + new_size
      /\ \A q \in E : q \in Nat /\ Sz(m, q) \in Nat /\ (q + Sz(m, q) < lo \/ hi < q)
  BY <1>1 DEF Tiles
<1>3. p - 1 \in Cells /\ p + s \in Cells
  BY <1>2, Layout DEF Cells, InHole
<1>4. hd[x] \in PtrOrNull /\ (hd[x] # Null => hd[x] \in E)
  BY <1>1 DEF Links, Heads
<1>5. \A q \in E : q # p /\ q # p + s + 1 /\ q - 1 \in Cells
  <2>1. \A q \in E : q # p /\ q # p + s + 1
    BY <1>2 DEF InHole
  <2> QED BY <2>1, <1>1, EntryInCells
<1> QED BY <1>3, <1>4, <1>5

\* Where an entry may be, and how long it is at least.
AlignedAt(p) == Mult(p - 1 - new_addr)
LongEnough(s) == s + 2 >= extent_size \/ s + 2 = new_size

LEMMA OkInsertFree ==
    ASSUME NEW h, NEW E, NEW own, NEW rank, NEW top, NEW hd, NEW cut, NEW lo, NEW hi,
           HeapOk(h, E, own, rank, top, hd, cut, lo, hi),
           NEW p, NEW s, NEW he, IsEntry(he, p, s), InHole(p, s, lo, hi),
           AlignedAt(p), LongEnough(s),
           NoFreeNext(h.mem, E, own, p, s)
    PROVE  LET g == InsertFree(h, he) IN
           /\ HeapOk(g, E \cup {p}, Put(own, p, Null), Put(rank, p, top + 1),
                     top + 1, Put(hd, Null, p), cut, lo, p - 1)
           /\ Frame(h.mem, g.mem, E, own, Null)
           /\ p \notin E /\ g.size_used = h.size_used /\ Sz(g.mem, p) = s
<1> DEFINE i == InsertEntry(h, he, h.first_extent, FALSE)
           g == InsertFree(h, he)
<1>1. h \in HeapType /\ h.asserts /\ Null \notin cut /\ hd[Null] = h.first_extent /\ Null \in Lists
      /\ Links(h.mem, E, own, rank, top, hd, cut)
  BY DEF HeapOk, Lists
<1>2. /\ p - 1 \in Cells /\ p + s \in Cells
      /\ hd[Null] \in PtrOrNull
      /\ hd[Null] # Null => hd[Null] - 1 \in Cells /\ hd[Null] # p /\ hd[Null] # p + s + 1
  BY <1>1, HoleOutside
<1>3. hd[Null] # Null => Pv(h.mem, hd[Null]) = Null
  BY <1>1 DEF Links, HeadsFirst
<1>4. Inserted(i, h, p, s, h.first_extent, FALSE)
  <2>1. FALSE \in BOOLEAN /\ h.first_extent \in PtrOrNull
    BY <1>1, <1>2
  <2>2. h.first_extent # Null =>
            h.first_extent - 1 \in Cells /\ h.first_extent # p /\ h.first_extent # p + s + 1
    BY <1>1, <1>2
  <2>3. h.first_extent # Null => Pv(h.mem, h.first_extent) = Null
    BY <1>1, <1>3
  <2> QED BY <1>1, <1>2, <2>1, <2>2, <2>3, InsertWrites, Zenon
<1>5. he.ptr + HEADER_SIZE = p /\ p \in Nat
  BY DEF HEADER_SIZE, IsEntry
<1>6. g = [i EXCEPT !.first_extent = p, !.entries = @ + 1]
  BY <1>5 DEF InsertFree
<1> HIDE DEF i, g
<1>7. /\ g \in HeapType /\ g.mem = i.mem /\ g.asserts /\ g.size_used = h.size_used
      /\ g.first_extent = p /\ g.entries = h.entries + 1
  <2>1. p \in PtrOrNull /\ i.entries + 1 \in Int
    BY <1>4, <1>5 DEF HeapType, PtrOrNull, Inserted
  <2> QED BY <1>4, <1>6, <2>1 DEF HeapType, Inserted
<1>8. InsertedIn(g, h, p, s, hd, Null)
  BY <1>1, <1>4, <1>7 DEF Inserted, InsertedIn
<1>9. Sz(g.mem, p) = s
  BY <1>8 DEF InsertedIn
<1>10. /\ HeapOk(g, E \cup {p}, Put(own, p, Null), Put(rank, p, top + 1),
                     top + 1, Put(hd, Null, p), cut, lo, p - 1)
      /\ Frame(h.mem, g.mem, E, own, Null)
      /\ p \notin E
  BY <1>1, <1>8, OkInsert DEF AlignedAt, LongEnough
<1> QED BY <1>7, <1>10, <1>9 DEF g

InsertUsed(h, he, fst) == InsertEntry(h, he, fst, TRUE)

HandedOut(h, g, E, own, rank, top, hd, cut, lo, p, s, v) ==
    /\ HeapOk(g, E \cup {p}, Put(own, p, v), Put(rank, p, top + 1),
              top + 1, Put(hd, v, p), cut, lo, p - 1)
    /\ Frame(h.mem, g.mem, E, own, v)
    /\ p \notin E /\ g.size_used = h.size_used /\ Sz(g.mem, p) = s

LEMMA OkInsertUsed ==
    ASSUME NEW h, NEW E, NEW own, NEW rank, NEW top, NEW hd, NEW cut, NEW lo, NEW hi,
           HeapOk(h, E, own, rank, top, hd, cut, lo, hi),
           NEW p, NEW s, NEW he, IsEntry(he, p, s), InHole(p, s, lo, hi),
           AlignedAt(p), LongEnough(s),
           NEW v \in Values, v \notin cut, NEW fst, fst = hd[v]
    PROVE  LET g == InsertUsed(h, he, fst) IN
           HandedOut(h, g, E, own, rank, top, hd, cut, lo, p, s, v)
<1> DEFINE g == InsertUsed(h, he, fst)
<1>1. h \in HeapType /\ h.asserts /\ v \in Lists /\ Links(h.mem, E, own, rank, top, hd, cut)
      /\ v # Null
  BY NullNoValue DEF HeapOk, Lists
<1>2. /\ p - 1 \in Cells /\ p + s \in Cells
      /\ hd[v] \in PtrOrNull
      /\ hd[v] # Null => hd[v] - 1 \in Cells /\ hd[v] # p /\ hd[v] # p + s + 1
  BY <1>1, HoleOutside
<1>3. hd[v] # Null => Pv(h.mem, hd[v]) = Null
  BY <1>1 DEF Links, HeadsFirst
<1>4. Inserted(g, h, p, s, hd[v], TRUE)
  <2>1. TRUE \in BOOLEAN
    OBVIOUS
  <2>2. Inserted(InsertEntry(h, he, hd[v], TRUE), h, p, s, hd[v], TRUE)
    BY <1>1, <1>2, <1>3, <2>1, InsertWrites, Zenon
  <2> QED BY <2>2 DEF InsertUsed
<1> HIDE DEF g
<1>5. InsertedIn(g, h, p, s, hd, v) /\ g.size_used = h.size_used
  BY <1>1, <1>4 DEF Inserted, InsertedIn
<1>6. Sz(g.mem, p) = s
  BY <1>5 DEF InsertedIn
<1>7. /\ HeapOk(g, E \cup {p}, Put(own, p, v), Put(rank, p, top + 1),
                     top + 1, Put(hd, v, p), cut, lo, p - 1)
      /\ Frame(h.mem, g.mem, E, own, v)
      /\ p \notin E
  BY <1>1, <1>5, OkInsert DEF AlignedAt, LongEnough
<1> QED BY <1>7, <1>5, <1>6 DEF g, HandedOut

\* The extent p of size s, with its tags, is the hole.
IsHole(p, s, lo, hi) ==
    p \in Nat /\ s \in Nat /\ lo = p - 1 /\ hi = p + s + 1

\* Forgetting the bytes of the hole.
LEMMA OkForget ==
    ASSUME NEW h, NEW E, NEW own, NEW rank, NEW top, NEW hd, NEW cut, NEW lo, NEW hi,
           HeapOk(h, E, own, rank, top, hd, cut, lo, hi), NEW p, NEW s, IsHole(p, s, lo, hi)
    PROVE  LET g == Forget(h, p, s) IN
           /\ HeapOk(g, E, own, rank, top, hd, cut, lo, hi)
           /\ Frame(h.mem, g.mem, E, own, Null)
           /\ g.size_used = h.size_used
           /\ \A b \in Cells : g.mem[b].size = h.mem[b].size /\ g.mem[b].allocated = h.mem[b].allocated
<1> DEFINE m == h.mem
           n == [a \in Cells |->
                   IF a \in p .. p + s - 1 THEN [m[a] EXCEPT !.data = Null] ELSE m[a]]
           g == Forget(h, p, s)
<1>1. /\ h \in HeapType /\ Tiles(m, E, lo, hi) /\ Tags(m, E, own)
      /\ Links(m, E, own, rank, top, hd, cut)
      /\ Aligned(m, E) /\ HoleAligned(lo, hi) /\ Apart(m, E, own)
      /\ Null \notin cut /\ hd[Null] = h.first_extent
      /\ h.entries = Cardinality(FreeIn(E, own)) /\ h.asserts
  BY DEF HeapOk
<1>2. g = [h EXCEPT !.mem = n]
  BY DEF Forget
<1>3. /\ n \in Mem
      /\ \A b \in Cells : /\ n[b].prev = m[b].prev /\ n[b].next = m[b].next
                          /\ n[b].size = m[b].size /\ n[b].allocated = m[b].allocated
                          /\ b \notin p .. p + s - 1 => n[b].data = m[b].data
  <2>1. m \in [Cells -> Cell]
    BY <1>1 DEF HeapType, Mem
  <2>2. \A c \in Cell : /\ [c EXCEPT !.data = Null] \in Cell
                        /\ [c EXCEPT !.data = Null].prev = c.prev
                        /\ [c EXCEPT !.data = Null].next = c.next
                        /\ [c EXCEPT !.data = Null].size = c.size
                        /\ [c EXCEPT !.data = Null].allocated = c.allocated
    BY DEF Cell
  <2> HIDE DEF m
  <2>3. \A b \in Cells : n[b] = IF b \in p .. p + s - 1 THEN [m[b] EXCEPT !.data = Null] ELSE m[b]
    OBVIOUS
  <2>4. \A b \in Cells : n[b] \in Cell
    BY <2>1, <2>2, <2>3
  <2>5. n \in Mem
    BY <2>4 DEF Mem
  <2> HIDE DEF n
  <2> QED BY <2>1, <2>2, <2>3, <2>5
<1> HIDE DEF n, g
<1>4. /\ g \in HeapType /\ g.mem = n /\ g.first_extent = h.first_extent
      /\ g.entries = h.entries /\ g.size_used = h.size_used /\ g.asserts = h.asserts
  BY <1>1, <1>2, <1>3 DEF HeapType
<1>5. \A q \in E : /\ q \in Nat /\ Sz(m, q) \in Nat
                   /\ q - 1 \in Cells /\ q + Sz(m, q) \in Cells
                   /\ \A a \in q .. q + Sz(m, q) - 1 : a \in Cells
  BY <1>1, EntryInCells
<1>6. \A q \in E : Sz(n, q) = Sz(m, q) /\ Nx(n, q) = Nx(m, q) /\ Pv(n, q) = Pv(m, q)
  BY <1>3, <1>5 DEF Sz, Nx, Pv
<1>7. Tiles(n, E, lo, hi) /\ Links(n, E, own, rank, top, hd, cut)
  BY <1>1, <1>6, TilesFrame, LinksFrame
<1>8. Tags(n, E, own)
  <2> SUFFICES ASSUME NEW q \in E
               PROVE  /\ n[q + Sz(n, q)].size = Sz(n, q)
                      /\ n[q - 1].allocated <=> own[q] # Null
                      /\ n[q + Sz(n, q)].allocated <=> own[q] # Null
    BY <1>1, <1>3, GuardCells DEF Tags
  <2>1. Sz(n, q) = Sz(m, q) /\ q - 1 \in Cells /\ q + Sz(m, q) \in Cells
    BY <1>5, <1>6
  <2>2. n[q - 1].allocated = m[q - 1].allocated
        /\ n[q + Sz(m, q)].allocated = m[q + Sz(m, q)].allocated
        /\ n[q + Sz(m, q)].size = m[q + Sz(m, q)].size
    BY <2>1, <1>3
  <2>3. /\ m[q + Sz(m, q)].size = Sz(m, q)
        /\ m[q - 1].allocated <=> own[q] # Null
        /\ m[q + Sz(m, q)].allocated <=> own[q] # Null
    BY <1>1 DEF Tags
  <2> QED BY <2>1, <2>2, <2>3
<1>9. Aligned(n, E) /\ Apart(n, E, own)
  BY <1>1, <1>6 DEF Aligned, Apart
<1>10. Frame(m, n, E, own, Null)
  <2>1. \A q \in E : \A a \in q .. q + Sz(m, q) - 1 : a \in Cells /\ a \notin p .. p + s - 1
    <3> SUFFICES ASSUME NEW q \in E, NEW a \in q .. q + Sz(m, q) - 1
                 PROVE  a \in Cells /\ a \notin p .. p + s - 1
      OBVIOUS
    <3>1. q \in Nat /\ Sz(m, q) \in Nat /\ (q + Sz(m, q) < lo \/ hi < q)
      BY <1>1 DEF Tiles
    <3> QED BY <3>1, <1>5 DEF IsHole
  <2> QED BY <2>1, <1>3, <1>6 DEF Frame
<1>11. HeapOk(g, E, own, rank, top, hd, cut, lo, hi)
  BY <1>1, <1>4, <1>7, <1>8, <1>9 DEF HeapOk
<1> QED BY <1>3, <1>4, <1>10, <1>11 DEF g

----------------------------------------------------------------------------
(* vmcache_heap_merge *)

\* What vmcache_heap_merge leaves alone: everything that is allocated.
Merging(h, g, E, F, own, hd, k) ==
    /\ F \subseteq E
    /\ \A q \in E : own[q] # Null => q \in F
    /\ \A x \in Values : k[x] = hd[x]
    /\ Frame(h.mem, g.mem, F, own, Null)
    /\ g.size_used = h.size_used
    /\ \A q \in F : own[q] = Null => Sz(g.mem, q) = Sz(h.mem, q)

LEMMA HeadsWithoutFree ==
    ASSUME NEW m, NEW E, NEW own, NEW rank, NEW top, NEW hd, NEW cut,
           Links(m, E, own, rank, top, hd, cut), NEW p, own[p] = Null
    PROVE  \A x \in Values : HeadsWithout(m, own, hd, p)[x] = hd[x]
<1>1. hd \in [Lists -> PtrOrNull] /\ Null \notin Values
  BY NullNoValue DEF Links
<1> QED BY <1>1 DEF HeadsWithout, Lists

\* The neighbour with the lower addresses.
MergeBelow(h, p) ==
    LET prev == h.mem[PrevFooter(p)]
    IN  IF prev.allocated THEN h ELSE HeapRemove(h, PrevPtr(PrevFooter(p), prev.size))

\* The first extent of the hole at lo is p.
StartsAt(lo, p) == p \in Nat /\ lo = p - 1

LEMMA OkMergeBelow ==
    ASSUME NEW h, NEW E, NEW own, NEW rank, NEW top, NEW hd, NEW cut, NEW lo, NEW hi,
           HeapOk(h, E, own, rank, top, hd, cut, lo, hi), NEW p, StartsAt(lo, p)
    PROVE  LET prev == h.mem[PrevFooter(p)]
               below == IF prev.allocated THEN 0 ELSE prev.size + HFER_SIZE
               g == MergeBelow(h, p)
           IN  /\ below \in Nat
               /\ \E F, k :
                   /\ HeapOk(g, F, own, rank, top, k, cut, lo - below, hi)
                   /\ Merging(h, g, E, F, own, hd, k)
                   /\ \A q \in F : own[q] = Null => q + Sz(g.mem, q) + 1 # lo - below
                   /\ hi + 1 \in E => hi + 1 \in F
<1> DEFINE m == h.mem
           prev == h.mem[PrevFooter(p)]
           below == IF prev.allocated THEN 0 ELSE prev.size + HFER_SIZE
           g == MergeBelow(h, p)
<1>1. /\ h \in HeapType /\ Tiles(m, E, lo, hi) /\ Tags(m, E, own)
      /\ Links(m, E, own, rank, top, hd, cut)
      /\ Aligned(m, E) /\ HoleAligned(lo, hi) /\ Apart(m, E, own)
  BY DEF HeapOk
<1>2. PrevFooter(p) = lo - 1 /\ lo \in Nat /\ hi \in Nat /\ lo <= hi
  BY <1>1 DEF PrevFooter, HEADER_SIZE, FOOTER_SIZE, Tiles, StartsAt
<1>3. \A q \in E : q \in Nat /\ Sz(m, q) \in Nat /\ (q + Sz(m, q) < lo \/ hi < q)
  BY <1>1 DEF Tiles
<1>4. CASE prev.allocated
  <2>1. below = 0 /\ g = h
    BY <1>4 DEF MergeBelow
  <2>2. \A q \in E : own[q] = Null => q + Sz(m, q) + 1 # lo
    <3> SUFFICES ASSUME NEW q \in E, own[q] = Null, q + Sz(m, q) + 1 = lo PROVE FALSE
      OBVIOUS
    <3>1. q + Sz(m, q) = lo - 1
      BY <1>2, <1>3
    <3>2. ~m[q + Sz(m, q)].allocated
      BY <1>1 DEF Tags
    <3> QED BY <3>1, <3>2, <1>2, <1>4
  <2>3. Merging(h, h, E, E, own, hd, hd)
    BY DEF Merging, Frame
  <2>4. lo - 0 = lo
    BY <1>2
  <2> QED BY <2>1, <2>2, <2>3, <2>4
<1>5. CASE ~prev.allocated
  <2>1. lo # new_addr
    BY <1>1, <1>2, <1>5 DEF Tags
  <2>2. PICK q \in E : q + Sz(m, q) + 1 = lo
    BY <1>1, <2>1, EntryBelow
  <2>3. q + Sz(m, q) = lo - 1 /\ q \in Nat /\ Sz(m, q) \in Nat
    BY <1>2, <1>3, <2>2
  <2>4. own[q] = Null /\ prev.size = Sz(m, q)
    <3>1. /\ m[q + Sz(m, q)].size = Sz(m, q)
          /\ m[q + Sz(m, q)].allocated <=> own[q] # Null
      BY <1>1 DEF Tags
    <3> QED BY <3>1, <2>3, <1>2, <1>5
  <2>5. PrevPtr(PrevFooter(p), prev.size) = q
    BY <1>2, <2>3, <2>4 DEF PrevPtr
  <2>6. below = Sz(m, q) + 2 /\ below \in Nat /\ lo - below = q - 1
    BY <1>2, <1>5, <2>3, <2>4 DEF HFER_SIZE, HEADER_SIZE, FOOTER_SIZE
  <2>7. g = HeapRemove(h, q)
    BY <1>5, <2>5 DEF MergeBelow
  <2> HIDE DEF g, below, prev
  <2>8. Tiles(m, E \ {q}, q - 1, hi)
    BY <1>1, <2>2, TilesBelow
  <2>9. HoleAligned(q - 1, hi)
    BY <1>1, EntryAligned DEF HoleAligned
  <2>10. /\ HeapOk(g, E \ {q}, own, rank, top, HeadsWithout(m, own, hd, q), cut, q - 1, hi)
         /\ Frame(m, g.mem, E \ {q}, own, Null)
         /\ g.size_used = h.size_used
    BY <2>4, <2>7, <2>8, <2>9, OkHeapRemove
  <2>11. Merging(h, g, E, E \ {q}, own, hd, HeadsWithout(m, own, hd, q))
    BY <1>1, <2>4, <2>10, HeadsWithoutFree DEF Merging, Frame
  <2>12. \A r \in E \ {q} : own[r] = Null => r + Sz(g.mem, r) + 1 # q - 1
    <3> SUFFICES ASSUME NEW r \in E \ {q}, own[r] = Null, r + Sz(g.mem, r) + 1 = q - 1
                 PROVE  FALSE
      OBVIOUS
    <3>1. Sz(g.mem, r) = Sz(m, r)
      BY <2>10 DEF Frame
    <3>2. r + Sz(m, r) + 2 # q
      BY <1>1, <2>4 DEF Apart
    <3>3. r \in Nat /\ Sz(m, r) \in Nat
      BY <1>3
    <3> QED BY <3>1, <3>2, <3>3, <2>3
  <2>13. hi + 1 # q
    BY <1>2, <2>3
  <2> QED BY <2>6, <2>10, <2>11, <2>12, <2>13 DEF g, below, prev
<1> QED BY <1>4, <1>5

\* The neighbour with the higher addresses.
LEMMA OkMergeAbove ==
    ASSUME NEW h, NEW E, NEW own, NEW rank, NEW top, NEW hd, NEW cut, NEW lo, NEW hi,
           HeapOk(h, E, own, rank, top, hd, cut, lo, hi)
    PROVE  LET next == h.mem[hi]
               above == IF next.allocated THEN 0 ELSE next.size + HFER_SIZE
               g == IF next.allocated THEN h ELSE HeapRemove(h, hi + 1)
           IN  /\ above \in Nat
               /\ \E F, k :
                   /\ HeapOk(g, F, own, rank, top, k, cut, lo, hi + above)
                   /\ Merging(h, g, E, F, own, hd, k)
                   /\ \A q \in F : own[q] = Null => q # hi + above + 1
<1> DEFINE m == h.mem
           next == h.mem[hi]
           above == IF next.allocated THEN 0 ELSE next.size + HFER_SIZE
           g == IF next.allocated THEN h ELSE HeapRemove(h, hi + 1)
<1>1. /\ h \in HeapType /\ Tiles(m, E, lo, hi) /\ Tags(m, E, own)
      /\ Links(m, E, own, rank, top, hd, cut)
      /\ Aligned(m, E) /\ HoleAligned(lo, hi) /\ Apart(m, E, own)
  BY DEF HeapOk
<1>2. lo \in Nat /\ hi \in Nat /\ lo <= hi
  BY <1>1 DEF Tiles
<1>3. \A q \in E : q \in Nat /\ Sz(m, q) \in Nat /\ (q + Sz(m, q) < lo \/ hi < q)
  BY <1>1 DEF Tiles
<1>4. CASE next.allocated
  <2>1. above = 0 /\ g = h
    BY <1>4
  <2>2. \A q \in E : own[q] = Null => q # hi + 1
    <3> SUFFICES ASSUME NEW q \in E, own[q] = Null, q = hi + 1 PROVE FALSE
      OBVIOUS
    <3>1. q - 1 = hi
      BY <1>2
    <3>2. ~m[q - 1].allocated
      BY <1>1 DEF Tags
    <3> QED BY <3>1, <3>2, <1>4
  <2>3. Merging(h, h, E, E, own, hd, hd)
    BY DEF Merging, Frame
  <2>4. hi + 0 = hi
    BY <1>2
  <2> QED BY <2>1, <2>2, <2>3, <2>4
<1>5. CASE ~next.allocated
  <2>1. hi # new_addr + new_size
    BY <1>1, <1>5 DEF Tags
  <2>2. PICK q \in E : q = hi + 1
    BY <1>1, <2>1, EntryAbove
  <2>3. q - 1 = hi /\ q \in Nat /\ Sz(m, q) \in Nat
    BY <1>2, <1>3, <2>2
  <2>4. own[q] = Null /\ next.size = Sz(m, q)
    <3>1. m[q - 1].allocated <=> own[q] # Null
      BY <1>1 DEF Tags
    <3> QED BY <3>1, <2>3, <1>5 DEF Sz
  <2>5. above = Sz(m, q) + 2 /\ above \in Nat /\ hi + above = q + Sz(m, q) + 1
    BY <1>2, <1>5, <2>3, <2>4 DEF HFER_SIZE, HEADER_SIZE, FOOTER_SIZE
  <2>6. g = HeapRemove(h, q)
    BY <1>5, <2>2
  <2> HIDE DEF g, above, next
  <2>7. Tiles(m, E \ {q}, lo, q + Sz(m, q) + 1)
    BY <1>1, <2>2, TilesAbove
  <2>8. HoleAligned(lo, q + Sz(m, q) + 1)
    BY <1>1, EntryAligned DEF HoleAligned
  <2>9. /\ HeapOk(g, E \ {q}, own, rank, top, HeadsWithout(m, own, hd, q), cut,
                   lo, q + Sz(m, q) + 1)
         /\ Frame(m, g.mem, E \ {q}, own, Null)
         /\ g.size_used = h.size_used
    BY <2>4, <2>6, <2>7, <2>8, OkHeapRemove
  <2>10. Merging(h, g, E, E \ {q}, own, hd, HeadsWithout(m, own, hd, q))
    BY <1>1, <2>4, <2>9, HeadsWithoutFree DEF Merging, Frame
  <2>11. \A r \in E \ {q} : own[r] = Null => r # hi + above + 1
    <3> SUFFICES ASSUME NEW r \in E \ {q}, own[r] = Null, r = hi + above + 1
                 PROVE  FALSE
      OBVIOUS
    <3>1. q + Sz(m, q) + 2 # r
      BY <1>1, <2>4 DEF Apart
    <3>2. PICK z \in Nat : z = Sz(m, q)
      BY <2>3
    <3>3. above \in Nat /\ hi + above = q + z + 1 /\ q + z + 2 # r
      BY <3>1, <3>2, <2>5
    <3> QED BY <3>3, <1>2, <2>3
  <2> QED BY <2>5, <2>9, <2>10, <2>11 DEF g, above, next
<1> QED BY <1>4, <1>5

\* What giving an extent back leaves alone: all allocated entries.
UsedSame(h, g, E, own, hd, F, o, k) ==
    /\ \A q \in E : own[q] # Null => q \in F /\ o[q] = own[q]
    /\ \A q \in F : o[q] # Null => q \in E /\ own[q] = o[q]
    /\ \A x \in Values : k[x] = hd[x]
    /\ \A q \in E : own[q] # Null =>
         /\ Sz(g.mem, q) = Sz(h.mem, q) /\ Nx(g.mem, q) = Nx(h.mem, q)
         /\ \A a \in q .. q + Sz(h.mem, q) - 1 : g.mem[a].data = h.mem[a].data
    /\ g.size_used = h.size_used

LEMMA OkClose ==
    ASSUME NEW h, NEW E, NEW own, NEW rank, NEW top, NEW hd, NEW cut, NEW lo,
           HeapOk(h, E, own, rank, top, hd, cut, lo, lo)
    PROVE  HeapOk(h, E, own, rank, top, hd, cut, new_addr, new_addr)
<1>1. Tiles(h.mem, E, new_addr, new_addr)
  BY TilesClose DEF HeapOk
<1>2. HoleAligned(new_addr, new_addr)
  <2>1. new_addr - new_addr = 0
    BY Layout
  <2> QED BY <2>1, MultZero DEF HoleAligned
<1> QED BY <1>1, <1>2 DEF HeapOk

\* vmcache_heap_merge and vmcache_insert_heap_entry: what was taken out is free.
LEMMA OkMerge ==
    ASSUME NEW h, NEW E, NEW own, NEW rank, NEW top, NEW hd, NEW cut, NEW p, NEW s \in Nat,
           HeapOk(h, E, own, rank, top, hd, cut, p - 1, p + s + 1), p \in Nat,
           LongEnough(s)
    PROVE  \E F, o, r, t, k :
               /\ HeapOk(MergeAndInsert(h, p, s), F, o, r, t, k, cut, new_addr, new_addr)
               /\ UsedSame(h, MergeAndInsert(h, p, s), E, own, hd, F, o, k)
<1>1. PICK lo, hi : IsHole(p, s, lo, hi) /\ StartsAt(lo, p) /\ lo = p - 1 /\ hi = p + s + 1
  BY DEF IsHole, StartsAt
<1> DEFINE f == Forget(h, p, s)
           prev == f.mem[PrevFooter(p)]
           b == IF prev.allocated THEN 0 ELSE prev.size + HFER_SIZE
           h1 == MergeBelow(f, p)
           next == h1.mem[hi]
           a == IF next.allocated THEN 0 ELSE next.size + HFER_SIZE
           h2 == IF next.allocated THEN h1 ELSE HeapRemove(h1, hi + 1)
           he == MergedEntry(h, p, s)
           g == InsertFree(h2, he)
<1>2. /\ HeapOk(f, E, own, rank, top, hd, cut, lo, hi)
      /\ Frame(h.mem, f.mem, E, own, Null)
      /\ f.size_used = h.size_used
      /\ \A c \in Cells : f.mem[c].size = h.mem[c].size /\ f.mem[c].allocated = h.mem[c].allocated
  <2>1. HeapOk(h, E, own, rank, top, hd, cut, lo, hi)
    BY <1>1
  <2> QED BY <1>1, <2>1, OkForget
<1>3. /\ b \in Nat
      /\ \E F, k :
           /\ HeapOk(h1, F, own, rank, top, k, cut, lo - b, hi)
           /\ Merging(f, h1, E, F, own, hd, k)
           /\ \A q \in F : own[q] = Null => q + Sz(h1.mem, q) + 1 # lo - b
           /\ hi + 1 \in E => hi + 1 \in F
  <2> HIDE DEF f
  <2> QED BY <1>1, <1>2, OkMergeBelow
<1>4. PICK F1, k1 :
           /\ HeapOk(h1, F1, own, rank, top, k1, cut, lo - b, hi)
           /\ Merging(f, h1, E, F1, own, hd, k1)
           /\ \A q \in F1 : own[q] = Null => q + Sz(h1.mem, q) + 1 # lo - b
           /\ hi + 1 \in E => hi + 1 \in F1
  BY <1>3
<1>5. /\ a \in Nat
      /\ \E F, k :
           /\ HeapOk(h2, F, own, rank, top, k, cut, lo - b, hi + a)
           /\ Merging(h1, h2, F1, F, own, k1, k)
           /\ \A q \in F : own[q] = Null => q # hi + a + 1
  <2> HIDE DEF f, h1, b
  <2> QED BY <1>4, OkMergeAbove
<1>6. PICK F2, k2 :
           /\ HeapOk(h2, F2, own, rank, top, k2, cut, lo - b, hi + a)
           /\ Merging(h1, h2, F1, F2, own, k1, k2)
           /\ \A q \in F2 : own[q] = Null => q # hi + a + 1
  BY <1>5
<1>7. /\ Tiles(f.mem, E, lo, hi) /\ Tags(f.mem, E, own)
      /\ Tiles(h1.mem, F1, lo - b, hi) /\ Tags(h1.mem, F1, own)
      /\ Tiles(h2.mem, F2, lo - b, hi + a) /\ HoleAligned(lo - b, hi + a)
  <2> HIDE DEF f, h1, h2, a, b
  <2> QED BY <1>2, <1>4, <1>6 DEF HeapOk
<1> HIDE DEF h1, h2, f
<1>8. hi \in Nat /\ lo \in Int /\ a \in Nat /\ b \in Nat
  BY <1>1, <1>3, <1>5
\* The header above is read before or after the neighbour below is taken out.
<1>9. /\ next.allocated <=> f.mem[hi].allocated
      /\ ~next.allocated => next.size = f.mem[hi].size
  <2>1. CASE hi = new_addr + new_size
    BY <1>7, <2>1 DEF Tags
  <2>2. CASE hi # new_addr + new_size
    <3>1. hi + 1 \in E /\ hi + 1 \in F1
      BY <1>4, <1>7, <2>2, EntryAbove
    <3>2. PICK q \in F1 : q = hi + 1 /\ q \in E
      BY <3>1
    <3>3. q - 1 = hi
      BY <3>2, <1>8
    <3>4. Sz(h1.mem, q) = Sz(f.mem, q)
      BY <1>4 DEF Merging, Frame
    <3>5. (f.mem[q - 1].allocated <=> own[q] # Null) /\ (h1.mem[q - 1].allocated <=> own[q] # Null)
      BY <1>7, <3>2 DEF Tags
    <3> QED BY <3>3, <3>4, <3>5 DEF Sz
  <2> QED BY <2>1, <2>2
<1>10. /\ PrevFooter(p) = p - 2 /\ p - 2 \in Cells /\ HeaderOf(NextPtr(p, s)) = hi /\ hi \in Cells
      /\ NextPtr(p, s) = hi + 1 /\ HeaderOf(p) = p - 1 /\ HFER_SIZE = 2
  <2>1. new_addr <= p - 1 /\ hi <= new_addr + new_size /\ p - 1 <= hi
    BY <1>1, <1>7 DEF Tiles
  <2> QED BY <1>1, <2>1, Layout DEF PrevFooter, HeaderOf, NextPtr, HEADER_SIZE, FOOTER_SIZE, HFER_SIZE, Cells
<1>11. MergedHeap(f, p, s) = h2
  <2>1. MergedHeap(f, p, s) = IF f.mem[hi].allocated THEN h1 ELSE HeapRemove(h1, hi + 1)
    BY <1>10 DEF MergedHeap, MergeBelow, h1
  <2> QED BY <2>1, <1>9 DEF h2
<1>12. he = [ptr |-> lo - b, size |-> s + 2 + b + a]
  <2>1. h.mem[hi].size = f.mem[hi].size /\ h.mem[hi].allocated = f.mem[hi].allocated
        /\ h.mem[p - 2].size = f.mem[p - 2].size /\ h.mem[p - 2].allocated = f.mem[p - 2].allocated
    BY <1>2, <1>10
  <2>2. b = IF h.mem[p - 2].allocated THEN 0 ELSE h.mem[p - 2].size + 2
    BY <1>10, <2>1
  <2>3. a = IF h.mem[hi].allocated THEN 0 ELSE h.mem[hi].size + 2
    BY <1>9, <1>10, <2>1
  <2> HIDE DEF a, b
  <2> QED BY <1>1, <1>10, <2>2, <2>3 DEF MergedEntry
<1> HIDE DEF a, b, he
<1>13. PICK P \in Nat : P = p - b
  <2>1. lo - b \in Nat
    BY <1>7 DEF Tiles
  <2> QED BY <1>1, <2>1, <1>8
<1>14. PICK S \in Nat : S = s + b + a
  BY <1>8
<1>15. PICK lo2, hi2 : lo2 = lo - b /\ hi2 = hi + a
  OBVIOUS
<1>16. lo2 = P - 1 /\ hi2 = P + S + 1
  BY <1>1, <1>8, <1>13, <1>14, <1>15
<1>17. IsEntry(he, P, S) /\ InHole(P, S, lo2, hi2)
  <2>1. s + 2 + b + a = S + 2
    BY <1>8, <1>14
  <2> QED BY <1>12, <1>15, <1>16, <2>1 DEF IsEntry, InHole
<1>18. HeapOk(h2, F2, own, rank, top, k2, cut, lo2, hi2)
  BY <1>6, <1>15
<1>19. AlignedAt(P)
  BY <1>7, <1>15, <1>16 DEF HoleAligned, AlignedAt
<1>20. LongEnough(S)
  <2>1. new_addr <= P - 1 /\ P + S + 1 <= new_addr + new_size
    BY <1>7, <1>15, <1>16 DEF Tiles
  <2> QED BY <2>1, <1>8, <1>13, <1>14, Layout, ExtentSize DEF LongEnough
<1>21. NoFreeNext(h2.mem, F2, own, P, S)
  <2> SUFFICES ASSUME NEW q \in F2, own[q] = Null
               PROVE  P + S + 2 # q /\ q + Sz(h2.mem, q) + 2 # P
    BY DEF NoFreeNext
  <2>1. q # P + S + 1 + 1
    BY <1>6, <1>15, <1>16
  <2>2. q \in F1 /\ Sz(h2.mem, q) = Sz(h1.mem, q)
    BY <1>6 DEF Merging
  <2>3. q + Sz(h1.mem, q) + 1 # P - 1
    BY <1>4, <1>15, <1>16, <2>2
  <2>4. PICK c \in Nat, y \in Nat : c = q /\ y = Sz(h1.mem, q)
    BY <1>7, <2>2 DEF Tiles
  <2>5. c # P + S + 1 + 1 /\ c + y + 1 # P - 1
    BY <2>1, <2>3, <2>4
  <2>6. P + S + 2 # c /\ c + y + 2 # P
    BY <2>5
  <2> QED BY <2>2, <2>4, <2>6
<1>22. /\ HeapOk(g, F2 \cup {P}, Put(own, P, Null), Put(rank, P, top + 1),
                     top + 1, Put(k2, Null, P), cut, lo2, P - 1)
       /\ Frame(h2.mem, g.mem, F2, own, Null)
       /\ P \notin F2 /\ g.size_used = h2.size_used
  <2> QED BY <1>17, <1>18, <1>19, <1>20, <1>21, OkInsertFree
<1>23. HeapOk(g, F2 \cup {P}, Put(own, P, Null), Put(rank, P, top + 1),
              top + 1, Put(k2, Null, P), cut, new_addr, new_addr)
  <2> HIDE DEF g
  <2> QED BY <1>22, <1>16, OkClose
<1>24. g = MergeAndInsert(h, p, s)
  BY <1>11 DEF MergeAndInsert, f, he
<1> HIDE DEF g
<1>25. UsedSame(h, g, E, own, hd, F2 \cup {P}, Put(own, P, Null), Put(k2, Null, P))
  <2>1. own \in [Nat -> Lists] /\ k2 \in [Lists -> PtrOrNull] /\ Null \notin Values
    BY <1>6, NullNoValue DEF HeapOk, Links
  <2>2. \A q \in Nat : Put(own, P, Null)[q] = IF q = P THEN Null ELSE own[q]
    BY <2>1 DEF Put
  <2>3. \A x \in Values : Put(k2, Null, P)[x] = k2[x]
    BY <2>1 DEF Put, Lists
  <2>4. \A q \in E : own[q] # Null => q \in F1 /\ q \in F2 /\ q \in Nat
    BY <1>4, <1>6, <1>7 DEF Merging, Tiles
  <2>5. \A q \in F2 : q \in E /\ q \in Nat
    BY <1>4, <1>6, <1>7 DEF Merging, Tiles
  <2>6. \A x \in Values : k2[x] = hd[x]
    BY <1>4, <1>6 DEF Merging
  <2>7. g.size_used = h.size_used
    BY <1>2, <1>4, <1>6, <1>22 DEF Merging
  <2>8. \A q \in E : own[q] # Null =>
         /\ Sz(g.mem, q) = Sz(h.mem, q) /\ Nx(g.mem, q) = Nx(h.mem, q)
         /\ \A c \in q .. q + Sz(h.mem, q) - 1 : g.mem[c].data = h.mem[c].data
    <3> SUFFICES ASSUME NEW q \in E, own[q] # Null
                 PROVE  /\ Sz(g.mem, q) = Sz(h.mem, q) /\ Nx(g.mem, q) = Nx(h.mem, q)
                        /\ \A c \in q .. q + Sz(h.mem, q) - 1 : g.mem[c].data = h.mem[c].data
      OBVIOUS
    <3>1. q \in F1 /\ q \in F2 /\ own[q] \notin {Null, Null}
      BY <2>4
    <3>2. Frame(f.mem, h1.mem, F1, own, Null) /\ Frame(h1.mem, h2.mem, F2, own, Null)
      BY <1>4, <1>6 DEF Merging
    <3> QED BY <3>1, <3>2, <1>2, <1>22 DEF Frame
  <2>9. \A q \in E : own[q] # Null => q \in F2 \cup {P} /\ Put(own, P, Null)[q] = own[q]
    BY <2>2, <2>4, <1>22
  <2>10. \A q \in F2 \cup {P} : Put(own, P, Null)[q] # Null =>
             q \in E /\ own[q] = Put(own, P, Null)[q]
    BY <2>2, <2>5
  <2>11. \A x \in Values : Put(k2, Null, P)[x] = hd[x]
    BY <2>3, <2>6
  <2> QED BY <2>7, <2>8, <2>9, <2>10, <2>11 DEF UsedSame
<1> QED BY <1>23, <1>24, <1>25

----------------------------------------------------------------------------
(* The iterations of the loops *)

\* The extents on the list x.
Of(E, own, x) == {p \in E : own[p] = x}

\* What a step of v leaves alone: the extents of the other values, with their
\* links and their bytes, and the sizes of the extents of v in D, which it keeps.
Kept(m, n, E, own, hd, F, o, k, v, D) ==
    /\ \A x \in Values \ {v} :
         /\ Of(F, o, x) = Of(E, own, x)
         /\ k[x] = hd[x]
         /\ \A q \in Of(E, own, x) :
              /\ Sz(n, q) = Sz(m, q) /\ Nx(n, q) = Nx(m, q)
              /\ \A a \in q .. q + Sz(m, q) - 1 : n[a].data = m[a].data
    /\ \A q \in D : Sz(n, q) = Sz(m, q)

\* An iteration of vmcache_free frees the first extent that is left.
LEMMA OkFreeMore ==
    ASSUME NEW h, NEW E, NEW own, NEW rank, NEW top, NEW hd, NEW cut, NEW lo,
           HeapOk(h, E, own, rank, top, hd, cut, lo, lo),
           NEW v \in Values, v \in cut, NEW p, p = hd[v], p # Null, NEW s, s = Sz(h.mem, p)
    PROVE  LET g == MergeAndInsert(h, p, s) IN
           /\ p \in Of(E, own, v) /\ s \in Nat
           /\ \E F, o, r, t, k :
               /\ HeapOk(g, F, o, r, t, k, cut, new_addr, new_addr)
               /\ Kept(h.mem, g.mem, E, own, hd, F, o, k, v, Of(E, own, v) \ {p})
               /\ Of(F, o, v) = Of(E, own, v) \ {p}
               /\ k[v] = Nx(h.mem, p)
               /\ g.size_used = h.size_used
<1> DEFINE g == MergeAndInsert(h, p, s)
           hd1 == Put(hd, v, Nx(h.mem, p))
<1>1. /\ p \in E /\ own[p] = v
      /\ HeapOk(h, E \ {p}, own, rank, top, hd1, cut, p - 1, p + s + 1)
  BY OkDrop
<1>2. p \in Nat /\ s \in Nat /\ LongEnough(s) /\ hd \in [Lists -> PtrOrNull] /\ v # Null
      /\ v \in Lists
  BY <1>1, NullNoValue DEF HeapOk, Tiles, Aligned, LongEnough, Links, Lists
<1>3. PICK F, o, r, t, k :
           /\ HeapOk(g, F, o, r, t, k, cut, new_addr, new_addr)
           /\ UsedSame(h, g, E \ {p}, own, hd1, F, o, k)
  <2> HIDE DEF hd1
  <2> QED BY <1>1, <1>2, OkMerge
<1> HIDE DEF g
<1>4. \A x \in Values : Of(F, o, x) = Of(E \ {p}, own, x)
  BY <1>3, NullNoValue DEF UsedSame, Of
<1>5. Of(F, o, v) = Of(E, own, v) \ {p}
  BY <1>4 DEF Of
<1>6. \A x \in Values \ {v} : hd1[x] = hd[x] /\ Of(E \ {p}, own, x) = Of(E, own, x)
  BY <1>1, <1>2 DEF Put, Of, Lists
<1>7. k[v] = Nx(h.mem, p)
  BY <1>2, <1>3 DEF UsedSame, Put
<1>8. \A x \in Values : \A q \in Of(E \ {p}, own, x) :
              /\ Sz(g.mem, q) = Sz(h.mem, q) /\ Nx(g.mem, q) = Nx(h.mem, q)
              /\ \A a \in q .. q + Sz(h.mem, q) - 1 : g.mem[a].data = h.mem[a].data
  BY <1>3, NullNoValue DEF UsedSame, Of
<1>9. \A x \in Values : k[x] = hd1[x]
  BY <1>3 DEF UsedSame
<1>10. \A q \in Of(E, own, v) \ {p} : Sz(g.mem, q) = Sz(h.mem, q)
  BY <1>8 DEF Of
<1> HIDE DEF hd1
<1>11. Kept(h.mem, g.mem, E, own, hd, F, o, k, v, Of(E, own, v) \ {p})
  BY <1>4, <1>6, <1>8, <1>9, <1>10 DEF Kept
<1>12. p \in Of(E, own, v) /\ g.size_used = h.size_used
  BY <1>1, <1>3 DEF Of, UsedSame
<1> QED BY <1>2, <1>3, <1>5, <1>7, <1>11, <1>12 DEF g

\* vmcache_free_extent gives the smallest extent back.
GaveBack(h, g, E, own, hd, cut, v, p) ==
    \E F, o, r, t, k :
        /\ HeapOk(g, F, o, r, t, k, cut, new_addr, new_addr)
        /\ Kept(h.mem, g.mem, E, own, hd, F, o, k, v, Of(E, own, v) \ {p})
        /\ Of(F, o, v) = Of(E, own, v) \ {p}
        /\ k[v] = hd[v]
        /\ g.size_used = h.size_used - (extent_size - 2)

LEMMA OkFreeExtent ==
    ASSUME NEW h, NEW E, NEW own, NEW rank, NEW top, NEW hd, NEW cut, NEW lo,
           HeapOk(h, E, own, rank, top, hd, cut, lo, lo),
           NEW v \in Values, v \notin cut, NEW p \in Of(E, own, v), p # hd[v],
           Sz(h.mem, p) = extent_size - 2
    PROVE  GaveBack(h, FreeExtent(h, p), E, own, hd, cut, v, p)
<1> DEFINE s == extent_size - 2
           u == Unlink(h, p)
           i == MergeAndInsert(u, p, s)
           g == FreeExtent(h, p)
<1>1. p \in E /\ own[p] = v /\ v # Null /\ p \in Nat /\ s \in Nat /\ Sz(h.mem, p) = s
  BY ExtentSize, NullNoValue DEF Of, HeapOk, Tiles
<1>2. LongEnough(s)
  BY ExtentSize DEF LongEnough
<1>3. g = [i EXCEPT !.size_used = @ - s]
  BY DEF FreeExtent, HFER_SIZE, HEADER_SIZE, FOOTER_SIZE
<1> HIDE DEF s, g
<1>4. /\ HeapOk(u, E \ {p}, own, rank, top, hd, cut, p - 1, p + s + 1)
      /\ Frame(h.mem, u.mem, E \ {p}, own, v)
      /\ u.size_used = h.size_used
  BY <1>1, OkUnlink
<1> HIDE DEF u
<1>5. PICK F, o, r, t, k :
           /\ HeapOk(i, F, o, r, t, k, cut, new_addr, new_addr)
           /\ UsedSame(u, i, E \ {p}, own, hd, F, o, k)
  BY <1>1, <1>2, <1>4, OkMerge
<1> HIDE DEF i
<1>6. /\ g \in HeapType /\ g.mem = i.mem /\ g.first_extent = i.first_extent
      /\ g.entries = i.entries /\ g.asserts = i.asserts /\ g.size_used = i.size_used - s
  <2>1. i \in HeapType /\ i.size_used - s \in Int
    BY <1>1, <1>5 DEF HeapOk, HeapType
  <2> QED BY <1>3, <2>1 DEF HeapType
<1>7. HeapOk(g, F, o, r, t, k, cut, new_addr, new_addr)
  BY <1>5, <1>6 DEF HeapOk
<1>8. \A x \in Values : Of(F, o, x) = Of(E \ {p}, own, x) /\ k[x] = hd[x]
  BY <1>5, NullNoValue DEF UsedSame, Of
<1>9. Of(F, o, v) = Of(E, own, v) \ {p}
  BY <1>8 DEF Of
<1>10. \A x \in Values \ {v} : Of(E \ {p}, own, x) = Of(E, own, x)
  BY <1>1 DEF Of
<1>11. \A x \in Values : \A q \in Of(E \ {p}, own, x) :
              /\ Sz(i.mem, q) = Sz(u.mem, q) /\ Nx(i.mem, q) = Nx(u.mem, q)
              /\ \A a \in q .. q + Sz(u.mem, q) - 1 : i.mem[a].data = u.mem[a].data
  BY <1>5, NullNoValue DEF UsedSame, Of
<1>12. \A x \in Values : \A q \in Of(E \ {p}, own, x) :
              /\ Sz(u.mem, q) = Sz(h.mem, q)
              /\ x # v => /\ Nx(u.mem, q) = Nx(h.mem, q)
                          /\ \A a \in q .. q + Sz(h.mem, q) - 1 : u.mem[a].data = h.mem[a].data
  BY <1>4, NullNoValue DEF Frame, Of
<1>13. \A q \in Of(E, own, v) \ {p} : Sz(g.mem, q) = Sz(h.mem, q)
  BY <1>6, <1>11, <1>12 DEF Of
<1>14. \A x \in Values \ {v} : \A q \in Of(E \ {p}, own, x) :
              /\ Sz(g.mem, q) = Sz(h.mem, q) /\ Nx(g.mem, q) = Nx(h.mem, q)
              /\ \A a \in q .. q + Sz(h.mem, q) - 1 : g.mem[a].data = h.mem[a].data
  BY <1>6, <1>11, <1>12
<1>15. Kept(h.mem, g.mem, E, own, hd, F, o, k, v, Of(E, own, v) \ {p})
  BY <1>8, <1>10, <1>13, <1>14 DEF Kept
<1>16. g.size_used = h.size_used - s
  BY <1>4, <1>5, <1>6 DEF UsedSame
<1> QED BY <1>7, <1>8, <1>9, <1>15, <1>16 DEF g, s, GaveBack

\* The entry that an iteration of vmcache_alloc takes: the first free one, or
\* its lower part, A cells long.  The rest is free again.
Splits(h, A) == Popped(h).size >= A + extent_size
Carved(h, A) == IF Splits(h, A) THEN [Popped(h) EXCEPT !.size = A] ELSE Popped(h)
Carving(h, A) ==
    IF Splits(h, A)
    THEN InsertFree(Pop(h), [ptr |-> Popped(h).ptr + A, size |-> Popped(h).size - A])
    ELSE Pop(h)

\* The free entries before and after: without a split, p alone has gone.
FreeTaken(E, own, F, o, p, split) ==
    ~split => F = E /\ FreeIn(F, o) = FreeIn(E, own) \ {p}

Took(h, g, E, own, hd, cut, v, p, A) ==
    \E F, o, r, t, k :
        /\ HeapOk(g, F, o, r, t, k, cut, new_addr, new_addr)
        /\ Kept(h.mem, g.mem, E, own, hd, F, o, k, v, Of(E, own, v))
        /\ Of(F, o, v) = Of(E, own, v) \cup {p}
        /\ k[v] = p
        /\ g.size_used = h.size_used
        /\ Sz(g.mem, p) + 2 = Carved(h, A).size
        /\ FreeTaken(E, own, F, o, p, Splits(h, A))

LEMMA OkTake ==
    ASSUME NEW h, NEW E, NEW own, NEW rank, NEW top, NEW hd, NEW cut, NEW lo,
           HeapOk(h, E, own, rank, top, hd, cut, lo, lo),
           NEW v \in Values, v \notin cut, NEW p, p = h.first_extent, p # Null,
           NEW A \in Nat, Mult(A), A > 0
    PROVE  LET g == InsertUsed(Carving(h, A), Carved(h, A), hd[v]) IN
           /\ p \in FreeIn(E, own) /\ Sz(h.mem, p) \in Nat
           /\ Carved(h, A).ptr + HEADER_SIZE = p
           /\ Splits(h, A) <=> Sz(h.mem, p) + 2 >= A + extent_size
           /\ Carved(h, A).size = IF Splits(h, A) THEN A ELSE Sz(h.mem, p) + 2
           /\ Took(h, g, E, own, hd, cut, v, p, A)
<1> DEFINE g == InsertUsed(Carving(h, A), Carved(h, A), hd[v])
           m == h.mem
           z == Sz(m, p)
           h0 == Pop(h)
           hd0 == HeadsWithout(m, own, hd, p)
           he == Carved(h, A)
<1>1. /\ p \in E /\ own[p] = Null
      /\ HeapOk(h0, E \ {p}, own, rank, top, hd0, cut, p - 1, p + z + 1)
      /\ Frame(m, h0.mem, E \ {p}, own, Null)
      /\ h0.size_used = h.size_used
  <2> HIDE DEF h0
  <2> QED BY OkPop DEF h0
<1>2. /\ Tiles(m, E, lo, lo) /\ Aligned(m, E) /\ Apart(m, E, own)
      /\ Links(m, E, own, rank, top, hd, cut)
      /\ p \in Nat /\ z \in Nat /\ new_addr < p /\ LongEnough(z)
      /\ Mult(p - 1 - new_addr) /\ AlignedAt(p)
  BY <1>1 DEF HeapOk, Tiles, Aligned, LongEnough, AlignedAt
<1>3. extent_size \in Nat /\ A >= extent_size /\ extent_size >= 4
  BY ExtentSize, MultLeast
<1>4. /\ v \in Lists /\ v # Null /\ hd0[v] = hd[v] /\ own \in [Nat -> Lists]
      /\ \A x \in Values : hd0[x] = hd[x]
  <2>1. \A x \in Values : hd0[x] = hd[x]
    BY <1>1, <1>2, HeadsWithoutFree
  <2> QED BY <1>2, <2>1, NullNoValue DEF Lists, Links
<1>5. Popped(h) = [ptr |-> p - 1, size |-> z + 2]
  BY DEF Popped, HeaderOf, Size, HFER_SIZE, HEADER_SIZE, FOOTER_SIZE, Sz
<1>6. Splits(h, A) <=> z + 2 >= A + extent_size
  BY <1>5 DEF Splits
<1>7. he.ptr + HEADER_SIZE = p /\ he.size = IF Splits(h, A) THEN A ELSE z + 2
  BY <1>2, <1>5 DEF Carved, HEADER_SIZE
<1> HIDE DEF z, h0, hd0
<1>8. PICK lo0, hi0, E0 : lo0 = p - 1 /\ hi0 = p + z + 1 /\ E0 = E \ {p}
  OBVIOUS
<1>9. /\ HeapOk(h0, E0, own, rank, top, hd0, cut, lo0, hi0)
       /\ Frame(m, h0.mem, E0, own, Null)
  BY <1>1, <1>8
<1>10. CASE ~Splits(h, A)
  <2>1. he = [ptr |-> p - 1, size |-> z + 2] /\ Carving(h, A) = h0
    BY <1>5, <1>10 DEF Carved, Carving, h0
  <2>2. IsEntry(he, p, z) /\ InHole(p, z, lo0, hi0)
    BY <1>2, <1>8, <2>1 DEF IsEntry, InHole
  <2>3. PICK fst : fst = hd0[v]
    OBVIOUS
  <2>4. g = InsertUsed(h0, he, fst)
    BY <1>4, <2>1, <2>3 DEF InsertUsed
  <2> HIDE DEF g, he
  <2>5. /\ HeapOk(g, E0 \cup {p}, Put(own, p, v), Put(rank, p, top + 1),
                     top + 1, Put(hd0, v, p), cut, lo0, p - 1)
        /\ Frame(h0.mem, g.mem, E0, own, v)
        /\ g.size_used = h0.size_used /\ Sz(g.mem, p) = z
    <3>1. PICK e \in Nat, y \in Nat : e = p /\ y = z
      BY <1>2
    <3>2. IsEntry(he, e, y) /\ InHole(e, y, lo0, hi0) /\ AlignedAt(e) /\ LongEnough(y)
      BY <1>2, <2>2, <3>1
    <3>3. /\ HeapOk(g, E0 \cup {e}, Put(own, e, v), Put(rank, e, top + 1),
                     top + 1, Put(hd0, v, e), cut, lo0, e - 1)
          /\ Frame(h0.mem, g.mem, E0, own, v)
          /\ g.size_used = h0.size_used /\ Sz(g.mem, e) = y
      <4>1. HandedOut(h0, g, E0, own, rank, top, hd0, cut, lo0, e, y, v)
        BY <1>9, <2>4, <2>3, <3>2, OkInsertUsed
      <4> QED BY <4>1 DEF HandedOut
    <3> QED BY <3>1, <3>3
  <2>6. E0 \cup {p} = E
    BY <1>1, <1>8
  <2>7. HeapOk(g, E, Put(own, p, v), Put(rank, p, top + 1),
                     top + 1, Put(hd0, v, p), cut, new_addr, new_addr)
    BY <2>5, <2>6, <1>8, OkClose
  <2>8. \A q \in Nat : Put(own, p, v)[q] = IF q = p THEN v ELSE own[q]
    BY <1>4 DEF Put
  <2>9. E \subseteq Nat
    BY <1>2 DEF Tiles
  <2>10. Of(E, Put(own, p, v), v) = Of(E, own, v) \cup {p}
    BY <2>8, <2>9, <1>1 DEF Of
  <2>11. FreeIn(E, Put(own, p, v)) = FreeIn(E, own) \ {p}
    BY <2>8, <2>9, <1>4 DEF FreeIn
  <2>12. hd0 \in [Lists -> PtrOrNull]
    BY <1>1 DEF HeapOk, Links
  <2>13. Put(hd0, v, p)[v] = p /\ \A x \in Values \ {v} : Put(hd0, v, p)[x] = hd[x]
    BY <1>4, <2>12 DEF Put, Lists
  <2>14. \A x \in Values \ {v} : Of(E, Put(own, p, v), x) = Of(E, own, x)
    BY <2>8, <2>9, <1>1, NullNoValue DEF Of
  <2>15. \A q \in E : own[q] # Null => q \in E0
    BY <1>1, <1>8
  <2>16. \A q \in E : own[q] # Null => Sz(g.mem, q) = Sz(m, q)
    BY <1>9, <2>5, <2>15 DEF Frame
  <2>17. \A q \in E : own[q] \notin {Null, v} =>
              /\ Nx(g.mem, q) = Nx(m, q)
              /\ \A a \in q .. q + Sz(m, q) - 1 : g.mem[a].data = m[a].data
    BY <1>9, <2>5, <2>15 DEF Frame
  <2>18. Kept(m, g.mem, E, own, hd, E, Put(own, p, v), Put(hd0, v, p), v, Of(E, own, v))
    <3>1. \A q \in Of(E, own, v) : Sz(g.mem, q) = Sz(m, q)
      BY <2>16, <1>4 DEF Of
    <3>2. \A x \in Values \ {v} : \A q \in Of(E, own, x) :
              /\ Sz(g.mem, q) = Sz(m, q) /\ Nx(g.mem, q) = Nx(m, q)
              /\ \A a \in q .. q + Sz(m, q) - 1 : g.mem[a].data = m[a].data
      BY <2>16, <2>17, NullNoValue DEF Of
    <3> QED BY <3>1, <3>2, <2>13, <2>14 DEF Kept
  <2>19. FreeTaken(E, own, E, Put(own, p, v), p, Splits(h, A))
    BY <2>11 DEF FreeTaken
  <2>20. p \in FreeIn(E, own) /\ Sz(g.mem, p) + 2 = he.size /\ g.size_used = h.size_used
    BY <1>1, <1>7, <1>10, <2>5 DEF FreeIn
  <2> QED BY <1>2, <1>6, <1>7, <2>7, <2>10, <2>13, <2>18, <2>19, <2>20 DEF g, he, z, Took
<1>11. CASE Splits(h, A)
  <2>1. PICK P \in Nat, S \in Nat : P = p + A /\ S = z - A
    BY <1>2, <1>3, <1>6, <1>11
  <2> DEFINE rest == [ptr |-> Popped(h).ptr + A, size |-> Popped(h).size - A]
             h1 == InsertFree(h0, rest)
             own1 == Put(own, P, Null)
             hd1 == Put(hd0, Null, P)
             rank1 == Put(rank, P, top + 1)
             F1 == E0 \cup {P}
             F == F1 \cup {p}
             o == Put(own1, p, v)
  <2>2. LongEnough(S)
    BY <1>2, <1>3, <1>6, <1>11, <2>1 DEF LongEnough
  <2>3. rest = [ptr |-> P - 1, size |-> S + 2]
    <3>1. (p - 1) + A = P - 1 /\ (z + 2) - A = S + 2
      BY <1>2, <2>1
    <3> QED BY <1>5, <3>1
  <2>4. IsEntry(rest, P, S) /\ InHole(P, S, lo0, hi0)
    BY <1>2, <1>8, <1>3, <2>1, <2>3 DEF IsEntry, InHole
  <2>5. AlignedAt(P)
    <3>1. PICK d \in Int : d = p - 1 - new_addr
      BY <1>2, Layout
    <3>2. P - 1 - new_addr = d + A
      BY <1>2, <3>1, <2>1, Layout
    <3>3. Mult(d)
      BY <1>2, <3>1
    <3>4. Mult(d + A)
      BY <3>3, MultSum
    <3> QED BY <3>2, <3>4 DEF AlignedAt
  <2>6. NoFreeNext(h0.mem, E0, own, P, S)
    <3> SUFFICES ASSUME NEW q \in E0, own[q] = Null
                 PROVE  P + S + 2 # q /\ q + Sz(h0.mem, q) + 2 # P
      BY DEF NoFreeNext
    <3>1. Sz(h0.mem, q) = Sz(m, q) /\ q \in E /\ q # p
      BY <1>8, <1>9 DEF Frame
    <3>2. p + z + 2 # q
      BY <1>1, <1>2, <3>1 DEF Apart, z
    <3>3. q \in Nat /\ Sz(m, q) \in Nat
          /\ (q < p => q + Sz(m, q) + 2 <= p) /\ (p < q => p + z + 2 <= q)
      BY <1>1, <1>2, <3>1 DEF Tiles, z
    <3> QED BY <1>2, <1>3, <2>1, <3>1, <3>2, <3>3
  <2> HIDE DEF rest
  <2>7. PICK hi1 : hi1 = P - 1
    OBVIOUS
  <2>8. /\ HeapOk(h1, F1, own1, rank1, top + 1, hd1, cut, lo0, hi1)
        /\ Frame(h0.mem, h1.mem, E0, own, Null)
        /\ P \notin E0 /\ h1.size_used = h0.size_used
    BY <1>9, <2>7, <2>2, <2>4, <2>5, <2>6, OkInsertFree
  <2>9. he = [ptr |-> p - 1, size |-> A] /\ Carving(h, A) = h1
    BY <1>5, <1>11 DEF Carved, Carving, h0, rest
  <2>10. PICK s \in Nat : s = A - 2
    BY <1>3
  <2>11. IsEntry(he, p, s) /\ InHole(p, s, lo0, hi1)
    <3>1. A = s + 2 /\ p + s + 1 = P - 1
      BY <1>2, <1>3, <2>10, <2>1
    <3> QED BY <1>2, <1>8, <2>7, <2>9, <3>1 DEF IsEntry, InHole
  <2>12. LongEnough(s)
    BY <1>3, <2>10 DEF LongEnough
  <2>13. hd0 \in [Lists -> PtrOrNull] /\ Null \in Lists
    BY <1>1 DEF HeapOk, Links, Lists
  <2>14. hd1[v] = hd[v] /\ \A x \in Values : hd1[x] = hd[x]
    BY <1>4, <2>13, NullNoValue DEF Put, Lists
  <2>15. PICK fst : fst = hd1[v]
    OBVIOUS
  <2>16. g = InsertUsed(h1, he, fst)
    BY <2>9, <2>14, <2>15 DEF InsertUsed
  <2> HIDE DEF g, he, h1, hd1, own1, rank1
  <2>17. /\ HeapOk(g, F, o, Put(rank1, p, top + 1 + 1),
                     top + 1 + 1, Put(hd1, v, p), cut, lo0, p - 1)
         /\ Frame(h1.mem, g.mem, F1, own1, v)
         /\ g.size_used = h1.size_used /\ Sz(g.mem, p) = s
    <3>1. PICK e \in Nat : e = p
      BY <1>2
    <3>2. IsEntry(he, e, s) /\ InHole(e, s, lo0, hi1) /\ AlignedAt(e)
      BY <1>2, <2>11, <3>1
    <3>3. PICK t1 : t1 = top + 1
      OBVIOUS
    <3>4. HeapOk(h1, F1, own1, rank1, t1, hd1, cut, lo0, hi1)
      BY <2>8, <3>3
    <3> HIDE DEF F1
    <3>5. /\ HeapOk(g, F1 \cup {e}, Put(own1, e, v), Put(rank1, e, t1 + 1),
                     t1 + 1, Put(hd1, v, e), cut, lo0, e - 1)
          /\ Frame(h1.mem, g.mem, F1, own1, v)
          /\ g.size_used = h1.size_used /\ Sz(g.mem, e) = s
      <4>1. HandedOut(h1, g, F1, own1, rank1, t1, hd1, cut, lo0, e, s, v)
        BY <2>12, <2>16, <2>15, <3>2, <3>4, OkInsertUsed
      <4> QED BY <4>1 DEF HandedOut
    <3> QED BY <3>1, <3>3, <3>5
  <2>18. HeapOk(g, F, o, Put(rank1, p, top + 1 + 1),
                     top + 1 + 1, Put(hd1, v, p), cut, new_addr, new_addr)
    BY <2>17, <1>8, OkClose
  <2>19. P # p
    BY <1>2, <1>3, <2>1
  <2>20. \A q \in Nat : o[q] = IF q = p THEN v ELSE IF q = P THEN Null ELSE own[q]
    <3>1. own1 \in [Nat -> Lists]
      BY <2>8 DEF HeapOk, Links
    <3>2. \A q \in Nat : own1[q] = IF q = P THEN Null ELSE own[q]
      BY <1>4 DEF Put, own1
    <3> QED BY <3>1, <3>2, <1>4, <2>19 DEF Put
  <2>21. E \subseteq Nat /\ F = E \cup {P} /\ P \in Nat /\ P \notin E
    BY <1>1, <1>2, <1>8, <2>2, <2>8, <2>19 DEF Tiles
  <2> HIDE DEF o, F
  <2>22. Of(F, o, v) = Of(E, own, v) \cup {p}
    BY <2>19, <2>20, <2>21, <1>1, <1>4 DEF Of
  <2>23. \A x \in Values \ {v} : Of(F, o, x) = Of(E, own, x)
    BY <2>19, <2>20, <2>21, <1>1, NullNoValue DEF Of
  <2>24. hd1 \in [Lists -> PtrOrNull]
    BY <2>8 DEF HeapOk, Links
  <2>25. Put(hd1, v, p)[v] = p /\ \A x \in Values \ {v} : Put(hd1, v, p)[x] = hd[x]
    BY <1>4, <2>14, <2>24 DEF Put, Lists
  <2>26. \A q \in E : own[q] # Null => q \in E0 /\ q \in F1 /\ own1[q] = own[q]
    <3>1. \A q \in E : own1[q] = own[q]
      BY <2>21, <1>4 DEF own1, Put
    <3> QED BY <1>1, <1>8, <3>1
  <2>27. \A q \in E : own[q] # Null => Sz(g.mem, q) = Sz(m, q)
    BY <1>9, <2>8, <2>17, <2>26 DEF Frame
  <2>28. \A q \in E : own[q] \notin {Null, v} =>
              /\ Nx(g.mem, q) = Nx(m, q)
              /\ \A a \in q .. q + Sz(m, q) - 1 : g.mem[a].data = m[a].data
    BY <1>9, <2>8, <2>17, <2>26 DEF Frame
  <2>29. Kept(m, g.mem, E, own, hd, F, o, Put(hd1, v, p), v, Of(E, own, v))
    <3>1. \A q \in Of(E, own, v) : Sz(g.mem, q) = Sz(m, q)
      BY <2>27, <1>4 DEF Of
    <3>2. \A x \in Values \ {v} : \A q \in Of(E, own, x) :
              /\ Sz(g.mem, q) = Sz(m, q) /\ Nx(g.mem, q) = Nx(m, q)
              /\ \A a \in q .. q + Sz(m, q) - 1 : g.mem[a].data = m[a].data
      BY <2>27, <2>28, NullNoValue DEF Of
    <3> QED BY <3>1, <3>2, <2>23, <2>25 DEF Kept
  <2>30. FreeTaken(E, own, F, o, p, Splits(h, A))
    BY <1>11 DEF FreeTaken
  <2>31. p \in FreeIn(E, own) /\ Sz(g.mem, p) + 2 = he.size /\ g.size_used = h.size_used
    BY <1>1, <1>3, <1>7, <1>11, <2>8, <2>10, <2>17 DEF FreeIn, he
  <2> QED BY <1>2, <1>6, <1>7, <2>18, <2>22, <2>25, <2>29, <2>30, <2>31 DEF g, he, z, Took
<1> QED BY <1>10, <1>11

----------------------------------------------------------------------------
(* The lists as sequences *)

\* A function of the naturals up to N is defined by its first value and by how
\* each value follows from the one before.
LEMMA Iterate ==
    ASSUME NEW S, NEW a \in S, NEW N \in Nat, NEW G \in [1 .. N -> [S -> S]]
    PROVE  \E f \in [0 .. N -> S] : f[0] = a /\ \A i \in 1 .. N : f[i] = G[i][f[i - 1]]
<1> DEFINE Good(n, f) == /\ f \in [0 .. n -> S] /\ f[0] = a
                         /\ \A i \in 1 .. n : f[i] = G[i][f[i - 1]]
           T == {n \in Nat : n <= N /\ ~ \E f : Good(n, f)}
<1>1. SUFFICES T = {}
  <2>1. N \notin T
    BY <1>1
  <2> QED BY <2>1
<1>2. SUFFICES ASSUME T # {} PROVE FALSE
  OBVIOUS
<1>3. PICK n \in T : \A k \in T : n <= k
  <2> HIDE DEF T
  <2>1. T \in SUBSET Nat
    BY DEF T
  <2> QED BY <2>1, <1>2, Least
<1>4. n \in Nat /\ n <= N /\ ~ \E f : Good(n, f)
  OBVIOUS
<1>5. n # 0
  <2>1. Good(0, [i \in 0 .. 0 |-> a])
    OBVIOUS
  <2> QED BY <2>1, <1>4
<1>6. n - 1 \notin T /\ n - 1 \in Nat /\ n - 1 <= N
  <2> HIDE DEF T
  <2> QED BY <1>3, <1>4, <1>5
<1>7. PICK f : Good(n - 1, f)
  BY <1>6
<1>8. PICK g : g = [i \in 0 .. n |-> IF i = n THEN G[n][f[n - 1]] ELSE f[i]]
  OBVIOUS
<1>9. f[n - 1] \in S /\ n \in 1 .. N
  BY <1>4, <1>5, <1>6, <1>7
<1>10. G[n][f[n - 1]] \in S
  BY <1>9
<1>11. g \in [0 .. n -> S] /\ g[0] = a
  BY <1>4, <1>5, <1>7, <1>8, <1>10
<1>12. \A i \in 1 .. n : g[i] = G[i][g[i - 1]]
  <2> SUFFICES ASSUME NEW i \in 1 .. n PROVE g[i] = G[i][g[i - 1]]
    OBVIOUS
  <2>1. i - 1 \in 0 .. n /\ i - 1 # n /\ i \in 0 .. n
    BY <1>4
  <2>2. g[i - 1] = f[i - 1]
    BY <1>8, <2>1
  <2>3. CASE i = n
    BY <1>8, <2>1, <2>2, <2>3
  <2>4. CASE i # n
    BY <1>4, <1>7, <1>8, <2>1, <2>2, <2>4
  <2> QED BY <2>3, <2>4
<1> QED BY <1>4, <1>11, <1>12

\* EXTENTS_FOREACH never leaves the list.
Walk(m, at, D, fst) ==
    /\ at \in [1 .. MaxExtents -> D \cup {Null}]
    /\ at[1] = fst
    /\ \A i \in 2 .. MaxExtents :
         at[i] = IF at[i - 1] = Null THEN Null ELSE Nx(m, at[i - 1])

LEMMA MaxIsNat == MaxExtents \in Nat /\ MaxExtents > 1 /\ MaxExtents = new_size + 1
BY Layout DEF MaxExtents

LEMMA ChainWalks ==
    ASSUME NEW h, NEW D, Null \notin D, NEW fst \in D \cup {Null},
           \A q \in D : Nx(h.mem, q) \in D \cup {Null}
    PROVE  Walk(h.mem, Chain(h, fst), D, fst)
<1> DEFINE m == h.mem
           S == D \cup {Null}
           N == MaxExtents - 1
           G == [i \in 1 .. N |-> [q \in S |-> IF q = Null THEN Null ELSE Nx(m, q)]]
           Eqn(at) == at = [i \in 1 .. MaxExtents |->
                          IF i = 1 THEN fst
                          ELSE LET ptr == at[i - 1]
                               IN  IF ptr = Null THEN Null ELSE NextExt(h, ptr)]
           at == Chain(h, fst)
<1>1. N \in Nat /\ G \in [1 .. N -> [S -> S]] /\ MaxExtents \in Nat /\ MaxExtents > 1
  BY MaxIsNat
<1>2. PICK f \in [0 .. N -> S] : f[0] = fst /\ \A i \in 1 .. N : f[i] = G[i][f[i - 1]]
  <2> HIDE DEF G, N, S
  <2>1. fst \in S
    BY DEF S
  <2> QED BY <1>1, <2>1, Iterate
<1>3. \A q : NextExt(h, q) = Nx(m, q)
  BY DEF NextExt, Nx, HeaderOf, HEADER_SIZE
<1>4. \E g : Eqn(g)
  <2>1. PICK g : g = [i \in 1 .. MaxExtents |-> f[i - 1]]
    OBVIOUS
  <2>2. \A i \in 1 .. MaxExtents : g[i] = IF i = 1 THEN fst
                          ELSE LET ptr == g[i - 1]
                               IN  IF ptr = Null THEN Null ELSE NextExt(h, ptr)
    <3> SUFFICES ASSUME NEW i \in 1 .. MaxExtents
                 PROVE  g[i] = IF i = 1 THEN fst
                               ELSE IF g[i - 1] = Null THEN Null ELSE NextExt(h, g[i - 1])
      OBVIOUS
    <3>1. CASE i = 1
      BY <1>1, <1>2, <2>1, <3>1
    <3>2. CASE i # 1
      <4>1. i - 1 \in 1 .. N /\ i - 1 \in 1 .. MaxExtents /\ (i - 1) - 1 \in 0 .. N
        BY <1>1, <3>2
      <4>2. g[i] = f[i - 1] /\ g[i - 1] = f[(i - 1) - 1]
        BY <2>1, <4>1
      <4>3. f[i - 1] = G[i - 1][f[(i - 1) - 1]] /\ f[(i - 1) - 1] \in S
        BY <1>2, <4>1
      <4>4. f[i - 1] = IF f[(i - 1) - 1] = Null THEN Null ELSE Nx(m, f[(i - 1) - 1])
        BY <4>1, <4>3
      <4> QED BY <1>3, <3>2, <4>2, <4>4
    <3> QED BY <3>1, <3>2
  <2>3. g = [i \in 1 .. MaxExtents |-> g[i]]
    BY <2>1
  <2>4. Eqn(g)
    BY <2>2, <2>3, Zenon
  <2> HIDE DEF Eqn
  <2> QED BY <2>4
<1>5. at = CHOOSE g : Eqn(g)
  BY DEF Chain
<1>6. Eqn(at)
  BY <1>4, <1>5
<1> HIDE DEF at
<1>7. at[1] = fst /\ at = [i \in 1 .. MaxExtents |-> at[i]]
  BY <1>1, <1>6
<1>8. \A i \in 2 .. MaxExtents : at[i] = IF at[i - 1] = Null THEN Null ELSE Nx(m, at[i - 1])
  BY <1>1, <1>3, <1>6
<1>9. \A i \in 1 .. MaxExtents : at[i] \in S
  <2> DEFINE T == {i \in Nat : i \in 1 .. MaxExtents /\ at[i] \notin S}
  <2>1. SUFFICES ASSUME T # {} PROVE FALSE
    BY <1>1
  <2>2. PICK i \in T : \A j \in T : i <= j
    <3> HIDE DEF T
    <3>1. T \in SUBSET Nat
      BY DEF T
    <3> QED BY <3>1, <2>1, Least
  <2>3. i # 1
    BY <1>7
  <2>4. i \in 2 .. MaxExtents /\ i - 1 \in 1 .. MaxExtents /\ i - 1 \notin T /\ i - 1 \in Nat
    BY <1>1, <2>2, <2>3
  <2>5. at[i - 1] \in S
    BY <2>4
  <2> QED BY <1>8, <2>4, <2>5
<1> QED BY <1>7, <1>8, <1>9 DEF Walk, at

LEMMA WalkDescends ==
    ASSUME NEW m, NEW at, NEW D, NEW fst, Walk(m, at, D, fst), Null \notin D,
           NEW rank, \A q \in D : rank[q] \in Nat,
           \A q \in D : Nx(m, q) # Null => rank[Nx(m, q)] < rank[q]
    PROVE  \A i, j \in 1 .. MaxExtents :
               i < j /\ at[j] # Null => at[i] # Null /\ rank[at[j]] < rank[at[i]]
<1> SUFFICES ASSUME NEW i \in 1 .. MaxExtents
             PROVE  \A j \in 1 .. MaxExtents : i < j /\ at[j] # Null =>
                        at[i] # Null /\ rank[at[j]] < rank[at[i]]
  OBVIOUS
<1> DEFINE Fine(j) == at[j] # Null => at[i] # Null /\ rank[at[j]] < rank[at[i]]
           T == {j \in Nat : j \in 1 .. MaxExtents /\ i < j /\ ~Fine(j)}
<1>1. SUFFICES ASSUME T # {} PROVE FALSE
  BY MaxIsNat
<1>2. PICK j \in T : \A k \in T : j <= k
  <2> HIDE DEF T
  <2>1. T \in SUBSET Nat
    BY DEF T
  <2> QED BY <2>1, <1>1, Least
<1>3. j \in 2 .. MaxExtents /\ j \in Nat /\ i < j /\ ~Fine(j) /\ j - 1 \in 1 .. MaxExtents
      /\ i \in Nat
  BY MaxIsNat
<1>4. at[j] # Null /\ at[j] \in D /\ at[j - 1] # Null /\ at[j - 1] \in D /\ at[j] = Nx(m, at[j - 1])
  BY <1>3 DEF Walk
<1>5. rank[at[j]] < rank[at[j - 1]]
  BY <1>4
<1>6. i # j - 1
  BY <1>3, <1>4, <1>5
<1>7. j - 1 \notin T /\ i < j - 1
  <2> HIDE DEF T
  <2> QED BY <1>2, <1>3, <1>6
<1>8. Fine(j - 1)
  BY <1>3, <1>7
<1>9. at[i] # Null /\ at[i] \in D
  BY <1>4, <1>8 DEF Walk
<1>10. rank[at[j]] \in Nat /\ rank[at[j - 1]] \in Nat /\ rank[at[i]] \in Nat
  BY <1>4, <1>9
<1> QED BY <1>3, <1>4, <1>5, <1>8, <1>9, <1>10

\* s is the list with the extents of D, from fst on.
Enumerates(m, s, D, fst) ==
    /\ Len(s) \in Nat /\ DOMAIN s = 1 .. Len(s)
    /\ \A i \in 1 .. Len(s) : /\ s[i] = [ptr |-> s[i].ptr, size |-> Sz(m, s[i].ptr)]
                              /\ s[i].ptr \in D
    /\ \A i, j \in 1 .. Len(s) : s[i].ptr = s[j].ptr => i = j
    /\ \A p \in D : \E i \in 1 .. Len(s) : s[i].ptr = p
    /\ Len(s) > 0 => s[1].ptr = fst
    /\ \A i \in 1 .. Len(s) : i + 1 <= Len(s) => s[i + 1].ptr = Nx(m, s[i].ptr)

LEMMA ExtentsEnumerate ==
    ASSUME NEW h, NEW E, NEW own, NEW rank, NEW top, NEW hd, NEW cut, NEW lo, NEW hi,
           HeapOk(h, E, own, rank, top, hd, cut, lo, hi),
           NEW x \in Lists
    PROVE  Enumerates(h.mem, Extents(h, hd[x]), Of(E, own, x), hd[x])
<1> DEFINE m == h.mem
           D == Of(E, own, x)
           at == Chain(h, hd[x])
           M == MaxExtents
           IsLen(n) == /\ n > 0 => at[n] # Null
                       /\ n < MaxExtents => at[n + 1] = Null
           s == Extents(h, hd[x])
<1>1. Tiles(m, E, lo, hi) /\ Links(m, E, own, rank, top, hd, cut)
  BY DEF HeapOk
<1>2. E \subseteq Nat /\ Null \notin E /\ D \subseteq E /\ rank \in [Nat -> Nat] /\ top \in Nat
  BY <1>1, NullNoNumber DEF Links, Of
<1>3. hd[x] \in D \cup {Null}
  BY <1>1 DEF Links, Heads, Of
<1>4. \A q \in D : Nx(m, q) # Null => Nx(m, q) \in D /\ rank[Nx(m, q)] < rank[q]
  BY <1>1 DEF Links, Forward, Of
<1>5. Walk(m, at, D, hd[x])
  <2> HIDE DEF D
  <2> QED BY <1>2, <1>3, <1>4, ChainWalks
<1> HIDE DEF at
<1>6. \A i, j \in 1 .. M : i < j /\ at[j] # Null => at[i] # Null /\ rank[at[j]] < rank[at[i]]
  <2>1. \A q \in D : rank[q] \in Nat
    BY <1>2
  <2> HIDE DEF D
  <2> QED BY <2>1, <1>2, <1>4, <1>5, WalkDescends
<1>7. \A i \in 1 .. M : at[i] # Null => at[i] \in D /\ at[i] \in Nat /\ rank[at[i]] \in Nat
  BY <1>2, <1>5 DEF Walk
<1>8. \A i, j \in 1 .. M : at[i] # Null /\ at[i] = at[j] => i = j
  <2> SUFFICES ASSUME NEW i \in 1 .. M, NEW j \in 1 .. M, at[i] # Null, at[i] = at[j], i # j
               PROVE  FALSE
    OBVIOUS
  <2>1. i \in Int /\ j \in Int /\ rank[at[i]] \in Nat
    BY <1>7, MaxIsNat
  <2>2. i < j \/ j < i
    BY <2>1
  <2>3. rank[at[i]] < rank[at[i]]
    BY <1>6, <2>2
  <2> QED BY <2>1, <2>3
<1>9. at[M] = Null
  <2> SUFFICES ASSUME at[M] # Null PROVE FALSE
    OBVIOUS
  <2>1. \A i \in 1 .. M : at[i] # Null
    BY <1>6, MaxIsNat
  <2> DEFINE B == new_addr + 1 .. new_addr + new_size
  <2>2. \A p \in E : p \in B
    <3>1. \A p \in E : p \in Nat /\ Sz(m, p) \in Nat /\ new_addr < p
                       /\ p + Sz(m, p) < new_addr + new_size
      BY <1>1 DEF Tiles
    <3> QED BY <3>1, Layout
  <2>3. PICK f : f = [i \in 1 .. M |-> at[i]]
    OBVIOUS
  <2>4. f \in Injection(1 .. M, B)
    <3>1. f \in [1 .. M -> B]
      BY <1>2, <1>7, <2>1, <2>2, <2>3
    <3>2. \A i, j \in 1 .. M : f[i] = f[j] => i = j
      BY <1>8, <2>1, <2>3
    <3> HIDE DEF B
    <3> QED BY <3>1, <3>2 DEF Injection, IsInjective
  <2>5. IsFiniteSet(1 .. M) /\ Cardinality(1 .. M) = M
    BY MaxIsNat, FS_Interval
  <2>6. IsFiniteSet(B) /\ Cardinality(B) = new_size
    <3>1. new_addr + 1 \in Int /\ new_addr + new_size \in Int
      BY Layout
    <3>2. IsFiniteSet(B) /\ Cardinality(B) = IF new_addr + 1 > new_addr + new_size THEN 0
                                 ELSE (new_addr + new_size) - (new_addr + 1) + 1
      BY <3>1, FS_Interval
    <3> HIDE DEF B
    <3> QED BY <3>2, Layout
  <2> HIDE DEF B
  <2>7. Cardinality(1 .. M) <= Cardinality(B)
    BY <2>4, <2>5, <2>6, FS_Injection DEF ExistsInjection
  <2> QED BY <2>5, <2>6, <2>7, MaxIsNat, Layout
<1>10. PICK n \in Nat : /\ n + 1 \in 1 .. M /\ at[n + 1] = Null
                        /\ \A i \in 1 .. n : at[i] # Null
  <2> DEFINE T == {i \in Nat : i \in 1 .. M /\ at[i] = Null}
  <2>1. M \in T
    BY <1>9, MaxIsNat
  <2>2. PICK k \in T : \A j \in T : k <= j
    <3> HIDE DEF T
    <3>1. T \in SUBSET Nat
      BY DEF T
    <3> QED BY <2>1, <3>1, Least
  <2>3. PICK n \in Nat : k = n + 1
    <3>1. k - 1 \in Nat /\ k = (k - 1) + 1
      BY MaxIsNat
    <3> QED BY <3>1
  <2>4. \A i \in 1 .. n : i \notin T /\ i \in 1 .. M /\ i \in Nat
    <3>1. k \in Nat /\ k \in 1 .. M
      OBVIOUS
    <3> HIDE DEF T
    <3> QED BY <2>2, <2>3, <3>1, MaxIsNat
  <2>5. \A i \in 1 .. n : at[i] # Null
    BY <2>4
  <2> QED BY <2>3, <2>5
<1>11. n \in 0 .. M /\ IsLen(n)
  BY <1>10, MaxIsNat
<1>12. \A j \in 0 .. M : IsLen(j) => j = n
  <2> SUFFICES ASSUME NEW j \in 0 .. M, IsLen(j), j # n PROVE FALSE
    OBVIOUS
  <2>1. j \in Int /\ M \in Nat
    BY MaxIsNat
  <2>2. CASE j < n
    BY <1>10, <2>1, <2>2
  <2>3. CASE j > n
    <3>1. j > 0 /\ at[j] # Null /\ j \in 1 .. M
      BY <2>1, <2>3
    <3>2. n + 1 = j \/ n + 1 < j
      BY <2>1, <2>3
    <3> QED BY <1>6, <1>10, <3>1, <3>2
  <2> QED BY <2>1, <2>2, <2>3
<1>13. n = CHOOSE j \in 0 .. M : IsLen(j)
  <2> HIDE DEF IsLen, M
  <2> QED BY <1>11, <1>12
<1>14. s = [i \in 1 .. n |-> [ptr |-> at[i], size |-> Sz(m, at[i])]]
  <2>1. \A p : Size(h, p) = Sz(m, p)
    BY DEF Size, Sz, HeaderOf, HEADER_SIZE
  <2>2. s = [i \in 1 .. n |-> [ptr |-> at[i], size |-> Size(h, at[i])]]
    BY <1>13 DEF Extents, at
  <2> HIDE DEF s
  <2> QED BY <2>1, <2>2
<1> HIDE DEF s, D
<1>15. Len(s) = n /\ DOMAIN s = 1 .. Len(s)
  BY <1>14
<1>16. \A i \in 1 .. n : i \in 1 .. M /\ s[i].ptr = at[i] /\ s[i].ptr \in D
                         /\ s[i] = [ptr |-> s[i].ptr, size |-> Sz(m, s[i].ptr)]
  <2>1. \A i \in 1 .. n : i \in 1 .. M
    BY <1>11, MaxIsNat
  <2>2. \A i \in 1 .. n : s[i] = [ptr |-> at[i], size |-> Sz(m, at[i])]
    BY <1>14
  <2>3. \A i \in 1 .. n : at[i] \in D
    BY <1>7, <1>10, <2>1
  <2>4. \A i \in 1 .. n : s[i].ptr = at[i]
    <3> SUFFICES ASSUME NEW i \in 1 .. n PROVE s[i].ptr = at[i]
      OBVIOUS
    <3>1. s[i] = [ptr |-> at[i], size |-> Sz(m, at[i])]
      BY <2>2
    <3>2. [ptr |-> at[i], size |-> Sz(m, at[i])].ptr = at[i]
      OBVIOUS
    <3> QED BY <3>1, <3>2
  <2> QED BY <2>1, <2>2, <2>3, <2>4
<1>17. \A i, j \in 1 .. n : s[i].ptr = s[j].ptr => i = j
  BY <1>8, <1>10, <1>16
<1>18. \A i \in 1 .. n : i + 1 <= n => s[i + 1].ptr = Nx(m, s[i].ptr)
  <2> SUFFICES ASSUME NEW i \in 1 .. n, i + 1 <= n PROVE s[i + 1].ptr = Nx(m, s[i].ptr)
    OBVIOUS
  <2>1. i + 1 \in 2 .. M /\ i + 1 \in 1 .. n /\ (i + 1) - 1 = i /\ i \in 1 .. M
    BY <1>11, MaxIsNat
  <2>2. at[i + 1] = IF at[i] = Null THEN Null ELSE Nx(m, at[i])
    BY <1>5, <2>1 DEF Walk
  <2> QED BY <1>10, <1>16, <2>1, <2>2
<1>19. n > 0 => s[1].ptr = hd[x]
  <2>1. at[1] = hd[x]
    BY <1>5 DEF Walk
  <2>2. n > 0 => 1 \in 1 .. n
    OBVIOUS
  <2> QED BY <1>16, <2>1, <2>2
<1>20. \A p \in D : \E i \in 1 .. n : s[i].ptr = p
  <2> DEFINE Out(p) == p \in D /\ ~ \E i \in 1 .. n : s[i].ptr = p
             T == {j \in Nat : \E p \in D : Out(p) /\ top = rank[p] + j}
  <2>1. \A p \in D : /\ p \in E /\ own[p] = x /\ rank[p] \in Nat
                     /\ top - rank[p] \in Nat /\ top = rank[p] + (top - rank[p])
    BY <1>1, <1>2 DEF Links, D, Of
  <2>2. SUFFICES ASSUME T # {} PROVE FALSE
    BY <2>1
  <2>3. PICK j \in T : \A k \in T : j <= k
    <3> HIDE DEF T
    <3>1. T \in SUBSET Nat
      BY DEF T
    <3> QED BY <2>2, <3>1, Least
  <2>4. PICK p \in D : Out(p) /\ top = rank[p] + j
    OBVIOUS
  <2>5. p # hd[x]
    <3> SUFFICES ASSUME p = hd[x] PROVE FALSE
      OBVIOUS
    <3>1. at[1] = p /\ p # Null
      BY <1>2, <1>5, <2>1 DEF Walk
    <3>2. n > 0
      BY <1>10, <3>1
    <3> QED BY <1>19, <2>4, <3>2
  <2>6. Pv(m, p) \in E /\ Nx(m, Pv(m, p)) = p
    BY <1>1, <2>1, <2>5 DEF Links, Backward
  <2>7. p # Null
    BY <1>2, <2>1
  <2>8. own[Pv(m, p)] = x /\ rank[p] < rank[Pv(m, p)]
    BY <1>1, <2>1, <2>6, <2>7 DEF Links, Forward
  <2>9. Pv(m, p) \in D
    BY <2>6, <2>8 DEF D, Of
  <2>10. PICK q \in D : q = Pv(m, p) /\ Nx(m, q) = p /\ rank[p] < rank[q]
    BY <2>6, <2>8, <2>9
  <2>11. top - rank[q] \notin T
    <3>1. j \in Nat /\ rank[p] \in Nat /\ rank[q] \in Nat /\ ~(j <= top - rank[q])
      BY <1>2, <2>1, <2>4, <2>10
    <3> HIDE DEF T
    <3> QED BY <2>3, <3>1
  <2>12. ~Out(q)
    BY <2>1, <2>11
  <2>13. PICK i \in 1 .. n : s[i].ptr = q
    BY <2>12
  <2>14. at[i] = q /\ q # Null
    BY <1>2, <1>16, <2>1, <2>13
  <2>15. i + 1 \in 2 .. M /\ (i + 1) - 1 = i
    BY <1>10, MaxIsNat
  <2>16. at[i + 1] = p
    BY <1>5, <2>10, <2>14, <2>15 DEF Walk
  <2>17. i + 1 \in 1 .. n
    BY <1>10, <2>7, <2>16
  <2> QED BY <1>16, <2>4, <2>16, <2>17
<1> QED BY <1>15, <1>16, <1>17, <1>18, <1>19, <1>20 DEF Enumerates, s, D

----------------------------------------------------------------------------
(* The bytes in a set of extents *)

Cover(m, X) == UNION {p .. p + Sz(m, p) - 1 : p \in X}
Weight(m, X) == Cardinality(Cover(m, X))

LEMMA CoverIn == \A m, X, a : a \in Cover(m, X) <=> \E p \in X : a \in p .. p + Sz(m, p) - 1
BY DEF Cover

LEMMA CoverFinite ==
    ASSUME NEW m, NEW E, NEW lo, NEW hi, Tiles(m, E, lo, hi), NEW X \in SUBSET E
    PROVE  /\ IsFiniteSet(Cover(m, X)) /\ Cover(m, X) \subseteq Pool
           /\ Weight(m, X) \in Nat /\ Weight(m, X) <= new_size
<1>1. \A p \in X : /\ p \in Nat /\ Sz(m, p) \in Nat
                   /\ new_addr < p /\ p + Sz(m, p) < new_addr + new_size
  BY DEF Tiles
<1>2. Cover(m, X) \subseteq Pool
  <2> SUFFICES ASSUME NEW p \in X, NEW a \in p .. p + Sz(m, p) - 1 PROVE a \in Pool
    BY CoverIn
  <2> QED BY <1>1, Layout DEF Pool
<1>3. IsFiniteSet(Pool) /\ Cardinality(Pool) = new_size
  <2>1. new_addr \in Int /\ new_addr + new_size - 1 \in Int
    BY Layout
  <2>2. /\ IsFiniteSet(Pool)
        /\ Cardinality(Pool) = IF new_addr > new_addr + new_size - 1 THEN 0
                               ELSE (new_addr + new_size - 1) - new_addr + 1
    BY <2>1, FS_Interval DEF Pool
  <2> QED BY <2>2, Layout
<1>4. IsFiniteSet(Cover(m, X)) /\ Weight(m, X) <= new_size
  BY <1>2, <1>3, FS_Subset DEF Weight
<1>5. Weight(m, X) \in Nat
  BY <1>4, FS_CardinalityType DEF Weight
<1> QED BY <1>2, <1>4, <1>5

LEMMA WeightEmpty == \A m : Weight(m, {}) = 0
<1>1. \A m : Cover(m, {}) = {}
  BY DEF Cover
<1>2. Cardinality({}) = 0
  BY FS_EmptySet
<1> QED BY <1>1, <1>2 DEF Weight

LEMMA WeightSame ==
    ASSUME NEW m, NEW n, NEW X, \A q \in X : Sz(n, q) = Sz(m, q)
    PROVE  Cover(n, X) = Cover(m, X) /\ Weight(n, X) = Weight(m, X)
<1>1. \A a : a \in Cover(n, X) <=> a \in Cover(m, X)
  BY CoverIn
<1>2. Cover(n, X) = Cover(m, X)
  BY <1>1
<1> QED BY <1>2 DEF Weight

LEMMA WeightSubset ==
    ASSUME NEW m, NEW E, NEW lo, NEW hi, Tiles(m, E, lo, hi),
           NEW Y \in SUBSET E, NEW X \in SUBSET Y
    PROVE  Weight(m, X) <= Weight(m, Y)
<1>1. Cover(m, X) \subseteq Cover(m, Y)
  BY CoverIn
<1>2. IsFiniteSet(Cover(m, Y))
  BY CoverFinite
<1> QED BY <1>1, <1>2, FS_Subset DEF Weight

LEMMA WeightAdd ==
    ASSUME NEW m, NEW E, NEW lo, NEW hi, Tiles(m, E, lo, hi),
           NEW X \in SUBSET E, NEW p \in E, p \notin X
    PROVE  Weight(m, X \cup {p}) = Weight(m, X) + Sz(m, p)
<1> DEFINE I == p .. p + Sz(m, p) - 1
           C == Cover(m, X)
<1>1. PICK z \in Nat : z = Sz(m, p)
  BY DEF Tiles
<1>2. p \in Nat
  BY DEF Tiles
<1>3. Cover(m, X \cup {p}) = C \cup I
  <2>1. \A a : a \in Cover(m, X \cup {p}) <=> a \in C \/ a \in I
    BY CoverIn
  <2> QED BY <2>1
<1>4. C \cap I = {}
  <2> SUFFICES ASSUME NEW a \in C, a \in I PROVE FALSE
    OBVIOUS
  <2>1. PICK q \in X : a \in q .. q + Sz(m, q) - 1
    BY CoverIn
  <2>2. q \in Nat /\ Sz(m, q) \in Nat /\ q # p
    BY DEF Tiles
  <2>3. (q < p => q + Sz(m, q) + 2 <= p) /\ (p < q => p + Sz(m, p) + 2 <= q)
    BY DEF Tiles
  <2> QED BY <1>1, <1>2, <2>1, <2>2, <2>3
<1>5. IsFiniteSet(I) /\ Cardinality(I) = z
  <2>1. p \in Int /\ p + z - 1 \in Int
    BY <1>2
  <2>2. IsFiniteSet(p .. p + z - 1)
        /\ Cardinality(p .. p + z - 1) = IF p > p + z - 1 THEN 0 ELSE (p + z - 1) - p + 1
    BY <2>1, FS_Interval
  <2>3. (IF p > p + z - 1 THEN 0 ELSE (p + z - 1) - p + 1) = z
    BY <1>2
  <2> QED BY <1>1, <2>2, <2>3
<1>6. IsFiniteSet(C) /\ Weight(m, X) \in Nat
  BY CoverFinite
<1> HIDE DEF I, C
<1>7. Cardinality(C \cup I) = Cardinality(C) + Cardinality(I) - Cardinality(C \cap I)
  BY <1>5, <1>6, FS_Union
<1>8. Cardinality(C \cap I) = 0
  BY <1>4, FS_EmptySet
<1>9. Cardinality(C) = Weight(m, X) /\ Cardinality(C \cup I) = Weight(m, X \cup {p})
  BY <1>3 DEF Weight, C
<1> QED BY <1>1, <1>5, <1>6, <1>7, <1>8, <1>9

LEMMA WeightRemove ==
    ASSUME NEW m, NEW E, NEW lo, NEW hi, Tiles(m, E, lo, hi),
           NEW X \in SUBSET E, NEW p \in X
    PROVE  /\ Sz(m, p) \in Nat /\ Weight(m, X \ {p}) \in Nat
           /\ Weight(m, X) = Weight(m, X \ {p}) + Sz(m, p)
<1>1. X \ {p} \in SUBSET E /\ p \in E /\ p \notin X \ {p} /\ (X \ {p}) \cup {p} = X
  OBVIOUS
<1>2. Weight(m, (X \ {p}) \cup {p}) = Weight(m, X \ {p}) + Sz(m, p)
  BY <1>1, WeightAdd
<1>3. Sz(m, p) \in Nat
  BY <1>1 DEF Tiles
<1>4. Weight(m, X \ {p}) \in Nat
  BY <1>1, CoverFinite
<1> QED BY <1>1, <1>2, <1>3, <1>4

----------------------------------------------------------------------------
(* How much too much an iteration of vmcache_alloc takes *)

\* An entry that is no whole number of extents is the last one, and the rest of
\* the pool is what it has over a whole number of extents.
LEMMA LastEntry ==
    ASSUME NEW m, NEW E, NEW lo, NEW hi, Tiles(m, E, lo, hi), Aligned(m, E), NEW p \in E,
           ~Mult(Sz(m, p) + 2)
    PROVE  /\ p + Sz(m, p) + 1 = new_addr + new_size
           /\ \E r \in 1 .. extent_size - 1 :
                r = new_size % extent_size /\ Mult(Sz(m, p) + 2 - r)
<1>1. p \in Nat /\ Sz(m, p) \in Nat /\ new_addr \in Nat /\ new_size \in Nat
  BY Layout DEF Tiles
<1>2. p + Sz(m, p) + 1 = new_addr + new_size
  BY DEF Aligned
<1>3. PICK d \in Int : d = p - 1 - new_addr
  BY <1>1
<1>4. Mult(d)
  BY <1>3 DEF Aligned
<1>5. PICK r \in 0 .. extent_size - 1 : r = new_size % extent_size /\ Mult(new_size - r)
  BY Rest
<1>6. new_size - r \in Int
  BY <1>1, <1>5, ExtentSize
<1>7. Mult((new_size - r) - d)
  BY <1>4, <1>5, <1>6, MultSum
<1>8. (new_size - r) - d = Sz(m, p) + 2 - r
  BY <1>1, <1>2, <1>3, <1>5, ExtentSize
<1>9. r # 0
  <2> SUFFICES ASSUME r = 0 PROVE FALSE
    OBVIOUS
  <2>1. Sz(m, p) + 2 - r = Sz(m, p) + 2
    BY <1>1
  <2> QED BY <1>7, <1>8, <2>1
<1>10. r \in 1 .. extent_size - 1
  BY <1>9, ExtentSize
<1> QED BY <1>2, <1>5, <1>7, <1>8, <1>10

\* An entry that is not alone in the pool has room for an extent of the
\* smallest size.
LEMMA NotAlone ==
    ASSUME NEW m, NEW E, NEW lo, NEW hi, Tiles(m, E, lo, hi), Aligned(m, E),
           NEW p \in E, NEW q \in E, p # q
    PROVE  Sz(m, p) >= extent_size - 2
<1>1. /\ p \in Nat /\ Sz(m, p) \in Nat /\ q \in Nat /\ Sz(m, q) \in Nat
      /\ new_addr < p /\ new_addr < q
      /\ p + Sz(m, p) < new_addr + new_size /\ q + Sz(m, q) < new_addr + new_size
      /\ (p < q => p + Sz(m, p) + 2 <= q) /\ (q < p => q + Sz(m, q) + 2 <= p)
  BY DEF Tiles
<1>2. Sz(m, p) + 2 # new_size
  BY <1>1, Layout
<1>3. Sz(m, p) + 2 >= extent_size
  BY <1>2 DEF Aligned
<1> QED BY <1>1, <1>3, ExtentSize

\* The extent p is the last one that is needed: it brings no more than the
\* round-up and, if it is the last entry, the rest of the pool.  What is too much
\* is less than p itself and less than two extents of which one is not of the
\* smallest size; it is less than two extents with their tags.  If the rest fits,
\* it is less than any one extent that is not of the smallest size, and less than
\* two of the smallest size.
LEMMA Excess ==
    ASSUME NEW m, NEW E, NEW lo, NEW hi, Tiles(m, E, lo, hi), Aligned(m, E),
           NEW p \in E, NEW to \in Nat, to > 0, NEW A, A = AlignUp(to + 2, extent_size),
           Sz(m, p) + 2 = A \/ Sz(m, p) + 2 < A + extent_size, to <= Sz(m, p)
    PROVE  /\ Sz(m, p) < to + Sz(m, p)
           /\ Sz(m, p) < to + 2 * extent_size
           /\ \A q1, q2 \in E \ {p} : Sz(m, q1) # extent_size - 2
                 => Sz(m, p) < to + Sz(m, q1) + Sz(m, q2)
           /\ RestFits =>
                /\ \A q \in E \ {p} : Sz(m, q) # extent_size - 2 => Sz(m, p) < to + Sz(m, q)
                /\ Sz(m, p) < to + 2 * (extent_size - 2)
<1>1. PICK es \in Nat : es = extent_size /\ es >= 6
  BY ExtentSize
<1>2. PICK z \in Nat : z = Sz(m, p)
  BY DEF Tiles
<1>3. A \in Int /\ Mult(A) /\ to + 2 <= A /\ A < to + 2 + es
  <2>1. to + 2 \in Nat
    OBVIOUS
  <2> QED BY <1>1, <2>1, RoundUp
<1>4. z + 2 = A \/ z + 2 < A + es
  BY <1>1, <1>2
<1>5. \A q \in E : q \in Nat /\ Sz(m, q) \in Nat
  BY DEF Tiles
<1>6. \A q \in E \ {p} : Sz(m, q) >= es - 2
  BY <1>1, NotAlone
<1>7. ASSUME NEW b \in Int, Mult(b), b < A + es PROVE b <= A
  <2>1. PICK a \in Int : a = A
    BY <1>3
  <2>2. Mult(a) /\ Mult(es)
    BY <1>1, <1>3, <2>1, MultZero
  <2>3. Mult(a + es) /\ a + es \in Int
    BY <2>2, MultSum
  <2>4. PICK d \in Int : d = (a + es) - b /\ Mult(d)
    BY <1>7, <2>3, MultSum
  <2>5. d > 0 => d >= es
    BY <1>1, <2>4, MultLeast
  <2> QED BY <1>1, <1>7, <2>1, <2>4, <2>5
<1>8. ASSUME NEW y \in Nat, Mult(y + 2), y >= es - 2, y # es - 2 PROVE y >= 2 * es - 2
  <2>1. Mult(es) /\ y + 2 \in Int
    BY <1>1, MultZero
  <2>2. PICK d \in Int : d = (y + 2) - es /\ Mult(d)
    BY <1>8, <2>1, MultSum
  <2>3. d > 0 => d >= es
    BY <1>1, <2>2, MultLeast
  <2> QED BY <1>1, <1>8, <2>2, <2>3
<1>9. RestFits => \/ new_size % es = 0
                  \/ new_size % es \in 2 .. es - 4
  BY <1>1 DEF RestFits, HFER_SIZE, HEADER_SIZE, FOOTER_SIZE
<1>10. CASE Mult(z + 2)
  <2>1. z + 2 \in Int /\ z + 2 < A + es
    BY <1>1, <1>3, <1>4
  <2>2. z <= to + es - 1
    BY <1>1, <1>3, <1>7, <1>10, <2>1
  <2>3. ASSUME NEW q1 \in E \ {p}, NEW q2 \in E \ {p} PROVE z < to + Sz(m, q1) + Sz(m, q2)
    BY <1>1, <1>5, <1>6, <2>2
  <2>4. ASSUME RestFits, NEW q \in E \ {p}, Sz(m, q) # es - 2 PROVE z < to + Sz(m, q)
    <3>1. PICK y \in Nat : y = Sz(m, q) /\ y >= es - 2 /\ y # es - 2
      BY <1>5, <1>6, <2>4
    <3>2. CASE Mult(y + 2)
      BY <1>1, <1>8, <2>2, <3>1, <3>2
    <3>3. CASE ~Mult(y + 2)
      <4>1. PICK r \in 1 .. es - 1 : r = new_size % es /\ Mult(y + 2 - r)
        BY <1>1, <3>1, <3>3, LastEntry
      <4>2. PICK d \in Int : d = y + 2 - r /\ Mult(d)
        BY <1>1, <4>1
      <4>3. d > 0 => d >= es
        BY <1>1, <4>2, MultLeast
      <4>4. r >= 2
        BY <1>1, <1>9, <2>4, <4>1
      <4> QED BY <1>1, <2>2, <3>1, <4>1, <4>2, <4>3, <4>4
    <3> QED BY <3>1, <3>2, <3>3
  <2> QED BY <1>1, <1>2, <2>2, <2>3, <2>4
<1>11. CASE ~Mult(z + 2)
  <2>1. z + 2 < A + es
    BY <1>3, <1>4, <1>11
  <2>2. PICK r \in 1 .. es - 1 :
          r = new_size % es /\ Mult(z + 2 - r) /\ p + z + 1 = new_addr + new_size
    BY <1>1, <1>2, <1>11, LastEntry
  <2>3. z + 2 - r \in Int /\ z + 2 - r < A + es
    BY <1>1, <1>3, <2>1
  <2>4. z + 2 - r <= A
    BY <1>7, <2>2, <2>3
  <2>5. z <= to + es - 1 + r
    BY <1>1, <1>3, <2>4
  <2>6. ASSUME NEW q \in E \ {p}, Sz(m, q) # es - 2 PROVE Sz(m, q) >= 2 * es - 2
    <3>1. PICK y \in Nat : y = Sz(m, q) /\ y >= es - 2 /\ y # es - 2
      BY <1>5, <1>6, <2>6
    <3>2. q + y + 1 # new_addr + new_size
      <4>1. /\ p \in Nat /\ q \in Nat /\ q # p
            /\ (p < q => p + z + 2 <= q) /\ (q < p => q + y + 2 <= p)
        BY <1>2, <3>1 DEF Tiles
      <4> QED BY <2>2, <4>1, Layout
    <3>3. Mult(y + 2)
      BY <3>1, <3>2 DEF Aligned
    <3> QED BY <1>8, <3>1, <3>3
  <2>7. ASSUME NEW q1 \in E \ {p}, NEW q2 \in E \ {p}, Sz(m, q1) # es - 2
        PROVE  z < to + Sz(m, q1) + Sz(m, q2)
    <3>1. Sz(m, q1) >= 2 * es - 2 /\ Sz(m, q2) >= es - 2
      BY <1>6, <2>6, <2>7
    <3> QED BY <1>1, <1>5, <2>2, <2>5, <3>1
  <2>8. RestFits => z <= to + 2 * es - 5
    BY <1>1, <1>9, <2>2, <2>5
  <2>9. ASSUME RestFits, NEW q \in E \ {p}, Sz(m, q) # es - 2 PROVE z < to + Sz(m, q)
    BY <1>1, <1>5, <2>6, <2>8, <2>9
  <2> QED BY <1>1, <1>2, <2>2, <2>5, <2>7, <2>8, <2>9
<1> QED BY <1>10, <1>11

----------------------------------------------------------------------------
(* The inductive invariant *)

Labels == {"none", "alloc", "popping", "evict", "fill", "held", "free", "merging"}

TypeInv ==
    /\ lock \in Lists
    /\ pc \in [Values -> Labels]
    /\ vsize \in [Values -> Nat] /\ left \in [Values -> Nat]
    /\ first \in [Values -> PtrOrNull] /\ small \in [Values -> PtrOrNull]
    /\ loc \in [to_allocate : Nat, allocated : Nat, ext : PtrOrNull, freed : Nat]
    /\ \A v \in Values : lock = v <=> pc[v] \in {"popping", "merging"}

\* The values that are being freed, and where the lists start.
Cut == {v \in Values : pc[v] = "merging"}

HeadsNow ==
    [x \in Lists |-> IF x = Null THEN heap.first_extent
                     ELSE IF pc[x] = "merging" THEN loc.ext ELSE first[x]]

\* A value that still misses some bytes has room for the others in its extents
\* D; sm is one of the smallest size, if there is any.
Incomplete(m, D, size, missing, sm) ==
    /\ missing \in Nat /\ missing > 0 /\ Weight(m, D) + missing = size
    /\ sm = Null => \A p \in D : Sz(m, p) # extent_size - 2
    /\ sm # Null => sm \in D /\ Sz(m, sm) = extent_size - 2

\* A complete value needs all its extents, if the rest of the pool fits, and all
\* but one in any case.
Complete(m, D, size) ==
    /\ size <= Weight(m, D)
    /\ RestFits => \A p \in D : Weight(m, D) < size + Sz(m, p)
    /\ \A p, q \in D : p # q => Weight(m, D) < size + Sz(m, p) + Sz(m, q)

\* The extents hold the bytes of v, in the order of the list: base is what the
\* extents before hold.
Written(m, D, v, fst, size) ==
    \E base \in [Nat -> Nat] :
        /\ fst # Null => base[fst] = 0
        /\ \A p \in D :
             /\ Nx(m, p) # Null => base[Nx(m, p)] = base[p] + Sz(m, p)
             /\ \A a \in p .. p + Sz(m, p) - 1 :
                  base[p] + (a - p) < size => m[a].data = <<v, base[p] + (a - p) + 1>>

ValueOk(m, D, v, at, size, missing, sm, fst) ==
    /\ at = "none" => D = {}
    /\ at \in {"alloc", "evict"} \/ (at = "popping" /\ missing > 0)
         => Incomplete(m, D, size, missing, sm)
    /\ at \in {"fill", "held"} \/ (at = "popping" /\ missing = 0) => Complete(m, D, size)
    /\ at = "held" => Written(m, D, v, fst, size)

Missing(v) == IF pc[v] = "popping" THEN loc.to_allocate ELSE left[v]

ValueInv(v, E, own) ==
    ValueOk(heap.mem, Of(E, own, v), v, pc[v], vsize[v], Missing(v), small[v], first[v])

Used(E, own) == {p \in E : own[p] # Null}

\* No two extents of X are neighbours.
Separate(m, X) == \A p, q \in X : p + Sz(m, p) + 2 # q

\* While vmcache_alloc runs, size_used does not yet count the extents N that it
\* has taken.  No two of these and of the free ones are neighbours.
Taking(m, E, own, D, allocated) ==
    \E N \in SUBSET D :
        Weight(m, N) = allocated /\ Separate(m, N \cup FreeIn(E, own))

StatsOk(m, used, E, own, lk, at, l) ==
    /\ used \in 0 .. new_size
    /\ lk = Null => used = Weight(m, Used(E, own))
    /\ \A v \in Values : at[v] = "merging" => used = Weight(m, Used(E, own)) + l.freed
    /\ \A v \in Values : at[v] = "popping" =>
         /\ used + l.allocated = Weight(m, Used(E, own))
         /\ l.to_allocate > 0 => Taking(m, E, own, Of(E, own, v), l.allocated)

StatsInv(E, own) == StatsOk(heap.mem, heap.size_used, E, own, lock, pc, loc)

Shape(E, own, rank, top) ==
    HeapOk(heap, E, own, rank, top, HeadsNow, Cut, new_addr, new_addr)

HeapInv ==
    /\ TypeInv
    /\ \E E, own, rank, top :
         /\ Shape(E, own, rank, top)
         /\ StatsInv(E, own)
         /\ \A v \in Values : ValueInv(v, E, own)

\* What says the same of a value in two memories.
LEMMA ValueFrame ==
    ASSUME NEW m, NEW n, NEW D, NEW v, NEW at, NEW size, NEW missing, NEW sm, NEW fst,
           \A q \in D : /\ Sz(n, q) = Sz(m, q) /\ Nx(n, q) = Nx(m, q)
                        /\ \A a \in q .. q + Sz(m, q) - 1 : n[a].data = m[a].data,
           ValueOk(m, D, v, at, size, missing, sm, fst)
    PROVE  ValueOk(n, D, v, at, size, missing, sm, fst)
<1>1. Weight(n, D) = Weight(m, D)
  BY WeightSame
<1>2. Incomplete(m, D, size, missing, sm) => Incomplete(n, D, size, missing, sm)
  BY <1>1 DEF Incomplete
<1>3. Complete(m, D, size) => Complete(n, D, size)
  BY <1>1 DEF Complete
<1>4. Written(m, D, v, fst, size) => Written(n, D, v, fst, size)
  <2> SUFFICES ASSUME Written(m, D, v, fst, size) PROVE Written(n, D, v, fst, size)
    OBVIOUS
  <2>1. PICK base \in [Nat -> Nat] :
           /\ fst # Null => base[fst] = 0
           /\ \A p \in D :
             /\ Nx(m, p) # Null => base[Nx(m, p)] = base[p] + Sz(m, p)
             /\ \A a \in p .. p + Sz(m, p) - 1 :
                  base[p] + (a - p) < size => m[a].data = <<v, base[p] + (a - p) + 1>>
    BY DEF Written
  <2>2. \A p \in D :
             /\ Nx(n, p) # Null => base[Nx(n, p)] = base[p] + Sz(n, p)
             /\ \A a \in p .. p + Sz(n, p) - 1 :
                  base[p] + (a - p) < size => n[a].data = <<v, base[p] + (a - p) + 1>>
    <3> SUFFICES ASSUME NEW p \in D
                 PROVE  /\ Nx(n, p) # Null => base[Nx(n, p)] = base[p] + Sz(n, p)
                        /\ \A a \in p .. p + Sz(n, p) - 1 :
                             base[p] + (a - p) < size => n[a].data = <<v, base[p] + (a - p) + 1>>
      OBVIOUS
    <3>1. Sz(n, p) = Sz(m, p) /\ Nx(n, p) = Nx(m, p)
      OBVIOUS
    <3>2. \A a \in p .. p + Sz(m, p) - 1 : n[a].data = m[a].data
      OBVIOUS
    <3> QED BY <2>1, <3>1, <3>2
  <2> QED BY <2>1, <2>2 DEF Written
<1> QED BY <1>2, <1>3, <1>4 DEF ValueOk

\* A step of v leaves what is said of the other values.
LEMMA OthersKeep ==
    ASSUME NEW v \in Values, NEW E, NEW own, NEW F, NEW o, NEW hd, NEW k, NEW D,
           Kept(heap.mem, heap.mem', E, own, hd, F, o, k, v, D),
           NEW x \in Values, x # v, ValueInv(x, E, own),
           pc'[x] = pc[x], vsize'[x] = vsize[x], left'[x] = left[x],
           small'[x] = small[x], first'[x] = first[x],
           pc[x] = "popping" => loc' = loc
    PROVE  ValueInv(x, F, o)'
<1>1. /\ Of(F, o, x) = Of(E, own, x)
      /\ \A q \in Of(E, own, x) :
              /\ Sz(heap.mem', q) = Sz(heap.mem, q) /\ Nx(heap.mem', q) = Nx(heap.mem, q)
              /\ \A a \in q .. q + Sz(heap.mem, q) - 1 : heap.mem'[a].data = heap.mem[a].data
  BY DEF Kept
<1>2. Missing(x)' = Missing(x)
  BY DEF Missing
<1>3. ValueOk(heap.mem, Of(E, own, x), x, pc[x], vsize[x], Missing(x), small[x], first[x])
  BY DEF ValueInv
<1> HIDE DEF Missing
<1>4. ValueOk(heap.mem', Of(E, own, x), x, pc[x], vsize[x], Missing(x), small[x], first[x])
  BY <1>1, <1>3, ValueFrame
<1> QED BY <1>1, <1>2, <1>4 DEF ValueInv

\* The heads and the lists after a step.
LEMMA HeadsAre ==
    ASSUME NEW h, NEW E, NEW own, NEW rank, NEW top, NEW k, NEW cut, NEW lo, NEW hi,
           HeapOk(h, E, own, rank, top, k, cut, lo, hi), NEW hd, hd = [x \in Lists |-> hd[x]],
           hd[Null] = h.first_extent, \A x \in Values : k[x] = hd[x]
    PROVE  k = hd
<1>1. k \in [Lists -> PtrOrNull] /\ k[Null] = h.first_extent
  BY DEF HeapOk, Links
<1>2. \A x \in Lists : k[x] = hd[x]
  BY <1>1 DEF Lists
<1> QED BY <1>1, <1>2

LEMMA InitInv ==
    ASSUME Init PROVE HeapInv
<1> DEFINE blank == [mem |-> [a \in Cells |-> Zero], first_extent |-> Null,
                     entries |-> 0, size_used |-> 0, asserts |-> TRUE]
           he == [ptr |-> new_addr, size |-> new_size]
           i == InsertEntry(blank, he, Null, FALSE)
           j == InsertFree(blank, he)
           end == new_addr + new_size
           low == [j.mem EXCEPT ![new_addr - 1].allocated = TRUE]
           all == [low EXCEPT ![end].allocated = TRUE]
<1>1. heap = [j EXCEPT !.mem = [@ EXCEPT ![new_addr - FOOTER_SIZE].allocated = TRUE,
                                         ![end].allocated = TRUE]]
  BY DEF Init
<1>2. heap = [j EXCEPT !.mem = all]
  BY <1>1 DEF FOOTER_SIZE
<1>3. PICK p \in Nat, s \in Nat : p = new_addr + 1 /\ s + 2 = new_size
  <2>1. new_addr + 1 \in Nat /\ new_size - 2 \in Nat /\ (new_size - 2) + 2 = new_size
    BY Layout
  <2> QED BY <2>1
<1>4. blank \in HeapType /\ blank.asserts /\ blank.entries = 0 /\ blank.size_used = 0
      /\ blank.first_extent = Null
  <2>1. Zero \in Cell
    BY DEF Zero, Tag, Cell, PtrOrNull
  <2>2. [a \in Cells |-> Zero] \in Mem
    BY <2>1 DEF Mem
  <2>3. Null \in PtrOrNull /\ TRUE \in BOOLEAN
    BY DEF PtrOrNull
  <2> QED BY <2>2, <2>3 DEF HeapType
<1>5. IsEntry(he, p, s) /\ p - 1 \in Cells /\ p + s \in Cells
  <2>1. p - 1 = new_addr
    BY <1>3, Layout
  <2>2. he = [ptr |-> p - 1, size |-> s + 2]
    BY <1>3, <2>1
  <2> QED BY <1>3, <2>2, Layout DEF IsEntry, Cells
<1>6. Inserted(i, blank, p, s, Null, FALSE)
  <2>1. FALSE \in BOOLEAN /\ Null \in PtrOrNull
    BY DEF PtrOrNull
  <2> HIDE DEF blank, he
  <2> QED BY <1>4, <1>5, <2>1, InsertWrites, Zenon
<1>7. j = [i EXCEPT !.first_extent = p, !.entries = @ + 1]
  <2>1. he.ptr + HEADER_SIZE = p
    BY <1>3 DEF HEADER_SIZE
  <2>2. InsertEntry(blank, he, blank.first_extent, FALSE) = i
    BY <1>4
  <2> QED BY <2>1, <2>2 DEF InsertFree
<1> HIDE DEF blank, he, i, j
<1>8. j \in HeapType /\ j.mem = i.mem /\ j.asserts /\ j.first_extent = p /\ j.entries = 1
      /\ j.size_used = 0
  <2>1. i \in HeapType /\ i.asserts /\ i.entries = 0 /\ i.size_used = 0
    BY <1>4, <1>6 DEF Inserted
  <2>2. p \in PtrOrNull
    BY DEF PtrOrNull
  <2>3. i.entries + 1 = 1 /\ 1 \in Int
    BY <2>1
  <2> QED BY <1>7, <2>1, <2>2, <2>3 DEF HeapType
<1>9. /\ low \in Mem
      /\ \A b \in Cells : /\ low[b].prev = j.mem[b].prev /\ low[b].next = j.mem[b].next
                          /\ low[b].size = j.mem[b].size
                          /\ low[b].allocated = (b = new_addr - 1 \/ j.mem[b].allocated)
  <2>1. j.mem \in Mem
    BY <1>8 DEF HeapType
  <2> QED BY <2>1, GuardCells DEF Mem, Cell
<1> HIDE DEF low
<1>10. /\ all \in Mem
       /\ \A b \in Cells : /\ all[b].prev = low[b].prev /\ all[b].next = low[b].next
                           /\ all[b].size = low[b].size
                           /\ all[b].allocated = (b = end \/ low[b].allocated)
  BY <1>9, GuardCells DEF Mem, Cell
<1> HIDE DEF all
<1>11. /\ heap \in HeapType /\ heap.mem = all /\ heap.asserts /\ heap.first_extent = p
       /\ heap.entries = 1 /\ heap.size_used = 0
  BY <1>2, <1>8, <1>10 DEF HeapType
<1> DEFINE E == {p}
           own == [q \in Nat |-> Null]
           rank == [q \in Nat |-> 0]
           m == heap.mem
<1>12. /\ Sz(m, p) = s /\ Nx(m, p) = Null /\ Pv(m, p) = Null
       /\ ~m[p - 1].allocated /\ m[p + s].size = s /\ ~m[p + s].allocated
       /\ m[new_addr - 1].allocated /\ m[end].allocated
  <2>1. p - 1 \in Cells /\ p + s \in Cells /\ p - 1 # end /\ p + s # end
        /\ p - 1 # new_addr - 1 /\ p + s # new_addr - 1
    BY <1>3, <1>5, Layout
  <2>2. /\ Nx(i.mem, p) = Null /\ Pv(i.mem, p) = Null /\ Sz(i.mem, p) = s
        /\ ~i.mem[p - 1].allocated /\ i.mem[p + s].size = s /\ ~i.mem[p + s].allocated
    BY <1>6 DEF Inserted
  <2>3. \A b \in Cells :
            /\ m[b].prev = i.mem[b].prev /\ m[b].next = i.mem[b].next
            /\ m[b].size = i.mem[b].size
            /\ m[b].allocated <=> (b = end \/ b = new_addr - 1 \/ i.mem[b].allocated)
    <3> SUFFICES ASSUME NEW b \in Cells
                 PROVE  /\ m[b].prev = i.mem[b].prev /\ m[b].next = i.mem[b].next
                        /\ m[b].size = i.mem[b].size
                        /\ m[b].allocated <=> (b = end \/ b = new_addr - 1 \/ i.mem[b].allocated)
      OBVIOUS
    <3> HIDE DEF end
    <3>1. m = all /\ j.mem = i.mem
      BY <1>8, <1>11
    <3>2. m[b].prev = i.mem[b].prev /\ m[b].next = i.mem[b].next /\ m[b].size = i.mem[b].size
      BY <1>9, <1>10, <3>1
    <3>3. low[b].allocated = (b = new_addr - 1 \/ j.mem[b].allocated)
      BY <1>9, Zenon
    <3>4. all[b].allocated = (b = end \/ low[b].allocated)
      BY <1>10, Zenon
    <3>5. m[b].allocated = all[b].allocated /\ j.mem[b].allocated = i.mem[b].allocated
      BY <3>1
    <3>6. m[b].allocated <=> (b = end \/ b = new_addr - 1 \/ i.mem[b].allocated)
      <4> HIDE DEF m
      <4> QED BY <3>3, <3>4, <3>5, Zenon
    <3> QED BY <3>2, <3>6
  <2>4. Sz(m, p) = s /\ Nx(m, p) = Null /\ Pv(m, p) = Null /\ m[p + s].size = s
    BY <2>1, <2>2, <2>3 DEF Sz, Nx, Pv
  <2> HIDE DEF m, end
  <2>5. ~m[p - 1].allocated /\ ~m[p + s].allocated
    BY <2>1, <2>2, <2>3
  <2>6. m[new_addr - 1].allocated /\ m[end].allocated
    BY <2>3, GuardCells DEF end
  <2> QED BY <2>4, <2>5, <2>6
<1>13. Tiles(m, E, new_addr, new_addr)
  BY <1>3, <1>12, Layout DEF Tiles, Pool
<1>14. Tags(m, E, own)
  BY <1>12 DEF Tags
<1>15. lock = Null /\ pc = [v \in Values |-> "none"] /\ first = [v \in Values |-> Null]
       /\ vsize = [v \in Values |-> 0] /\ left = [v \in Values |-> 0]
       /\ small = [v \in Values |-> Null] /\ loc = NoCall
  BY DEF Init
<1>16. Cut = {} /\ Null \notin Values
  BY <1>15, NullNoValue DEF Cut
<1>17. HeadsNow = [x \in Lists |-> IF x = Null THEN p ELSE Null]
  BY <1>11, <1>15 DEF HeadsNow, Lists
<1>18. Links(m, E, own, rank, 0, HeadsNow, Cut)
  <2> DEFINE hd == [x \in Lists |-> IF x = Null THEN p ELSE Null]
  <2>1. Null \in Lists /\ p # Null
    BY NullNoNumber DEF Lists
  <2>2. hd \in [Lists -> PtrOrNull] /\ own \in [Nat -> Lists] /\ rank \in [Nat -> Nat]
    BY <2>1 DEF PtrOrNull
  <2>3. Heads(E, own, hd)
    BY DEF Heads
  <2>4. Forward(m, E, own, rank, hd) /\ Backward(m, E, own, hd)
    BY <1>12, <2>1 DEF Forward, Backward
  <2>5. HeadsFirst(m, hd, {})
    BY <1>12 DEF HeadsFirst
  <2>6. \A q \in E : rank[q] <= 0
    OBVIOUS
  <2> HIDE DEF own, rank, hd
  <2>7. Links(m, E, own, rank, 0, hd, {})
    BY <2>2, <2>3, <2>4, <2>5, <2>6 DEF Links
  <2> QED BY <2>7, <1>16, <1>17 DEF hd
<1>19. Aligned(m, E) /\ HoleAligned(new_addr, new_addr) /\ Apart(m, E, own)
  <2>1. p - 1 - new_addr = 0 /\ new_addr - new_addr = 0 /\ p + s + 1 = new_addr + new_size
        /\ p + s + 2 # p
    BY <1>3, Layout
  <2> QED BY <1>3, <1>12, <2>1, MultZero DEF Aligned, HoleAligned, Apart
<1>20. heap.entries = Cardinality(FreeIn(E, own))
  <2>1. FreeIn(E, own) = {p}
    BY DEF FreeIn
  <2>2. Cardinality({p}) = 1
    BY FS_Singleton
  <2> QED BY <1>11, <2>1, <2>2
<1>21. HeadsNow[Null] = heap.first_extent
  BY <1>11, <1>17 DEF Lists
<1>22. Shape(E, own, rank, 0)
  <2> HIDE DEF own, rank, E
  <2> QED BY <1>11, <1>13, <1>14, <1>16, <1>18, <1>19, <1>20, <1>21 DEF Shape, HeapOk
<1>23. \A v \in Values : Of(E, own, v) = {}
  BY <1>16 DEF Of
<1>24. StatsInv(E, own)
  <2>1. Used(E, own) = {}
    BY DEF Used
  <2>2. 0 \in 0 .. new_size
    BY Layout
  <2>3. \A v \in Values : pc[v] = "none"
    BY <1>15
  <2> HIDE DEF own, E
  <2> QED BY <1>11, <1>15, <2>1, <2>2, <2>3, WeightEmpty DEF StatsInv, StatsOk
<1>25. \A v \in Values : ValueInv(v, E, own)
  <2> HIDE DEF own, E
  <2> QED BY <1>15, <1>23 DEF ValueInv, ValueOk
<1>26. TypeInv
  <2>1. Null \in Lists /\ Null \in PtrOrNull
    BY DEF Lists, PtrOrNull
  <2> QED BY <1>15, <1>16, <2>1 DEF TypeInv, Labels, NoCall
<1> HIDE DEF E, own, rank
<1> QED BY <1>22, <1>24, <1>25, <1>26 DEF HeapInv

----------------------------------------------------------------------------
(* The steps that leave the lists alone *)

LEMMA OkSame ==
    ASSUME NEW h, NEW E, NEW own, NEW rank, NEW top, NEW hd, NEW cut, NEW lo, NEW hi,
           HeapOk(h, E, own, rank, top, hd, cut, lo, hi),
           NEW g \in HeapType, g.mem = h.mem, g.first_extent = h.first_extent,
           g.entries = h.entries, g.asserts,
           NEW new, Null \notin new, \A x \in cut \ new : hd[x] = Null
    PROVE  HeapOk(g, E, own, rank, top, hd, new, lo, hi)
<1>1. Links(g.mem, E, own, rank, top, hd, new)
  BY DEF HeapOk, Links, HeadsFirst
<1> QED BY <1>1 DEF HeapOk

LEMMA Quiet ==
    ASSUME HeapInv, TypeInv', NEW v \in Values,
           heap' \in HeapType, heap'.mem = heap.mem,
           heap'.first_extent = heap.first_extent, heap'.entries = heap.entries,
           heap'.asserts, HeadsNow' = HeadsNow,
           \A x \in Cut \ Cut' : HeadsNow[x] = Null,
           \A x \in Values \ {v} :
               /\ pc'[x] = pc[x] /\ vsize'[x] = vsize[x] /\ left'[x] = left[x]
               /\ small'[x] = small[x] /\ first'[x] = first[x]
               /\ pc[x] = "popping" => loc' = loc,
           \A E, own, rank, top :
               Shape(E, own, rank, top) /\ StatsInv(E, own) /\ ValueInv(v, E, own)
                   => StatsInv(E, own)' /\ ValueInv(v, E, own)'
    PROVE  HeapInv'
<1>1. PICK E, own, rank, top : /\ Shape(E, own, rank, top) /\ StatsInv(E, own)
                               /\ \A x \in Values : ValueInv(x, E, own)
  BY DEF HeapInv
<1>2. StatsInv(E, own)' /\ ValueInv(v, E, own)'
  BY <1>1
<1>3. Shape(E, own, rank, top)'
  <2>1. HeapOk(heap, E, own, rank, top, HeadsNow, Cut, new_addr, new_addr)
    BY <1>1 DEF Shape
  <2>2. Null \notin Cut'
    BY NullNoValue DEF Cut
  <2>3. HeapOk(heap', E, own, rank, top, HeadsNow, Cut', new_addr, new_addr)
    <3> HIDE DEF Cut, HeadsNow
    <3> QED BY <2>1, <2>2, OkSame
  <2> QED BY <2>3 DEF Shape
<1>4. \A x \in Values : ValueInv(x, E, own)'
  <2> SUFFICES ASSUME NEW x \in Values, x # v PROVE ValueInv(x, E, own)'
    BY <1>2
  <2>1. ValueOk(heap.mem, Of(E, own, x), x, pc[x], vsize[x], Missing(x), small[x], first[x])
    BY <1>1 DEF ValueInv
  <2>2. Missing(x)' = Missing(x)
    BY DEF Missing
  <2> HIDE DEF Missing
  <2> QED BY <2>1, <2>2 DEF ValueInv
<1> QED BY <1>2, <1>3, <1>4 DEF HeapInv

\* What a state of the invariant says of one value.
LEMMA InvType ==
    ASSUME HeapInv
    PROVE  /\ TypeInv /\ heap \in HeapType /\ heap.asserts
           /\ Null \notin Values
           /\ heap.size_used \in Int
           /\ \A v \in Values : v # Null /\ (pc[v] \in {"popping", "merging"} =>
                  \A x \in Values \ {v} : pc[x] \notin {"popping", "merging"})
           /\ lock = Null => \A x \in Values : pc[x] \notin {"popping", "merging"}
<1>1. TypeInv /\ heap \in HeapType /\ heap.asserts
  BY DEF HeapInv, Shape, HeapOk
<1>2. Null \notin Values
  BY NullNoValue
<1>3. heap.size_used \in Int
  BY <1>1 DEF HeapType
<1>4. \A v \in Values : v # Null /\ (pc[v] \in {"popping", "merging"} =>
                  \A x \in Values \ {v} : pc[x] \notin {"popping", "merging"})
  BY <1>1, <1>2 DEF TypeInv
<1>5. lock = Null => \A x \in Values : pc[x] \notin {"popping", "merging"}
  BY <1>1, <1>2 DEF TypeInv
<1> QED BY <1>1, <1>2, <1>3, <1>4, <1>5

LEMMA PutStartInv ==
    ASSUME HeapInv, NEW v \in Values, NEW size \in Sizes, PutStart(v, size)
    PROVE  HeapInv'
<1> USE InvType
<1>1. size \in Nat
  BY HeapAssumption DEF HeapAssumption
<1>2. /\ pc[v] = "none" /\ pc' = [pc EXCEPT ![v] = IF size = 0 THEN "fill" ELSE "alloc"]
      /\ vsize' = [vsize EXCEPT ![v] = size] /\ left' = [left EXCEPT ![v] = size]
      /\ small' = [small EXCEPT ![v] = Null]
      /\ heap' = heap /\ lock' = lock /\ first' = first /\ loc' = loc
  BY DEF PutStart, Goto
<1>3. TypeInv'
  BY <1>1, <1>2 DEF TypeInv, Labels, PtrOrNull
<1>4. /\ pc'[v] = (IF size = 0 THEN "fill" ELSE "alloc") /\ vsize'[v] = size
      /\ left'[v] = size /\ small'[v] = Null
      /\ \A x \in Values \ {v} :
               /\ pc'[x] = pc[x] /\ vsize'[x] = vsize[x] /\ left'[x] = left[x]
               /\ small'[x] = small[x] /\ first'[x] = first[x]
  BY <1>2 DEF TypeInv
<1>5. HeadsNow' = HeadsNow
  BY <1>2, <1>4 DEF HeadsNow, Lists
<1>6. \A x \in Cut \ Cut' : HeadsNow[x] = Null
  BY <1>2, <1>4 DEF Cut
<1>7. ASSUME NEW E, NEW own, NEW rank, NEW top,
             Shape(E, own, rank, top), StatsInv(E, own), ValueInv(v, E, own)
      PROVE  StatsInv(E, own)' /\ ValueInv(v, E, own)'
  <2>1. StatsInv(E, own)'
    BY <1>2, <1>4, <1>7 DEF StatsInv, StatsOk
  <2>2. Of(E, own, v) = {}
    BY <1>2, <1>7 DEF ValueInv, ValueOk
  <2>3. Weight(heap'.mem, {}) = 0
    BY WeightEmpty
  <2>4. size = 0 => Complete(heap'.mem, {}, size)
    BY <2>3 DEF Complete
  <2>5. size # 0 => Incomplete(heap'.mem, {}, size, size, Null)
    BY <1>1, <2>3 DEF Incomplete
  <2>6. Missing(v)' = size
    BY <1>4 DEF Missing
  <2>7. ValueOk(heap'.mem, {}, v, pc'[v], size, size, Null, first'[v])
    BY <1>4, <2>4, <2>5 DEF ValueOk
  <2> QED BY <1>4, <2>1, <2>2, <2>6, <2>7 DEF ValueInv
<1> QED BY <1>2, <1>3, <1>4, <1>5, <1>6, <1>7, Quiet

LEMMA AllocLockInv ==
    ASSUME HeapInv, NEW v \in Values, AllocLock(v)
    PROVE  HeapInv'
<1> USE InvType
<1>1. /\ pc[v] = "alloc" /\ pc' = [pc EXCEPT ![v] = "popping"]
      /\ lock = Null /\ lock' = v
      /\ heap' = [heap EXCEPT !.asserts = @ /\ (first[v] = Null => small[v] = Null)]
      /\ loc' = [to_allocate |-> left[v], allocated |-> 0, ext |-> Null, freed |-> 0]
      /\ vsize' = vsize /\ left' = left /\ first' = first /\ small' = small
  BY DEF AllocLock, Goto, Lock, Check, NoCall
<1>2. \A x \in Values : pc[x] \notin {"popping", "merging"}
  BY <1>1
<1>3. /\ pc'[v] = "popping" /\ \A x \in Values \ {v} : pc'[x] = pc[x]
      /\ loc'.to_allocate = left[v] /\ loc'.allocated = 0
  BY <1>1 DEF TypeInv
<1>4. TypeInv'
  BY <1>1, <1>2, <1>3 DEF TypeInv, Labels, PtrOrNull, Lists
<1>5. first[v] = Null => small[v] = Null
  <2>1. PICK E, own, rank, top : Shape(E, own, rank, top) /\ ValueInv(v, E, own)
    BY DEF HeapInv
  <2>2. small[v] # Null => small[v] \in Of(E, own, v)
    BY <1>1, <2>1 DEF ValueInv, ValueOk, Incomplete
  <2>3. Links(heap.mem, E, own, rank, top, HeadsNow, Cut)
    BY <2>1 DEF Shape, HeapOk
  <2>4. small[v] # Null => HeadsNow[v] # Null
    <3> HIDE DEF HeadsNow, Cut
    <3> QED BY <2>2, <2>3, HeadExists DEF Of
  <2>5. HeadsNow[v] = first[v]
    BY <1>1 DEF HeadsNow, Lists
  <2> QED BY <2>4, <2>5
<1>6. /\ heap' \in HeapType /\ heap'.mem = heap.mem /\ heap'.entries = heap.entries
      /\ heap'.first_extent = heap.first_extent /\ heap'.asserts
      /\ heap'.size_used = heap.size_used
  BY <1>1, <1>5 DEF HeapType
<1>7. HeadsNow' = HeadsNow
  BY <1>1, <1>2, <1>3, <1>6 DEF HeadsNow, Lists
<1>8. \A x \in Cut \ Cut' : HeadsNow[x] = Null
  BY <1>2 DEF Cut
<1>9. ASSUME NEW E, NEW own, NEW rank, NEW top,
             Shape(E, own, rank, top), StatsInv(E, own), ValueInv(v, E, own)
      PROVE  StatsInv(E, own)' /\ ValueInv(v, E, own)'
  <2>1. Taking(heap'.mem, E, own, Of(E, own, v), 0)
    <3>1. Separate(heap.mem, {} \cup FreeIn(E, own))
      BY <1>9 DEF Shape, HeapOk, Apart, Separate, FreeIn
    <3>2. Weight(heap.mem, {}) = 0 /\ {} \in SUBSET Of(E, own, v)
      BY WeightEmpty
    <3> QED BY <1>6, <3>1, <3>2 DEF Taking
  <2>2. heap.size_used \in 0 .. new_size /\ heap.size_used = Weight(heap.mem, Used(E, own))
    BY <1>1, <1>9 DEF StatsInv, StatsOk
  <2>3. heap.size_used + 0 = heap.size_used
    OBVIOUS
  <2>4. \A x \in Values : (pc'[x] = "popping" => x = v) /\ pc'[x] # "merging"
    BY <1>2, <1>3
  <2>5. lock' # Null
    BY <1>1
  <2>6. StatsInv(E, own)'
    BY <1>3, <1>6, <2>1, <2>2, <2>3, <2>4, <2>5 DEF StatsInv, StatsOk
  <2>7. Missing(v)' = left[v] /\ Missing(v) = left[v]
    BY <1>1, <1>3 DEF Missing
  <2>8. Incomplete(heap.mem, Of(E, own, v), vsize[v], left[v], small[v])
    BY <1>1, <1>9, <2>7 DEF ValueInv, ValueOk
  <2>9. left[v] # 0
    BY <2>8 DEF Incomplete
  <2>10. ValueInv(v, E, own)'
    BY <1>1, <1>3, <1>6, <2>7, <2>8, <2>9 DEF ValueInv, ValueOk
  <2> QED BY <2>6, <2>10
<1>10. \A x \in Values \ {v} : pc[x] # "popping"
  BY <1>2
<1> QED BY <1>1, <1>3, <1>4, <1>6, <1>7, <1>8, <1>9, <1>10, Quiet

LEMMA AllocReturnInv ==
    ASSUME HeapInv, NEW v \in Values, AllocReturn(v)
    PROVE  HeapInv'
<1> USE InvType
<1> DEFINE to == loc.to_allocate
           next == IF to = 0 THEN "fill" ELSE IF to = left[v] THEN "evict" ELSE "alloc"
<1>1. /\ pc[v] = "popping" /\ pc' = [pc EXCEPT ![v] = next]
      /\ lock = v /\ lock' = Null
      /\ heap' = [heap EXCEPT !.size_used = @ + loc.allocated]
      /\ left' = [left EXCEPT ![v] = to]
      /\ loc' = [to_allocate |-> 0, allocated |-> 0, ext |-> Null, freed |-> 0]
      /\ vsize' = vsize /\ first' = first /\ small' = small
  BY DEF AllocReturn, Goto, Unlock, NoCall
<1>2. to \in Nat /\ loc.allocated \in Nat
  BY DEF TypeInv
<1> HIDE DEF to
<1>3. /\ pc'[v] = next /\ left'[v] = to
      /\ \A x \in Values \ {v} : pc'[x] = pc[x] /\ left'[x] = left[x]
      /\ \A x \in Values \ {v} : pc[x] \notin {"popping", "merging"}
  BY <1>1 DEF TypeInv
<1>4. TypeInv'
  BY <1>1, <1>2, <1>3 DEF TypeInv, Labels, PtrOrNull, Lists
<1>5. /\ heap' \in HeapType /\ heap'.mem = heap.mem /\ heap'.entries = heap.entries
      /\ heap'.first_extent = heap.first_extent /\ heap'.asserts
      /\ heap'.size_used = heap.size_used + loc.allocated
  <2>1. heap.size_used + loc.allocated \in Int
    BY <1>2
  <2> QED BY <1>1, <2>1 DEF HeapType
<1>6. HeadsNow' = HeadsNow
  BY <1>1, <1>3, <1>5 DEF HeadsNow, Lists
<1>7. \A x \in Cut \ Cut' : HeadsNow[x] = Null
  BY <1>1, <1>3 DEF Cut
<1>8. ASSUME NEW E, NEW own, NEW rank, NEW top,
             Shape(E, own, rank, top), StatsInv(E, own), ValueInv(v, E, own)
      PROVE  StatsInv(E, own)' /\ ValueInv(v, E, own)'
  <2>1. heap.size_used + loc.allocated = Weight(heap.mem, Used(E, own))
    BY <1>1, <1>8 DEF StatsInv, StatsOk
  <2>2. Weight(heap.mem, Used(E, own)) \in 0 .. new_size
    <3>1. Tiles(heap.mem, E, new_addr, new_addr) /\ Used(E, own) \in SUBSET E
      BY <1>8 DEF Shape, HeapOk, Used
    <3>2. /\ Weight(heap.mem, Used(E, own)) \in Nat
          /\ Weight(heap.mem, Used(E, own)) <= new_size
      BY <3>1, CoverFinite
    <3> QED BY <3>2, Layout
  <2>3. \A x \in Values : pc'[x] \notin {"popping", "merging"}
    BY <1>3
  <2>4. StatsInv(E, own)'
    BY <1>5, <2>1, <2>2, <2>3 DEF StatsInv, StatsOk
  <2>5. Missing(v)' = to /\ Missing(v) = to
    BY <1>1, <1>3 DEF Missing, to
  <2>6. /\ to = 0 => Complete(heap.mem, Of(E, own, v), vsize[v])
        /\ to # 0 => Incomplete(heap.mem, Of(E, own, v), vsize[v], to, small[v])
    BY <1>1, <1>2, <1>8, <2>5 DEF ValueInv, ValueOk
  <2>7. ValueInv(v, E, own)'
    BY <1>1, <1>3, <1>5, <2>5, <2>6 DEF ValueInv, ValueOk
  <2> QED BY <2>4, <2>7
<1> QED BY <1>1, <1>3, <1>4, <1>5, <1>6, <1>7, <1>8, Quiet

\* The steps of vmemcache_put and of the last release that move to another call.
LEMMA MoveInv ==
    ASSUME HeapInv, NEW v \in Values, Evicted(v) \/ EvictFailed(v) \/ Drop(v)
    PROVE  HeapInv'
<1> USE InvType
<1>1. PICK to \in {"alloc", "free"} :
        /\ pc[v] \in {"evict", "held"} /\ (to = "alloc" => pc[v] = "evict")
        /\ pc' = [pc EXCEPT ![v] = to]
        /\ heap' = heap /\ lock' = lock /\ vsize' = vsize /\ left' = left
        /\ first' = first /\ small' = small /\ loc' = loc
  BY DEF Evicted, EvictFailed, Drop, Goto
<1>2. pc'[v] = to /\ \A x \in Values \ {v} : pc'[x] = pc[x]
  BY <1>1 DEF TypeInv
<1>3. TypeInv'
  BY <1>1, <1>2 DEF TypeInv, Labels
<1>4. HeadsNow' = HeadsNow
  BY <1>1, <1>2 DEF HeadsNow, Lists
<1>5. \A x \in Cut \ Cut' : HeadsNow[x] = Null
  BY <1>1, <1>2 DEF Cut
<1>6. ASSUME NEW E, NEW own, NEW rank, NEW top,
             Shape(E, own, rank, top), StatsInv(E, own), ValueInv(v, E, own)
      PROVE  StatsInv(E, own)' /\ ValueInv(v, E, own)'
  <2>1. StatsInv(E, own)'
    BY <1>1, <1>2, <1>6 DEF StatsInv, StatsOk
  <2>2. Missing(v)' = left[v] /\ Missing(v) = left[v]
    BY <1>1, <1>2 DEF Missing
  <2>3. to = "alloc" => Incomplete(heap.mem, Of(E, own, v), vsize[v], left[v], small[v])
    BY <1>1, <1>6, <2>2 DEF ValueInv, ValueOk
  <2>4. ValueInv(v, E, own)'
    BY <1>1, <1>2, <2>2, <2>3 DEF ValueInv, ValueOk
  <2> QED BY <2>1, <2>4
<1> QED BY <1>1, <1>2, <1>3, <1>4, <1>5, <1>6, Quiet

LEMMA FreeLockInv ==
    ASSUME HeapInv, NEW v \in Values, FreeLock(v)
    PROVE  HeapInv'
<1> USE InvType
<1>1. /\ pc[v] = "free" /\ pc' = [pc EXCEPT ![v] = "merging"]
      /\ lock = Null /\ lock' = v /\ heap' = heap
      /\ loc' = [to_allocate |-> 0, allocated |-> 0, ext |-> first[v], freed |-> 0]
      /\ vsize' = vsize /\ left' = left /\ first' = first /\ small' = small
  BY DEF FreeLock, Goto, Lock, NoCall
<1>2. \A x \in Values : pc[x] \notin {"popping", "merging"}
  BY <1>1
<1>3. /\ pc'[v] = "merging" /\ \A x \in Values \ {v} : pc'[x] = pc[x]
      /\ loc'.ext = first[v] /\ loc'.freed = 0
  BY <1>1 DEF TypeInv
<1>4. TypeInv'
  BY <1>1, <1>2, <1>3 DEF TypeInv, Labels, Lists
<1>5. HeadsNow' = HeadsNow
  BY <1>1, <1>2, <1>3 DEF HeadsNow, Lists
<1>6. \A x \in Cut \ Cut' : HeadsNow[x] = Null
  BY <1>2 DEF Cut
<1>7. ASSUME NEW E, NEW own, NEW rank, NEW top,
             Shape(E, own, rank, top), StatsInv(E, own), ValueInv(v, E, own)
      PROVE  StatsInv(E, own)' /\ ValueInv(v, E, own)'
  <2>1. heap.size_used \in 0 .. new_size /\ heap.size_used = Weight(heap.mem, Used(E, own))
    BY <1>1, <1>7 DEF StatsInv, StatsOk
  <2>2. Weight(heap.mem, Used(E, own)) + 0 = Weight(heap.mem, Used(E, own))
    BY <2>1, Layout
  <2>3. \A x \in Values : pc'[x] # "popping"
    BY <1>2, <1>3
  <2>4. lock' # Null
    BY <1>1
  <2>5. StatsInv(E, own)'
    BY <1>1, <1>3, <2>1, <2>2, <2>3, <2>4 DEF StatsInv, StatsOk
  <2>6. ValueInv(v, E, own)'
    BY <1>3 DEF ValueInv, ValueOk
  <2> QED BY <2>5, <2>6
<1>8. \A x \in Values \ {v} : pc[x] # "popping"
  BY <1>2
<1> QED BY <1>1, <1>3, <1>4, <1>5, <1>6, <1>7, <1>8, Quiet

LEMMA FreeDoneInv ==
    ASSUME HeapInv, NEW v \in Values, FreeDone(v)
    PROVE  HeapInv'
<1> USE InvType
<1>1. /\ pc[v] = "merging" /\ pc' = [pc EXCEPT ![v] = "none"] /\ loc.ext = Null
      /\ lock = v /\ lock' = Null
      /\ heap' = [heap EXCEPT !.size_used = @ - loc.freed]
      /\ loc' = [to_allocate |-> 0, allocated |-> 0, ext |-> Null, freed |-> 0]
      /\ first' = [first EXCEPT ![v] = Null] /\ small' = [small EXCEPT ![v] = Null]
      /\ vsize' = [vsize EXCEPT ![v] = 0] /\ left' = [left EXCEPT ![v] = 0]
  BY DEF FreeDone, Goto, Unlock, NoCall
<1>2. loc.freed \in Nat
  BY DEF TypeInv
<1>3. /\ pc'[v] = "none" /\ first'[v] = Null
      /\ \A x \in Values \ {v} :
               /\ pc'[x] = pc[x] /\ vsize'[x] = vsize[x] /\ left'[x] = left[x]
               /\ small'[x] = small[x] /\ first'[x] = first[x]
               /\ pc[x] \notin {"popping", "merging"}
  BY <1>1 DEF TypeInv
<1>4. TypeInv'
  BY <1>1, <1>3 DEF TypeInv, Labels, PtrOrNull, Lists
<1>5. /\ heap' \in HeapType /\ heap'.mem = heap.mem /\ heap'.entries = heap.entries
      /\ heap'.first_extent = heap.first_extent /\ heap'.asserts
      /\ heap'.size_used = heap.size_used - loc.freed
  <2>1. heap.size_used - loc.freed \in Int
    BY <1>2
  <2> QED BY <1>1, <2>1 DEF HeapType
<1>6. HeadsNow' = HeadsNow
  BY <1>1, <1>3, <1>5 DEF HeadsNow, Lists
<1>7. \A x \in Cut \ Cut' : HeadsNow[x] = Null
  BY <1>1, <1>3 DEF Cut, HeadsNow, Lists
<1>8. ASSUME NEW E, NEW own, NEW rank, NEW top,
             Shape(E, own, rank, top), StatsInv(E, own), ValueInv(v, E, own)
      PROVE  StatsInv(E, own)' /\ ValueInv(v, E, own)'
  <2>1. heap.size_used = Weight(heap.mem, Used(E, own)) + loc.freed
    BY <1>1, <1>8 DEF StatsInv, StatsOk
  <2>2. Weight(heap.mem, Used(E, own)) \in 0 .. new_size
    <3>1. Tiles(heap.mem, E, new_addr, new_addr) /\ Used(E, own) \in SUBSET E
      BY <1>8 DEF Shape, HeapOk, Used
    <3>2. /\ Weight(heap.mem, Used(E, own)) \in Nat
          /\ Weight(heap.mem, Used(E, own)) <= new_size
      BY <3>1, CoverFinite
    <3> QED BY <3>2, Layout
  <2>3. heap'.size_used = Weight(heap.mem, Used(E, own))
    BY <1>2, <1>5, <2>1, <2>2, Layout
  <2>4. \A x \in Values : pc'[x] \notin {"popping", "merging"}
    BY <1>3
  <2>5. StatsInv(E, own)'
    BY <1>5, <2>2, <2>3, <2>4 DEF StatsInv, StatsOk
  <2>6. Of(E, own, v) = {}
    <3>1. Links(heap.mem, E, own, rank, top, HeadsNow, Cut)
      BY <1>8 DEF Shape, HeapOk
    <3>2. HeadsNow[v] = Null
      BY <1>1 DEF HeadsNow, Lists
    <3> HIDE DEF HeadsNow, Cut
    <3> QED BY <3>1, <3>2, HeadExists DEF Of
  <2>7. ValueInv(v, E, own)'
    BY <1>3, <2>6 DEF ValueInv, ValueOk
  <2> QED BY <2>5, <2>7
<1> QED BY <1>1, <1>3, <1>4, <1>5, <1>6, <1>7, <1>8, Quiet

----------------------------------------------------------------------------
(* An iteration of vmcache_free *)

\* The extents in use before and after a step of v.
LEMMA KeptUsed ==
    ASSUME NEW h, NEW g, NEW E, NEW own, NEW rank, NEW top, NEW hd, NEW cut, NEW lo, NEW hi,
           HeapOk(h, E, own, rank, top, hd, cut, lo, hi),
           NEW F, NEW o, NEW r, NEW t, NEW k, NEW cut2, NEW lo2, NEW hi2,
           HeapOk(g, F, o, r, t, k, cut2, lo2, hi2),
           NEW v \in Values, NEW D,
           Kept(h.mem, g.mem, E, own, hd, F, o, k, v, D)
    PROVE  /\ Used(F, o) = (Used(E, own) \ Of(E, own, v)) \cup Of(F, o, v)
           /\ \A q \in (Used(E, own) \ Of(E, own, v)) \cup D : Sz(g.mem, q) = Sz(h.mem, q)
<1>1. /\ E \subseteq Nat /\ F \subseteq Nat
      /\ own \in [Nat -> Lists] /\ o \in [Nat -> Lists]
  BY DEF HeapOk, Links
<1>2. Null \notin Values
  BY NullNoValue
<1>3. \A x \in Values \ {v} : Of(F, o, x) = Of(E, own, x)
  BY DEF Kept
<1>4. \A q : q \in Used(F, o) <=> \E x \in Values : q \in Of(F, o, x)
  BY <1>1, <1>2 DEF Used, Of, Lists
<1>5. \A q : q \in Used(E, own) <=> \E x \in Values : q \in Of(E, own, x)
  BY <1>1, <1>2 DEF Used, Of, Lists
<1>6. \A x, y \in Values : \A q : q \in Of(E, own, x) /\ q \in Of(E, own, y) => x = y
  BY DEF Of
<1>7. \A q \in Used(E, own) \ Of(E, own, v) : \E x \in Values \ {v} : q \in Of(E, own, x)
  BY <1>5
<1>8. Used(F, o) = (Used(E, own) \ Of(E, own, v)) \cup Of(F, o, v)
  <2>1. ASSUME NEW q \in Used(F, o)
        PROVE  q \in (Used(E, own) \ Of(E, own, v)) \cup Of(F, o, v)
    BY <1>3, <1>4, <1>5, <1>6
  <2>2. ASSUME NEW q \in (Used(E, own) \ Of(E, own, v)) \cup Of(F, o, v)
        PROVE  q \in Used(F, o)
    BY <1>3, <1>4, <1>7
  <2> QED BY <2>1, <2>2
<1>9. \A q \in Used(E, own) \ Of(E, own, v) : Sz(g.mem, q) = Sz(h.mem, q)
  BY <1>7 DEF Kept
<1>10. \A q \in D : Sz(g.mem, q) = Sz(h.mem, q)
  BY DEF Kept
<1> QED BY <1>8, <1>9, <1>10

LEMMA FreeMoreInv ==
    ASSUME HeapInv, NEW v \in Values, FreeMore(v)
    PROVE  HeapInv'
<1> USE InvType
<1> DEFINE p == loc.ext
           s == Size(heap, p)
<1>1. PICK E, own, rank, top : /\ Shape(E, own, rank, top) /\ StatsInv(E, own)
                               /\ \A x \in Values : ValueInv(x, E, own)
  BY DEF HeapInv
<1>2. /\ pc[v] = "merging" /\ p # Null
      /\ heap' = MergeAndInsert(heap, p, s)
      /\ loc' = [loc EXCEPT !.ext = NextExt(heap, p), !.freed = @ + s]
      /\ lock' = lock /\ pc' = pc /\ vsize' = vsize /\ left' = left
      /\ first' = first /\ small' = small
  BY DEF FreeMore
<1>3. s = Sz(heap.mem, p) /\ NextExt(heap, p) = Nx(heap.mem, p)
  BY DEF Size, NextExt, HeaderOf, HEADER_SIZE, Sz, Nx
<1>4. HeapOk(heap, E, own, rank, top, HeadsNow, Cut, new_addr, new_addr)
  BY <1>1 DEF Shape
<1>5. HeadsNow[v] = p /\ v \in Cut /\ \A x \in Values \ {v} : HeadsNow[x] = first[x]
  BY <1>2 DEF HeadsNow, Cut, Lists
<1> HIDE DEF p, s
<1>6. /\ p \in Of(E, own, v) /\ s \in Nat
      /\ \E F, o, r, t, k :
               /\ HeapOk(heap', F, o, r, t, k, Cut, new_addr, new_addr)
               /\ Kept(heap.mem, heap'.mem, E, own, HeadsNow, F, o, k, v, Of(E, own, v) \ {p})
               /\ Of(F, o, v) = Of(E, own, v) \ {p}
               /\ k[v] = Nx(heap.mem, p)
               /\ heap'.size_used = heap.size_used
  <2> HIDE DEF HeadsNow, Cut
  <2> QED BY <1>2, <1>3, <1>4, <1>5, OkFreeMore
<1>7. PICK F, o, r, t, k :
               /\ HeapOk(heap', F, o, r, t, k, Cut, new_addr, new_addr)
               /\ Kept(heap.mem, heap'.mem, E, own, HeadsNow, F, o, k, v, Of(E, own, v) \ {p})
               /\ Of(F, o, v) = Of(E, own, v) \ {p}
               /\ k[v] = Nx(heap.mem, p)
               /\ heap'.size_used = heap.size_used
  BY <1>6
<1>8. Nx(heap.mem, p) \in PtrOrNull
  BY <1>7, <1>5 DEF HeapOk, Links, Lists
<1>9. loc' \in [to_allocate : Nat, allocated : Nat, ext : PtrOrNull, freed : Nat]
      /\ loc'.ext = Nx(heap.mem, p) /\ loc'.freed = loc.freed + s
  <2>1. loc \in [to_allocate : Nat, allocated : Nat, ext : PtrOrNull, freed : Nat]
        /\ loc.freed + s \in Nat
    BY <1>6 DEF TypeInv
  <2> QED BY <1>2, <1>3, <1>8, <2>1
<1>10. TypeInv'
  BY <1>2, <1>9 DEF TypeInv
<1>11. Cut' = Cut
  BY <1>2 DEF Cut
<1>12. HeadsNow' = k
  <2>1. HeadsNow' = [x \in Lists |-> HeadsNow'[x]] /\ HeadsNow'[Null] = heap'.first_extent
    BY DEF HeadsNow, Lists
  <2>2. HeadsNow'[v] = Nx(heap.mem, p)
    BY <1>2, <1>9 DEF HeadsNow, Lists
  <2>3. \A x \in Values \ {v} : HeadsNow'[x] = first[x]
    BY <1>2 DEF HeadsNow, Lists
  <2>4. \A x \in Values : k[x] = HeadsNow'[x]
    BY <1>5, <1>7, <2>2, <2>3 DEF Kept
  <2> HIDE DEF HeadsNow, Cut
  <2> QED BY <1>7, <2>1, <2>4, HeadsAre
<1>13. Shape(F, o, r, t)'
  BY <1>7, <1>11, <1>12 DEF Shape
<1>14. StatsInv(F, o)'
  <2> DEFINE U == Used(E, own)
  <2>1. p \in U /\ U \in SUBSET E /\ Tiles(heap.mem, E, new_addr, new_addr)
    BY <1>4, <1>6 DEF Used, Of, HeapOk
  <2>2. Weight(heap.mem, U) = Weight(heap.mem, U \ {p}) + Sz(heap.mem, p)
        /\ Weight(heap.mem, U \ {p}) \in Nat
    BY <2>1, WeightRemove
  <2>3. /\ Used(F, o) = (U \ Of(E, own, v)) \cup Of(F, o, v)
        /\ \A q \in (U \ Of(E, own, v)) \cup (Of(E, own, v) \ {p}) :
              Sz(heap'.mem, q) = Sz(heap.mem, q)
    <3> HIDE DEF HeadsNow, Cut
    <3> QED BY <1>4, <1>7, KeptUsed
  <2>4. Of(E, own, v) \subseteq U
    BY DEF Used, Of
  <2>5. Used(F, o) = U \ {p} /\ \A q \in U \ {p} : Sz(heap'.mem, q) = Sz(heap.mem, q)
    BY <1>6, <1>7, <2>3, <2>4
  <2>6. Weight(heap'.mem, U \ {p}) = Weight(heap.mem, U \ {p})
    BY <2>5, WeightSame
  <2>7. heap.size_used = Weight(heap.mem, U) + loc.freed /\ heap.size_used \in 0 .. new_size
    BY <1>1, <1>2 DEF StatsInv, StatsOk
  <2> HIDE DEF U
  <2>8. loc.freed \in Nat
    BY DEF TypeInv
  <2>9. heap'.size_used = Weight(heap'.mem, Used(F, o)) + loc'.freed
    BY <1>3, <1>6, <1>7, <1>9, <2>2, <2>5, <2>6, <2>7, <2>8
  <2>10. lock' # Null /\ \A x \in Values : pc'[x] # "popping"
    BY <1>2 DEF TypeInv
  <2> QED BY <1>7, <2>7, <2>9, <2>10 DEF StatsInv, StatsOk
<1>15. \A x \in Values : ValueInv(x, F, o)'
  <2> SUFFICES ASSUME NEW x \in Values PROVE ValueInv(x, F, o)'
    OBVIOUS
  <2>1. CASE x = v
    BY <1>2, <2>1 DEF ValueInv, ValueOk
  <2>2. CASE x # v
    <3>1. pc[x] # "popping"
      BY <1>2, <2>2
    <3> HIDE DEF HeadsNow
    <3> QED BY <1>1, <1>2, <1>7, <2>2, <3>1, OthersKeep
  <2> QED BY <2>1, <2>2
<1> QED BY <1>10, <1>13, <1>14, <1>15 DEF HeapInv

----------------------------------------------------------------------------
(* An iteration of vmcache_alloc *)

\* The bytes in use when v has taken the extent p, which was free.
TookBytes(m, n, U, V, p) ==
    /\ V = U \cup {p} /\ p \notin U
    /\ \A q \in U : Sz(n, q) = Sz(m, q)
    /\ \A X \in SUBSET U : Weight(n, X \cup {p}) = Weight(m, X) + Sz(n, p)

LEMMA TakenWeights ==
    ASSUME NEW h, NEW g, NEW E, NEW own, NEW rank, NEW top, NEW hd, NEW cut, NEW lo, NEW hi,
           HeapOk(h, E, own, rank, top, hd, cut, lo, hi),
           NEW F, NEW o, NEW r, NEW t, NEW k, NEW cut2, NEW lo2, NEW hi2,
           HeapOk(g, F, o, r, t, k, cut2, lo2, hi2),
           NEW v \in Values, NEW p \in FreeIn(E, own),
           Kept(h.mem, g.mem, E, own, hd, F, o, k, v, Of(E, own, v)),
           Of(F, o, v) = Of(E, own, v) \cup {p}
    PROVE  p \in F /\ TookBytes(h.mem, g.mem, Used(E, own), Used(F, o), p)
<1> DEFINE U == Used(E, own)
<1>1. /\ Used(F, o) = (U \ Of(E, own, v)) \cup Of(F, o, v)
      /\ \A q \in (U \ Of(E, own, v)) \cup Of(E, own, v) : Sz(g.mem, q) = Sz(h.mem, q)
  BY KeptUsed
<1>2. Of(E, own, v) \subseteq U /\ p \notin U
  BY NullNoValue DEF Of, Used, FreeIn
<1>3. Used(F, o) = U \cup {p} /\ \A q \in U : Sz(g.mem, q) = Sz(h.mem, q)
  BY <1>1, <1>2
<1>4. Used(F, o) \subseteq F /\ Tiles(g.mem, F, lo2, hi2)
  BY DEF Used, HeapOk
<1> HIDE DEF U
<1>5. ASSUME NEW X \in SUBSET U
      PROVE  Weight(g.mem, X \cup {p}) = Weight(h.mem, X) + Sz(g.mem, p)
  <2>1. X \in SUBSET F /\ p \in F /\ p \notin X
    BY <1>2, <1>3, <1>4
  <2>2. Weight(g.mem, X \cup {p}) = Weight(g.mem, X) + Sz(g.mem, p)
    BY <1>4, <2>1, WeightAdd
  <2>3. Weight(g.mem, X) = Weight(h.mem, X)
    <3>1. \A q \in X : Sz(g.mem, q) = Sz(h.mem, q)
      BY <1>3
    <3> QED BY <3>1, WeightSame
  <2> QED BY <2>2, <2>3
<1> QED BY <1>2, <1>3, <1>4, <1>5 DEF U, TookBytes

\* The bytes in use when v has given back the extent p.
GaveBytes(m, n, U, V, p) ==
    /\ V = U \ {p} /\ Sz(m, p) \in Nat
    /\ \A q \in U \ {p} : Sz(n, q) = Sz(m, q)
    /\ \A X \in SUBSET U : p \in X =>
         /\ Weight(n, X \ {p}) \in Nat
         /\ Weight(m, X) = Weight(n, X \ {p}) + Sz(m, p)

LEMMA GivenWeights ==
    ASSUME NEW h, NEW g, NEW E, NEW own, NEW rank, NEW top, NEW hd, NEW cut, NEW lo, NEW hi,
           HeapOk(h, E, own, rank, top, hd, cut, lo, hi),
           NEW F, NEW o, NEW r, NEW t, NEW k, NEW cut2, NEW lo2, NEW hi2,
           HeapOk(g, F, o, r, t, k, cut2, lo2, hi2),
           NEW v \in Values, NEW p \in Of(E, own, v),
           Kept(h.mem, g.mem, E, own, hd, F, o, k, v, Of(E, own, v) \ {p}),
           Of(F, o, v) = Of(E, own, v) \ {p}
    PROVE  GaveBytes(h.mem, g.mem, Used(E, own), Used(F, o), p)
<1> DEFINE U == Used(E, own)
<1>1. /\ Used(F, o) = (U \ Of(E, own, v)) \cup Of(F, o, v)
      /\ \A q \in (U \ Of(E, own, v)) \cup (Of(E, own, v) \ {p}) : Sz(g.mem, q) = Sz(h.mem, q)
  BY KeptUsed
<1>2. Of(E, own, v) \subseteq U /\ p \in U
  BY NullNoValue DEF Of, Used
<1>3. Used(F, o) = U \ {p} /\ \A q \in U \ {p} : Sz(g.mem, q) = Sz(h.mem, q)
  BY <1>1, <1>2
<1>4. U \subseteq E /\ Tiles(h.mem, E, lo, hi)
  BY DEF Used, HeapOk
<1> HIDE DEF U
<1>5. Sz(h.mem, p) \in Nat
  BY <1>2, <1>4 DEF Tiles
<1>6. ASSUME NEW X \in SUBSET U, p \in X
      PROVE  /\ Weight(g.mem, X \ {p}) \in Nat
             /\ Weight(h.mem, X) = Weight(g.mem, X \ {p}) + Sz(h.mem, p)
  <2>1. X \in SUBSET E
    BY <1>4
  <2>2. /\ Weight(h.mem, X \ {p}) \in Nat
        /\ Weight(h.mem, X) = Weight(h.mem, X \ {p}) + Sz(h.mem, p)
    BY <1>4, <1>6, <2>1, WeightRemove
  <2>3. Weight(g.mem, X \ {p}) = Weight(h.mem, X \ {p})
    <3>1. \A q \in X \ {p} : Sz(g.mem, q) = Sz(h.mem, q)
      BY <1>3
    <3> QED BY <3>1, WeightSame
  <2> QED BY <2>2, <2>3
<1> QED BY <1>3, <1>5, <1>6 DEF U, GaveBytes

\* Above an entry is another one or the end of the pool.
LEMMA EntryNext ==
    ASSUME NEW m, NEW E, NEW lo, Tiles(m, E, lo, lo), NEW p \in E,
           p + Sz(m, p) + 1 # new_addr + new_size
    PROVE  p + Sz(m, p) + 2 \in E
<1>1. PICK z \in Nat : z = Sz(m, p)
  BY DEF Tiles
<1>2. p \in Nat /\ lo \in Nat /\ new_addr < p /\ p + z < new_addr + new_size
  BY <1>1 DEF Tiles
<1>3. p + z + 1 \in Pool
  BY <1>1, <1>2, Layout DEF Pool
<1>4. PICK a \in Pool : a = p + z + 1
  BY <1>3
<1>5. a \in Nat
  BY <1>2, <1>4
<1>6. PICK q \in E : q <= a + 1 /\ a <= q + Sz(m, q)
  BY <1>2, <1>5 DEF Tiles
<1>7. PICK y \in Nat : y = Sz(m, q)
  BY DEF Tiles
<1>8. q \in Nat /\ (q < p => q + y + 2 <= p) /\ (p < q => p + z + 2 <= q)
  BY <1>1, <1>7 DEF Tiles
<1>9. q # p
  BY <1>1, <1>2, <1>4, <1>6
<1>10. q = p + z + 2
  BY <1>2, <1>4, <1>6, <1>7, <1>8, <1>9
<1> QED BY <1>1, <1>10

\* Two memories with the same entries agree on which ones are neighbours.
LEMMA SameNeighbours ==
    ASSUME NEW m, NEW n, NEW E, NEW lo, NEW lo2, Tiles(m, E, lo, lo), Tiles(n, E, lo2, lo2),
           NEW X \in SUBSET E, Separate(m, X)
    PROVE  Separate(n, X)
<1> SUFFICES ASSUME NEW p \in X, NEW q \in X, p + Sz(n, p) + 2 = q PROVE FALSE
  BY DEF Separate
<1>1. PICK y \in Nat, z \in Nat : y = Sz(n, p) /\ z = Sz(m, p)
  BY DEF Tiles
<1>2. p \in Nat /\ q \in Nat /\ p < q
  <2>1. p \in Nat /\ q \in Nat
    BY DEF Tiles
  <2> QED BY <1>1, <2>1
<1>3. p + z + 2 <= q /\ q + Sz(m, q) < new_addr + new_size /\ Sz(m, q) \in Nat
  BY <1>1, <1>2 DEF Tiles
<1>4. p + z + 2 # q
  BY <1>1 DEF Separate
<1>5. p + z + 2 \in E
  <2>1. p + Sz(m, p) + 1 # new_addr + new_size
    BY <1>1, <1>2, <1>3, Layout
  <2> QED BY <1>1, <2>1, EntryNext
<1>6. PICK w \in E : w = p + z + 2
  BY <1>5
<1>7. p < w /\ w < q /\ w \in Nat
  BY <1>2, <1>3, <1>4, <1>6
<1>8. p + y + 2 <= w
  BY <1>1, <1>7 DEF Tiles
<1> QED BY <1>1, <1>2, <1>7, <1>8

\* When vmcache_alloc gives the extent sm back, size_used counts at least as
\* much: sm itself, or the entry between sm and p, which the call has not taken.
LEMMA StillCounted ==
    ASSUME NEW h, NEW E, NEW own, NEW rank, NEW top, NEW hd, NEW cut, NEW lo,
           HeapOk(h, E, own, rank, top, hd, cut, lo, lo),
           NEW N \in SUBSET Used(E, own), Separate(h.mem, N \cup FreeIn(E, own)),
           NEW p \in FreeIn(E, own), NEW sm \in Used(E, own)
    PROVE  Weight(h.mem, N) + (extent_size - 2) <= Weight(h.mem, Used(E, own))
<1> DEFINE m == h.mem
           U == Used(E, own)
<1>1. /\ Tiles(m, E, lo, lo) /\ Aligned(m, E) /\ U \in SUBSET E /\ p \in E /\ sm \in E
      /\ p \notin U /\ p # sm
  BY DEF HeapOk, Used, FreeIn
<1>2. \A q \in E : q \in U \/ q \in FreeIn(E, own)
  BY DEF Used, FreeIn
<1>3. \E q \in U : q \notin N
  <2>1. CASE sm \notin N
    BY <2>1
  <2>2. CASE sm \in N
    <3>1. PICK a \in N \cup FreeIn(E, own), b \in N \cup FreeIn(E, own) :
             a \in E /\ b \in E /\ a < b
      <4>1. p \in Nat /\ sm \in Nat
        BY <1>1 DEF Tiles
      <4>2. p < sm \/ sm < p
        BY <1>1, <4>1
      <4> QED BY <1>1, <2>2, <4>2
    <3>2. PICK y \in Nat : y = Sz(m, a)
      BY <1>1, <3>1 DEF Tiles
    <3>3. /\ a \in Nat /\ b \in Nat /\ a + y + 2 <= b /\ Sz(m, b) \in Nat
          /\ b + Sz(m, b) < new_addr + new_size
      BY <1>1, <3>1, <3>2 DEF Tiles
    <3>4. a + Sz(m, a) + 1 # new_addr + new_size
      BY <3>2, <3>3, Layout
    <3>5. a + Sz(m, a) + 2 \in E
      BY <1>1, <3>1, <3>4, EntryNext
    <3>6. a + Sz(m, a) + 2 \notin N \cup FreeIn(E, own)
      BY <3>1 DEF Separate
    <3> QED BY <1>2, <3>5, <3>6
  <2> QED BY <2>1, <2>2
<1> HIDE DEF U, m
<1>4. PICK q \in U : q \notin N
  BY <1>3
<1>5. Sz(m, q) >= extent_size - 2
  <2>1. q \in E /\ q # p
    BY <1>1
  <2> QED BY <1>1, <2>1, NotAlone
<1>6. N \in SUBSET E /\ q \in E /\ N \cup {q} \in SUBSET U
  BY <1>1 DEF U
<1>7. Weight(m, N \cup {q}) = Weight(m, N) + Sz(m, q)
  BY <1>1, <1>4, <1>6, WeightAdd
<1>8. Weight(m, N \cup {q}) <= Weight(m, U)
  BY <1>1, <1>6, WeightSubset
<1>9. Weight(m, N) \in Nat /\ Weight(m, U) \in Nat
  BY <1>1, <1>6, CoverFinite
<1>10. Sz(m, q) \in Nat
  BY <1>1, <1>6 DEF Tiles
<1>11. Weight(m, N) + (extent_size - 2) <= Weight(m, U)
  BY <1>5, <1>7, <1>8, <1>9, <1>10, ExtentSize
<1> QED BY <1>11 DEF m, U

\* The results of the iteration.
LEMMA TakeIs ==
    ASSUME NEW v \in Values, NEW to \in Nat, to = loc.to_allocate,
           NEW A, A = AlignUp(to + 2, extent_size),
           NEW p, Carved(heap, A).ptr + HEADER_SIZE = p,
           NEW z \in Nat, Carved(heap, A).size = z + 2
    PROVE  LET g == InsertUsed(Carving(heap, A), Carved(heap, A), first[v])
               sm == IF small[v] = Null /\ z + 2 = extent_size THEN p ELSE small[v]
               spare == z > to /\ z - to >= extent_size - 2 /\ sm # Null
           IN  Take(v) = [heap |-> IF spare THEN FreeExtent(g, sm) ELSE g,
                          first |-> p,
                          small |-> sm,
                          to_allocate |-> IF z <= to THEN to - z ELSE 0,
                          allocated |-> loc.allocated + z]
<1> DEFINE c(B) == Carved(heap, B)
           g(B) == InsertUsed(Carving(heap, B), c(B), first[v])
           sm(s, q) == IF small[v] = Null /\ s = extent_size THEN q ELSE small[v]
           spare(n, s, q, got) ==
               got > n /\ got - n >= extent_size - HFER_SIZE /\ sm(s, q) # Null
           T(B, n, s, q, got) ==
               [heap |-> IF spare(n, s, q, got) THEN FreeExtent(g(B), sm(s, q)) ELSE g(B),
                first |-> q,
                small |-> sm(s, q),
                to_allocate |-> n - Min({got, n}),
                allocated |-> loc.allocated + got]
           B0 == AlignUp(loc.to_allocate + HFER_SIZE, extent_size)
<1>1. HFER_SIZE = 2
  BY DEF HFER_SIZE, HEADER_SIZE, FOOTER_SIZE
<1>2. Take(v) = T(B0, loc.to_allocate, c(B0).size, c(B0).ptr + HEADER_SIZE, c(B0).size - HFER_SIZE)
  BY DEF Take, Carving, Carved, Splits, InsertUsed
<1>3. B0 = A
  BY <1>1
<1> HIDE DEF g, T
<1>4. c(A).size = z + 2 /\ c(A).ptr + HEADER_SIZE = p
  OBVIOUS
<1>5. c(A).size - HFER_SIZE = z
  BY <1>1, <1>4
<1> HIDE DEF c, B0
<1>6. Take(v) = T(A, to, z + 2, p, z)
  BY <1>2, <1>4, <1>5, <1>3
<1>7. Min({z, to}) = IF z <= to THEN z ELSE to
  BY MinTwo
<1>8. to - Min({z, to}) = IF z <= to THEN to - z ELSE 0
  BY <1>7
<1>9. spare(to, z + 2, p, z) <=> z > to /\ z - to >= extent_size - 2 /\ sm(z + 2, p) # Null
  BY <1>1
<1> QED BY <1>6, <1>8, <1>9 DEF T, g, c

LEMMA KeptTwice ==
    ASSUME NEW m, NEW n, NEW l, NEW E, NEW own, NEW hd, NEW F, NEW o, NEW k,
           NEW G, NEW w, NEW j, NEW v, NEW D, NEW C,
           Kept(m, n, E, own, hd, F, o, k, v, D), Kept(n, l, F, o, k, G, w, j, v, C)
    PROVE  Kept(m, l, E, own, hd, G, w, j, v, {})
<1> SUFFICES ASSUME NEW x \in Values \ {v}
             PROVE  /\ Of(G, w, x) = Of(E, own, x)
                    /\ j[x] = hd[x]
                    /\ \A q \in Of(E, own, x) :
                         /\ Sz(l, q) = Sz(m, q) /\ Nx(l, q) = Nx(m, q)
                         /\ \A a \in q .. q + Sz(m, q) - 1 : l[a].data = m[a].data
  BY DEF Kept
<1>1. /\ Of(F, o, x) = Of(E, own, x) /\ k[x] = hd[x]
      /\ Of(G, w, x) = Of(F, o, x) /\ j[x] = k[x]
  BY DEF Kept
<1>2. ASSUME NEW q \in Of(E, own, x)
      PROVE  /\ Sz(l, q) = Sz(m, q) /\ Nx(l, q) = Nx(m, q)
             /\ \A a \in q .. q + Sz(m, q) - 1 : l[a].data = m[a].data
  <2>1. /\ Sz(n, q) = Sz(m, q) /\ Nx(n, q) = Nx(m, q)
        /\ \A a \in q .. q + Sz(m, q) - 1 : n[a].data = m[a].data
    BY DEF Kept
  <2>2. /\ Sz(l, q) = Sz(n, q) /\ Nx(l, q) = Nx(n, q)
        /\ \A a \in q .. q + Sz(n, q) - 1 : l[a].data = n[a].data
    BY <1>1 DEF Kept
  <2> QED BY <2>1, <2>2
<1> QED BY <1>1, <1>2

\* What is left to show of a state after an iteration of vmcache_alloc.
LEMMA Alloced ==
    ASSUME HeapInv, TypeInv', NEW v \in Values, NEW p, NEW E, NEW own,
           \A x \in Values : ValueInv(x, E, own),
           pc[v] = "popping", lock' = lock, pc' = pc, vsize' = vsize, left' = left,
           first'[v] = p,
           \A x \in Values \ {v} : first'[x] = first[x] /\ small'[x] = small[x],
           NEW F, NEW o, NEW r, NEW t, NEW k, NEW D,
           HeapOk(heap', F, o, r, t, k, Cut, new_addr, new_addr),
           Kept(heap.mem, heap'.mem, E, own, HeadsNow, F, o, k, v, D),
           k[v] = p,
           heap'.size_used \in 0 .. new_size,
           heap'.size_used + loc'.allocated = Weight(heap'.mem, Used(F, o)),
           loc'.to_allocate > 0 =>
               /\ Taking(heap'.mem, F, o, Of(F, o, v), loc'.allocated)
               /\ Incomplete(heap'.mem, Of(F, o, v), vsize[v], loc'.to_allocate, small'[v]),
           loc'.to_allocate = 0 => Complete(heap'.mem, Of(F, o, v), vsize[v])
    PROVE  HeapInv'
<1> USE InvType
<1>1. \A x \in Values \ {v} : pc[x] \notin {"popping", "merging"}
  OBVIOUS
<1>2. Cut' = Cut
  BY DEF Cut
<1>3. HeadsNow' = k
  <2>1. HeadsNow' = [x \in Lists |-> HeadsNow'[x]] /\ HeadsNow'[Null] = heap'.first_extent
    BY DEF HeadsNow, Lists
  <2>2. HeadsNow'[v] = p
    BY DEF HeadsNow, Lists
  <2>3. \A x \in Values \ {v} : HeadsNow'[x] = HeadsNow[x]
    BY <1>1 DEF HeadsNow, Lists
  <2> HIDE DEF HeadsNow, Cut
  <2>4. \A x \in Values \ {v} : k[x] = HeadsNow[x]
    BY DEF Kept
  <2>5. \A x \in Values : k[x] = HeadsNow'[x]
    BY <2>2, <2>3, <2>4
  <2> QED BY <2>1, <2>5, HeadsAre
<1>4. Shape(F, o, r, t)'
  BY <1>2, <1>3 DEF Shape
<1>5. StatsInv(F, o)'
  <2>1. \A x \in Values : (pc'[x] = "popping" => x = v) /\ pc'[x] # "merging"
    BY <1>1
  <2>2. lock' # Null
    BY DEF TypeInv
  <2> QED BY <2>1, <2>2 DEF StatsInv, StatsOk
<1>6. \A x \in Values : ValueInv(x, F, o)'
  <2> SUFFICES ASSUME NEW x \in Values PROVE ValueInv(x, F, o)'
    OBVIOUS
  <2>1. CASE x = v
    <3>1. Missing(v)' = loc'.to_allocate
      BY DEF Missing
    <3> QED BY <2>1, <3>1 DEF ValueInv, ValueOk
  <2>2. CASE x # v
    <3>1. pc[x] # "popping"
      BY <1>1, <2>2
    <3> HIDE DEF HeadsNow
    <3> QED BY <2>2, <3>1, OthersKeep
  <2> QED BY <2>1, <2>2
<1> QED BY <1>4, <1>5, <1>6 DEF HeapInv

LEMMA AllocMoreInv ==
    ASSUME HeapInv, NEW v \in Values, AllocMore(v)
    PROVE  HeapInv'
<1> USE InvType
<1>1. PICK E, own, rank, top : /\ Shape(E, own, rank, top) /\ StatsInv(E, own)
                               /\ \A x \in Values : ValueInv(x, E, own)
  BY DEF HeapInv
<1>2. PICK to \in Nat, p \in PtrOrNull, al \in Nat :
        /\ to = loc.to_allocate /\ p = heap.first_extent /\ al = loc.allocated
        /\ to > 0 /\ p # Null /\ pc[v] = "popping"
  BY DEF AllocMore, TypeInv, HeapType
<1>3. /\ heap' = Take(v).heap
      /\ first' = [first EXCEPT ![v] = Take(v).first]
      /\ small' = [small EXCEPT ![v] = Take(v).small]
      /\ loc' = [loc EXCEPT !.to_allocate = Take(v).to_allocate,
                            !.allocated = Take(v).allocated]
      /\ lock' = lock /\ pc' = pc /\ vsize' = vsize /\ left' = left
  BY DEF AllocMore
<1>4. HeapOk(heap, E, own, rank, top, HeadsNow, Cut, new_addr, new_addr)
  BY <1>1 DEF Shape
<1>5. HeadsNow[v] = first[v] /\ v \notin Cut
  BY <1>2 DEF HeadsNow, Cut, Lists
<1> HIDE DEF HeadsNow, Cut
<1>6. PICK es \in Nat : es = extent_size /\ es >= 6
  BY ExtentSize
<1>7. PICK A \in Nat : A = AlignUp(to + 2, extent_size) /\ Mult(A) /\ A >= to + 2
  <2>1. to + 2 \in Nat
    OBVIOUS
  <2>2. AlignUp(to + 2, extent_size) \in Int /\ Mult(AlignUp(to + 2, extent_size))
        /\ AlignUp(to + 2, extent_size) >= to + 2
    BY <2>1, RoundUp
  <2> QED BY <2>2
<1> DEFINE g == InsertUsed(Carving(heap, A), Carved(heap, A), first[v])
           D == Of(E, own, v)
           U == Used(E, own)
           m == heap.mem
<1>8. /\ p \in FreeIn(E, own) /\ Sz(m, p) \in Nat
      /\ Carved(heap, A).ptr + HEADER_SIZE = p
      /\ Splits(heap, A) <=> Sz(m, p) + 2 >= A + es
      /\ Carved(heap, A).size = IF Splits(heap, A) THEN A ELSE Sz(m, p) + 2
      /\ Took(heap, g, E, own, HeadsNow, Cut, v, p, A)
  <2>1. A > 0
    BY <1>7
  <2>2. HeadsNow[v] = first[v]
    BY <1>5
  <2> HIDE DEF g
  <2>3. g = InsertUsed(Carving(heap, A), Carved(heap, A), HeadsNow[v])
    BY <2>2 DEF g
  <2> QED BY <1>2, <1>4, <1>5, <1>6, <1>7, <2>1, <2>3, OkTake
<1>9. PICK F, o, r, t, k :
            /\ HeapOk(g, F, o, r, t, k, Cut, new_addr, new_addr)
            /\ Kept(m, g.mem, E, own, HeadsNow, F, o, k, v, D)
            /\ Of(F, o, v) = D \cup {p}
            /\ k[v] = p
            /\ g.size_used = heap.size_used
            /\ Sz(g.mem, p) + 2 = Carved(heap, A).size
            /\ FreeTaken(E, own, F, o, p, Splits(heap, A))
  BY <1>8 DEF Took
<1> HIDE DEF g
<1>10. /\ Used(F, o) = U \cup {p} /\ p \notin U /\ p \in F
       /\ \A q \in U : Sz(g.mem, q) = Sz(m, q)
       /\ \A X \in SUBSET U : Weight(g.mem, X \cup {p}) = Weight(m, X) + Sz(g.mem, p)
  <2>1. p \in F /\ TookBytes(heap.mem, g.mem, Used(E, own), Used(F, o), p)
    BY <1>4, <1>8, <1>9, TakenWeights
  <2> QED BY <2>1 DEF TookBytes
<1>11. /\ Tiles(m, E, new_addr, new_addr) /\ Tiles(g.mem, F, new_addr, new_addr)
       /\ Aligned(g.mem, F) /\ Aligned(m, E)
  BY <1>4, <1>9 DEF HeapOk
<1>12. PICK z \in Nat : z = Sz(g.mem, p)
  BY <1>10, <1>11 DEF Tiles
<1>13. /\ Carved(heap, A).size = z + 2
       /\ z + 2 = A \/ z + 2 < A + es
       /\ z < to => ~Splits(heap, A)
  <2>1. Carved(heap, A).size = z + 2
    BY <1>9, <1>12
  <2> QED BY <1>7, <1>8, <2>1
<1> DEFINE sm == IF small[v] = Null /\ z + 2 = es THEN p ELSE small[v]
           spare == z > to /\ z - to >= es - 2 /\ sm # Null
<1>14. Take(v) = [heap |-> IF spare THEN FreeExtent(g, sm) ELSE g,
                  first |-> p, small |-> sm,
                  to_allocate |-> IF z <= to THEN to - z ELSE 0,
                  allocated |-> loc.allocated + z]
  <2>1. extent_size = es
    BY <1>6
  <2> QED BY <1>2, <1>7, <1>8, <1>13, <2>1, TakeIs DEF g
<1>15. U \in SUBSET E /\ D \in SUBSET U
  BY DEF Used, Of
<1>16. Incomplete(m, D, vsize[v], to, small[v])
  <2>1. Missing(v) = to
    BY <1>2 DEF Missing
  <2> QED BY <1>1, <1>2, <2>1 DEF ValueInv, ValueOk
<1>17. PICK N \in SUBSET D :
          /\ Weight(m, N) = al /\ Separate(m, N \cup FreeIn(E, own))
          /\ heap.size_used + al = Weight(m, U) /\ heap.size_used \in 0 .. new_size
  BY <1>1, <1>2 DEF StatsInv, StatsOk, Taking
<1>18. /\ Weight(m, D) \in Nat /\ Weight(m, U) \in Nat
       /\ Weight(g.mem, D \cup {p}) = Weight(m, D) + z
       /\ Weight(g.mem, U \cup {p}) = Weight(m, U) + z
       /\ Weight(g.mem, N \cup {p}) = al + z
       /\ Weight(m, D) + to = vsize[v] /\ vsize[v] \in Nat
  <2>1. Weight(m, D) \in Nat /\ Weight(m, U) \in Nat
    <3>1. D \in SUBSET E
      BY <1>15
    <3> HIDE DEF D, U, m
    <3> QED BY <1>11, <1>15, <3>1, CoverFinite
  <2>2. N \in SUBSET U /\ U \in SUBSET U
    BY <1>15
  <2>3. Weight(m, D) + to = vsize[v] /\ vsize[v] \in Nat
    BY <1>16 DEF Incomplete, TypeInv
  <2> HIDE DEF D, U, m
  <2> QED BY <1>10, <1>12, <1>15, <1>17, <2>1, <2>2, <2>3
\* small_extent is one of the smallest size, if there is any.
<1>19. /\ sm = Null => \A q \in D \cup {p} : Sz(g.mem, q) # es - 2
       /\ sm # Null => sm \in D \cup {p} /\ Sz(g.mem, sm) = es - 2
  <2>1. /\ small[v] = Null => \A q \in D : Sz(m, q) # es - 2
        /\ small[v] # Null => small[v] \in D /\ Sz(m, small[v]) = es - 2
    BY <1>6, <1>16 DEF Incomplete
  <2>2. \A q \in D : Sz(g.mem, q) = Sz(m, q)
    BY <1>10, <1>15
  <2>3. p # Null
    BY <1>2
  <2>4. z + 2 = es <=> Sz(g.mem, p) = es - 2
    BY <1>6, <1>12
  <2> HIDE DEF D, U, m
  <2> QED BY <2>1, <2>2, <2>3, <2>4
<1>20. sm \in PtrOrNull /\ p \in Nat /\ p \in PtrOrNull
  <2>1. small[v] \in PtrOrNull
    BY DEF TypeInv
  <2>2. p \in Nat
    BY <1>10, <1>11 DEF Tiles
  <2> QED BY <2>1, <2>2 DEF PtrOrNull
<1> HIDE DEF sm
<1>21. /\ heap' = IF spare THEN FreeExtent(g, sm) ELSE g
       /\ first' = [first EXCEPT ![v] = p] /\ small' = [small EXCEPT ![v] = sm]
       /\ loc' = [loc EXCEPT !.to_allocate = IF z <= to THEN to - z ELSE 0,
                             !.allocated = al + z]
  BY <1>2, <1>3, <1>14
<1>22. /\ first'[v] = p /\ small'[v] = sm
       /\ \A x \in Values \ {v} : first'[x] = first[x] /\ small'[x] = small[x]
       /\ first' \in [Values -> PtrOrNull] /\ small' \in [Values -> PtrOrNull]
  BY <1>20, <1>21 DEF TypeInv
<1>23. /\ loc' \in [to_allocate : Nat, allocated : Nat, ext : PtrOrNull, freed : Nat]
       /\ loc'.to_allocate = IF z <= to THEN to - z ELSE 0
       /\ loc'.allocated = al + z
  <2>1. (IF z <= to THEN to - z ELSE 0) \in Nat /\ al + z \in Nat
    OBVIOUS
  <2>2. PICK n \in Nat, b \in Nat : n = (IF z <= to THEN to - z ELSE 0) /\ b = al + z
    BY <2>1
  <2>3. loc' = [loc EXCEPT !.to_allocate = n, !.allocated = b]
    BY <1>21, <2>2
  <2>4. loc \in [to_allocate : Nat, allocated : Nat, ext : PtrOrNull, freed : Nat]
    BY DEF TypeInv
  <2>5. /\ loc' \in [to_allocate : Nat, allocated : Nat, ext : PtrOrNull, freed : Nat]
        /\ loc'.to_allocate = n /\ loc'.allocated = b
    BY <2>3, <2>4
  <2> QED BY <2>2, <2>5
<1>24. TypeInv'
  BY <1>3, <1>22, <1>23 DEF TypeInv
<1>25. CASE z < to
  <2>1. ~spare /\ heap' = g
    BY <1>21, <1>25
  <2>2. loc'.to_allocate > 0 /\ loc'.to_allocate = to - z
    BY <1>23, <1>25
  <2>3. Taking(g.mem, F, o, Of(F, o, v), al + z)
    <3>1. F = E /\ FreeIn(F, o) = FreeIn(E, own) \ {p}
      BY <1>9, <1>13, <1>25 DEF FreeTaken
    <3>2. (N \cup {p}) \cup FreeIn(F, o) = N \cup FreeIn(E, own)
      BY <1>8, <3>1
    <3>3. N \cup FreeIn(E, own) \in SUBSET E
      BY <1>15 DEF FreeIn
    <3>4. Separate(g.mem, N \cup FreeIn(E, own))
      <4> HIDE DEF m
      <4> QED BY <1>11, <1>17, <3>1, <3>3, SameNeighbours
    <3>5. N \cup {p} \in SUBSET Of(F, o, v)
      BY <1>9
    <3> QED BY <1>18, <3>2, <3>4, <3>5 DEF Taking
  <2>4. Incomplete(g.mem, Of(F, o, v), vsize[v], to - z, sm)
    <3>1. to - z \in Nat /\ to - z > 0
      BY <1>25
    <3>2. Weight(g.mem, D \cup {p}) + (to - z) = vsize[v]
      BY <1>18
    <3> HIDE DEF D
    <3> QED BY <1>6, <1>9, <1>19, <3>1, <3>2 DEF Incomplete
  <2>5. heap'.size_used \in 0 .. new_size
        /\ heap'.size_used + loc'.allocated = Weight(heap'.mem, Used(F, o))
    <3>1. heap.size_used \in Int /\ heap'.size_used = heap.size_used
      BY <1>9, <2>1
    <3>2. heap'.size_used + (al + z) = Weight(g.mem, U \cup {p})
      BY <1>17, <1>18, <3>1
    <3> QED BY <1>10, <1>17, <1>23, <2>1, <3>1, <3>2
  <2>6. loc'.to_allocate # 0
    BY <2>2
  <2>7. /\ HeapOk(heap', F, o, r, t, k, Cut, new_addr, new_addr)
        /\ Kept(heap.mem, heap'.mem, E, own, HeadsNow, F, o, k, v, D) /\ k[v] = p
    BY <1>9, <2>1
  <2>8. /\ Taking(heap'.mem, F, o, Of(F, o, v), loc'.allocated)
        /\ Incomplete(heap'.mem, Of(F, o, v), vsize[v], loc'.to_allocate, small'[v])
    BY <1>22, <1>23, <2>1, <2>2, <2>3, <2>4
  <2> HIDE DEF spare, D
  <2> QED BY <1>1, <1>2, <1>3, <1>22, <1>24, <2>5, <2>6, <2>7, <2>8, Alloced
\* The last iteration.
<1>26. CASE z >= to
  <2>1. loc'.to_allocate = 0
    BY <1>23, <1>26
  <2>2. /\ z < to + 2 * es
        /\ \A q1, q2 \in F \ {p} : Sz(g.mem, q1) # es - 2
              => z < to + Sz(g.mem, q1) + Sz(g.mem, q2)
        /\ RestFits => /\ \A q \in F \ {p} : Sz(g.mem, q) # es - 2 => z < to + Sz(g.mem, q)
                       /\ z < to + 2 * (es - 2)
    <3>1. to <= Sz(g.mem, p) /\ (Sz(g.mem, p) + 2 = A \/ Sz(g.mem, p) + 2 < A + extent_size)
      BY <1>6, <1>12, <1>13, <1>26
    <3>2. /\ Sz(g.mem, p) < to + 2 * extent_size
          /\ \A q1, q2 \in F \ {p} : Sz(g.mem, q1) # extent_size - 2
                => Sz(g.mem, p) < to + Sz(g.mem, q1) + Sz(g.mem, q2)
          /\ RestFits =>
               /\ \A q \in F \ {p} : Sz(g.mem, q) # extent_size - 2
                     => Sz(g.mem, p) < to + Sz(g.mem, q)
               /\ Sz(g.mem, p) < to + 2 * (extent_size - 2)
      BY <1>2, <1>7, <1>10, <1>11, <3>1, Excess
    <3> QED BY <1>6, <1>12, <3>2
  <2>3. D \cup {p} \subseteq F
    BY <1>9 DEF Of
  <2>4. CASE ~spare
    <3>1. heap' = g
      BY <1>21, <2>4
    <3>2. ASSUME NEW q \in D \cup {p}, q = p \/ Sz(g.mem, q) = es - 2
          PROVE  z < to + Sz(g.mem, q)
      <4>1. CASE q = p
        BY <1>2, <1>12, <4>1
      <4>2. CASE Sz(g.mem, q) = es - 2
        <5>1. sm # Null
          BY <1>19, <3>2, <4>2
        <5>2. z <= to \/ z - to < es - 2
          BY <2>4, <5>1
        <5> QED BY <1>2, <1>6, <4>2, <5>2
      <4> QED BY <3>2, <4>1, <4>2
    <3>3. Complete(g.mem, Of(F, o, v), vsize[v])
      <4>1. Weight(g.mem, D \cup {p}) = vsize[v] + (z - to)
        BY <1>18
      <4>2. \A q \in D \cup {p} : Sz(g.mem, q) \in Nat
        BY <1>11, <2>3 DEF Tiles
      <4>3. RestFits => \A q \in D \cup {p} : z < to + Sz(g.mem, q)
        BY <2>2, <2>3, <3>2
      <4>4. ASSUME NEW q1 \in D \cup {p}, NEW q2 \in D \cup {p}, q1 # q2
            PROVE  z < to + Sz(g.mem, q1) + Sz(g.mem, q2)
        <5>1. CASE z < to + Sz(g.mem, q1) \/ z < to + Sz(g.mem, q2)
          BY <1>2, <4>2, <5>1
        <5>2. CASE ~(z < to + Sz(g.mem, q1)) /\ ~(z < to + Sz(g.mem, q2))
          <6>1. q1 # p /\ q2 # p /\ Sz(g.mem, q1) # es - 2
            BY <3>2, <5>2
          <6>2. q1 \in F \ {p} /\ q2 \in F \ {p}
            BY <2>3, <6>1
          <6> QED BY <2>2, <6>1, <6>2
        <5> QED BY <5>1, <5>2
      <4> HIDE DEF D
      <4>5. RestFits =>
              \A q \in D \cup {p} : vsize[v] + (z - to) < vsize[v] + Sz(g.mem, q)
        BY <1>18, <4>2, <4>3
      <4>6. \A q1, q2 \in D \cup {p} : q1 # q2 =>
              vsize[v] + (z - to) < vsize[v] + Sz(g.mem, q1) + Sz(g.mem, q2)
        BY <1>18, <4>2, <4>4
      <4>7. vsize[v] <= vsize[v] + (z - to)
        BY <1>18, <1>26
      <4> QED BY <1>9, <4>1, <4>5, <4>6, <4>7 DEF Complete
    <3>4. heap'.size_used \in 0 .. new_size
          /\ heap'.size_used + loc'.allocated = Weight(heap'.mem, Used(F, o))
      <4>1. heap.size_used \in Int /\ heap'.size_used = heap.size_used
        BY <1>9, <3>1
      <4>2. heap'.size_used + (al + z) = Weight(g.mem, U \cup {p})
        BY <1>17, <1>18, <4>1
      <4> QED BY <1>10, <1>17, <1>23, <3>1, <4>1, <4>2
    <3>5. ~(loc'.to_allocate > 0)
      BY <2>1
    <3>6. /\ HeapOk(heap', F, o, r, t, k, Cut, new_addr, new_addr)
          /\ Kept(heap.mem, heap'.mem, E, own, HeadsNow, F, o, k, v, D) /\ k[v] = p
          /\ Complete(heap'.mem, Of(F, o, v), vsize[v])
      BY <1>9, <3>1, <3>3
    <3> HIDE DEF spare, D
    <3> QED BY <1>1, <1>2, <1>3, <1>22, <1>24, <3>4, <3>5, <3>6, Alloced
  <2>5. CASE spare
    <3>1. heap' = FreeExtent(g, sm) /\ sm # Null
      BY <1>21, <2>5
    <3>2. sm \in D \cup {p} /\ Sz(g.mem, sm) = es - 2 /\ sm # p /\ sm \in D
      <4>1. z # es - 2
        BY <1>2, <2>5
      <4> QED BY <1>12, <1>19, <3>1, <4>1
    <3>3. sm \in Of(F, o, v) /\ Sz(g.mem, sm) = extent_size - 2 /\ sm # k[v]
      BY <1>6, <1>9, <3>2
    <3>4. GaveBack(g, heap', F, o, k, Cut, v, sm)
      <4>1. GaveBack(g, FreeExtent(g, sm), F, o, k, Cut, v, sm)
        BY <1>5, <1>9, <3>3, OkFreeExtent
      <4> QED BY <3>1, <4>1
    <3>5. PICK G, w, b, c, j :
               /\ HeapOk(heap', G, w, b, c, j, Cut, new_addr, new_addr)
               /\ Kept(g.mem, heap'.mem, F, o, k, G, w, j, v, Of(F, o, v) \ {sm})
               /\ Of(G, w, v) = Of(F, o, v) \ {sm}
               /\ j[v] = k[v]
               /\ heap'.size_used = g.size_used - (extent_size - 2)
      BY <3>4 DEF GaveBack
    <3> DEFINE n == heap'.mem
               V == U \cup {p}
               C == D \cup {p}
    <3>6. Kept(m, n, E, own, HeadsNow, G, w, j, v, {})
      BY <1>9, <3>5, KeptTwice
    <3>7. /\ Used(G, w) = V \ {sm}
          /\ \A q \in V \ {sm} : Sz(n, q) = Sz(g.mem, q)
          /\ Weight(n, C \ {sm}) \in Nat /\ Weight(g.mem, C) = Weight(n, C \ {sm}) + (es - 2)
          /\ Weight(n, V \ {sm}) \in Nat /\ Weight(g.mem, V) = Weight(n, V \ {sm}) + (es - 2)
      <4>1. /\ Used(G, w) = Used(F, o) \ {sm}
            /\ \A q \in Used(F, o) \ {sm} : Sz(n, q) = Sz(g.mem, q)
            /\ \A X \in SUBSET Used(F, o) : sm \in X =>
                /\ Weight(n, X \ {sm}) \in Nat
                /\ Weight(g.mem, X) = Weight(n, X \ {sm}) + Sz(g.mem, sm)
        <5>1. GaveBytes(g.mem, heap'.mem, Used(F, o), Used(G, w), sm)
          BY <1>9, <3>3, <3>5, GivenWeights
        <5> QED BY <5>1 DEF GaveBytes
      <4>2. Used(F, o) = V /\ C \in SUBSET V /\ V \in SUBSET V /\ sm \in C /\ sm \in V
        BY <1>10, <1>15, <3>2
      <4> HIDE DEF V, C, n
      <4> QED BY <3>2, <4>1, <4>2
    <3>8. Of(G, w, v) = C \ {sm}
      BY <1>9, <3>5
    <3>9. Complete(n, C \ {sm}, vsize[v])
      <4>1. ASSUME NEW q \in C \ {sm}
            PROVE  Sz(n, q) >= es - 2 /\ Sz(n, q) \in Nat
        <5>1. q \in F /\ sm \in F /\ q # sm
          BY <2>3, <3>2, <4>1
        <5>2. Sz(g.mem, q) >= es - 2 /\ Sz(g.mem, q) \in Nat
          <6>1. Sz(g.mem, q) >= extent_size - 2
            BY <1>11, <5>1, NotAlone
          <6>2. Sz(g.mem, q) \in Nat
            BY <1>11, <5>1 DEF Tiles
          <6> QED BY <1>6, <6>1, <6>2
        <5>3. q \in V \ {sm}
          BY <1>15, <4>1
        <5> HIDE DEF V
        <5> QED BY <3>7, <5>2, <5>3
      <4> HIDE DEF C, n
      <4>2. Weight(n, C \ {sm}) = (vsize[v] + (z - to)) - (es - 2)
        BY <1>6, <1>18, <3>7 DEF C
      <4>3. /\ z - to >= es - 2 /\ z - to < 2 * es
            /\ RestFits => z - to < 2 * (es - 2)
        BY <1>6, <2>2, <2>5
      <4>4. /\ vsize[v] <= Weight(n, C \ {sm})
            /\ Weight(n, C \ {sm}) < vsize[v] + (es - 2) + (es - 2)
            /\ RestFits => Weight(n, C \ {sm}) < vsize[v] + (es - 2)
        BY <1>6, <1>18, <4>2, <4>3
      <4>5. RestFits => \A q \in C \ {sm} : Weight(n, C \ {sm}) < vsize[v] + Sz(n, q)
        BY <1>6, <1>18, <3>7, <4>1, <4>4
      <4>6. \A q1, q2 \in C \ {sm} : Weight(n, C \ {sm}) < vsize[v] + Sz(n, q1) + Sz(n, q2)
        BY <1>6, <1>18, <3>7, <4>1, <4>4
      <4> QED BY <4>4, <4>5, <4>6 DEF Complete
    <3>10. Weight(m, N) + (es - 2) <= Weight(m, U)
      <4>1. N \in SUBSET Used(E, own) /\ sm \in Used(E, own)
        BY <1>15, <3>2
      <4>2. Weight(heap.mem, N) + (extent_size - 2) <= Weight(heap.mem, Used(E, own))
        BY <1>4, <1>8, <1>17, <4>1, StillCounted
      <4> QED BY <1>6, <4>2
    <3>11. heap'.size_used = heap.size_used - (es - 2) /\ heap.size_used \in Int
      BY <1>6, <1>9, <3>5
    <3> HIDE DEF n, V, C
    <3>12. heap'.size_used \in 0 .. new_size
      <4> HIDE DEF U, m
      <4> QED BY <1>6, <1>17, <1>18, <3>10, <3>11, Layout
    <3>13. heap'.size_used + loc'.allocated = Weight(n, Used(G, w))
      <4>1. Weight(g.mem, V) = Weight(m, U) + z
        BY <1>18 DEF V
      <4> HIDE DEF U, m
      <4>2. PICK a \in Int, u2 \in Nat, c2 \in Nat :
               a = heap.size_used /\ u2 = Weight(m, U) /\ c2 = Weight(n, V \ {sm})
        BY <1>18, <3>7, <3>11
      <4>3. /\ a + al = u2 /\ heap'.size_used = a - (es - 2)
            /\ u2 + z = c2 + (es - 2)
        BY <1>17, <3>7, <3>11, <4>1, <4>2
      <4>4. heap'.size_used + (al + z) = Weight(n, V \ {sm})
        BY <4>2, <4>3
      <4> QED BY <1>23, <3>7, <4>4
    <3>14. ~(loc'.to_allocate > 0)
      BY <2>1
    <3>15. Complete(n, Of(G, w, v), vsize[v]) /\ j[v] = p
      BY <1>9, <3>5, <3>8, <3>9
    <3>16. /\ HeapOk(heap', G, w, b, c, j, Cut, new_addr, new_addr)
           /\ Kept(heap.mem, heap'.mem, E, own, HeadsNow, G, w, j, v, {}) /\ j[v] = p
           /\ Complete(heap'.mem, Of(G, w, v), vsize[v])
           /\ heap'.size_used + loc'.allocated = Weight(heap'.mem, Used(G, w))
      BY <3>5, <3>6, <3>13, <3>15 DEF n
    <3> HIDE DEF spare, sm, D, U, m, g
    <3> QED BY <1>1, <1>2, <1>3, <1>22, <1>24, <3>12, <3>14, <3>16, Alloced
  <2> QED BY <2>4, <2>5
<1> QED BY <1>25, <1>26

----------------------------------------------------------------------------
(* vmemcache_populate_extents *)

\* A sequence of extents, as EXTENTS_FOREACH meets them.
ExtentSeq(s) ==
    /\ Len(s) \in Nat
    /\ \A i \in 1 .. Len(s) : s[i].ptr \in Nat /\ s[i].size \in Nat

\* The loop before the first and after the next extent.
Filling(size) == [mem : Mem, size_left : 0 .. size, asserts : BOOLEAN]
FillFirst(h, size) == [mem |-> h.mem, size_left |-> size, asserts |-> TRUE]
FillStep(s, v, size, i, acc) ==
    LET ext == s[i]
        len == Min({ext.size, acc.size_left})
        done == size - acc.size_left
    IN  [mem |-> [a \in Cells |->
            IF a \in ext.ptr .. ext.ptr + len - 1
            THEN Datum(v, done + a - ext.ptr + 1) ELSE acc.mem[a]],
         size_left |-> acc.size_left - len,
         asserts |-> acc.asserts /\ acc.size_left > 0]

LEMMA DatumIs ==
    ASSUME NEW v \in Values, NEW i \in Nat
    PROVE  Datum(v, i) \in Cell /\ Datum(v, i).data = <<v, i>>
<1>1. Zero \in Cell
  BY DEF Zero, Tag, Cell, PtrOrNull
<1>2. Datum(v, i) = [Zero EXCEPT !.data = <<v, i>>]
  BY DEF Datum, Zero
<1>3. <<v, i>> \in {Null} \cup (Values \X Nat)
  OBVIOUS
<1> QED BY <1>1, <1>2, <1>3 DEF Cell

LEMMA FillStepType ==
    ASSUME NEW s, ExtentSeq(s), NEW v \in Values, NEW size \in Nat,
           NEW i \in 1 .. Len(s), NEW acc \in Filling(size)
    PROVE  LET len == IF s[i].size < acc.size_left THEN s[i].size ELSE acc.size_left
               new == FillStep(s, v, size, i, acc)
           IN  /\ new \in Filling(size)
               /\ new.size_left = acc.size_left - len
               /\ new.asserts <=> acc.asserts /\ acc.size_left > 0
               /\ \A a \in Cells :
                    /\ a \in s[i].ptr .. s[i].ptr + len - 1 =>
                         new.mem[a].data = <<v, (size - acc.size_left) + (a - s[i].ptr) + 1>>
                    /\ a \notin s[i].ptr .. s[i].ptr + len - 1 => new.mem[a] = acc.mem[a]
<1> DEFINE new == FillStep(s, v, size, i, acc)
<1>1. PICK p \in Nat, z \in Nat : p = s[i].ptr /\ z = s[i].size
  BY DEF ExtentSeq
<1>2. PICK y \in Nat : y = acc.size_left /\ y <= size
  BY DEF Filling
<1>3. PICK len \in Nat : len = (IF z < y THEN z ELSE y)
  OBVIOUS
<1>4. Min({s[i].size, acc.size_left}) = len
  <2>1. Min({z, y}) = len
    BY <1>3, MinTwo
  <2> QED BY <1>1, <1>2, <2>1
<1> DEFINE n == [a \in Cells |-> IF a \in p .. p + len - 1
                                THEN Datum(v, (size - y) + a - p + 1) ELSE acc.mem[a]]
<1>5. new = [mem |-> n, size_left |-> y - len, asserts |-> acc.asserts /\ y > 0]
  BY <1>1, <1>2, <1>4 DEF FillStep
<1>6. Cells \subseteq Nat
  BY HeapAssumption DEF Cells, HeapAssumption
<1>7. acc.mem \in Mem /\ acc.asserts \in BOOLEAN
  BY DEF Filling
<1>8. \A a \in Cells : a \in p .. p + len - 1 =>
          /\ (size - y) + a - p + 1 \in Nat
          /\ (size - y) + a - p + 1 = (size - y) + (a - p) + 1
  BY <1>2, <1>6
<1>9. ASSUME NEW a \in Cells
      PROVE  /\ n[a] \in Cell
             /\ a \in p .. p + len - 1 => n[a].data = <<v, (size - y) + (a - p) + 1>>
             /\ a \notin p .. p + len - 1 => n[a] = acc.mem[a]
  <2>1. CASE a \in p .. p + len - 1
    <3>1. PICK d \in Nat : d = (size - y) + a - p + 1 /\ d = (size - y) + (a - p) + 1
      BY <1>8, <2>1
    <3>2. n[a] = Datum(v, d)
      BY <2>1, <3>1
    <3> HIDE DEF n
    <3>3. n[a] \in Cell /\ n[a].data = <<v, d>>
      BY <3>2, DatumIs
    <3> QED BY <2>1, <3>1, <3>3
  <2>2. CASE a \notin p .. p + len - 1
    BY <1>7, <2>2 DEF Mem
  <2> QED BY <2>1, <2>2
<1>10. n \in Mem
  BY <1>9 DEF Mem
<1> HIDE DEF n, new
<1>11. y - len \in 0 .. size /\ y - len \in Int
  BY <1>2, <1>3
<1>12. /\ new.mem = n /\ new.size_left = y - len /\ new.asserts = (acc.asserts /\ y > 0)
       /\ new \in Filling(size)
  BY <1>5, <1>7, <1>10, <1>11 DEF Filling
<1>13. len = IF s[i].size < acc.size_left THEN s[i].size ELSE acc.size_left
  BY <1>1, <1>2, <1>3
<1> QED BY <1>1, <1>2, <1>9, <1>12, <1>13 DEF new

\* The loop is the repeated step.
Loops(c, s, h, v, size) ==
    /\ c[0] = FillFirst(h, size)
    /\ \A i \in 0 .. Len(s) : c[i] \in Filling(size)
    /\ \A i \in 1 .. Len(s) : c[i] = FillStep(s, v, size, i, c[i - 1])

IsPopulated(g, h, s, v, size) ==
    \E c : Loops(c, s, h, v, size) /\ g = c[Len(s)]

LEMMA FillLoops ==
    ASSUME NEW h \in HeapType, NEW v \in Values, NEW s, s = Extents(h, first[v]), ExtentSeq(s),
           NEW size \in Nat, size = vsize[v]
    PROVE  IsPopulated(Populating(h, v), h, s, v, size)
<1> DEFINE N == Len(s)
           S == Filling(size)
           G == [i \in 1 .. N |-> [acc \in S |-> FillStep(s, v, size, i, acc)]]
           Body(f) == [i \in 0 .. N |-> IF i = 0 THEN FillFirst(h, size)
                                        ELSE FillStep(s, v, size, i, f[i - 1])]
           Eqn(f) == f = Body(f)
           c == CHOOSE f : Eqn(f)
<1>1. N \in Nat
  BY DEF ExtentSeq
<1>2. FillFirst(h, size) \in S
  BY DEF FillFirst, Filling, HeapType
<1>3. \A i \in 1 .. N : \A acc \in S : FillStep(s, v, size, i, acc) \in S
  BY FillStepType
<1> HIDE DEF S, N
<1>4. G \in [1 .. N -> [S -> S]]
  BY <1>3
<1>5. PICK f \in [0 .. N -> S] :
         f[0] = FillFirst(h, size) /\ \A i \in 1 .. N : f[i] = G[i][f[i - 1]]
  <2> HIDE DEF G
  <2>1. PICK a \in S : a = FillFirst(h, size)
    BY <1>2
  <2>2. PICK n \in Nat : n = N
    BY <1>1
  <2>3. G \in [1 .. n -> [S -> S]]
    BY <1>4, <2>2
  <2>4. \E f \in [0 .. n -> S] : f[0] = a /\ \A i \in 1 .. n : f[i] = G[i][f[i - 1]]
    BY <2>3, Iterate
  <2> QED BY <2>1, <2>2, <2>4
<1>6. \A i \in 1 .. N : f[i] = FillStep(s, v, size, i, f[i - 1])
  <2> SUFFICES ASSUME NEW i \in 1 .. N PROVE f[i] = FillStep(s, v, size, i, f[i - 1])
    OBVIOUS
  <2>1. i - 1 \in 0 .. N
    BY <1>1
  <2>2. f[i - 1] \in S /\ f[i] = G[i][f[i - 1]]
    BY <1>5, <2>1
  <2> QED BY <2>2
<1> HIDE DEF G
<1>7. Eqn(f)
  <2>1. \A i \in 0 .. N : f[i] = IF i = 0 THEN FillFirst(h, size)
                                 ELSE FillStep(s, v, size, i, f[i - 1])
    <3> SUFFICES ASSUME NEW i \in 0 .. N
                 PROVE  f[i] = IF i = 0 THEN FillFirst(h, size)
                               ELSE FillStep(s, v, size, i, f[i - 1])
      OBVIOUS
    <3>1. i # 0 => i \in 1 .. N
      BY <1>1
    <3> QED BY <1>5, <1>6, <3>1
  <2>2. f = [i \in 0 .. N |-> f[i]]
    BY <1>5
  <2> QED BY <2>1, <2>2, Zenon
<1>8. Eqn(c)
  <2> HIDE DEF Eqn
  <2> QED BY <1>7
<1>9. Populating(h, v) = c[N]
  <2>1. Populating(h, v) =
          LET exts == Extents(h, first[v])
              d == CHOOSE e : e = [i \in 0 .. Len(exts) |->
                       IF i = 0 THEN FillFirst(h, vsize[v])
                       ELSE FillStep(exts, v, vsize[v], i, e[i - 1])]
          IN  d[Len(exts)]
    BY DEF Populating, FillFirst, FillStep
  <2> QED BY <2>1 DEF N
<1> HIDE DEF c
<1>10. c[0] = FillFirst(h, size) /\ \A i \in 1 .. N : c[i] = FillStep(s, v, size, i, c[i - 1])
  <2>1. \A i \in 0 .. N : c[i] = IF i = 0 THEN FillFirst(h, size)
                                 ELSE FillStep(s, v, size, i, c[i - 1])
    BY <1>8, Zenon
  <2> QED BY <1>1, <2>1
<1>11. \A i \in 0 .. N : c[i] \in S
  <2> DEFINE T == {i \in Nat : i \in 0 .. N /\ c[i] \notin S}
  <2>1. SUFFICES ASSUME T # {} PROVE FALSE
    BY <1>1
  <2>2. PICK i \in T : \A j \in T : i <= j
    <3> HIDE DEF T
    <3>1. T \in SUBSET Nat
      BY DEF T
    <3> QED BY <3>1, <2>1, Least
  <2>3. i # 0
    BY <1>2, <1>10
  <2>4. i \in 1 .. N /\ i - 1 \in 0 .. N /\ i - 1 \notin T /\ i - 1 \in Nat
    BY <1>1, <2>2, <2>3
  <2>5. c[i - 1] \in S
    BY <2>4
  <2>6. c[i] = FillStep(s, v, size, i, c[i - 1])
    BY <1>10, <2>4
  <2> QED BY <1>3, <2>4, <2>5, <2>6
<1>12. Loops(c, s, h, v, size)
  BY <1>10, <1>11 DEF Loops, N, S
<1> QED BY <1>9, <1>12 DEF N, IsPopulated

\* The bytes in the first i extents.
Before(s, i) == {s[j].ptr : j \in 1 .. i}
Prefix(m, s, i) == Weight(m, Before(s, i))

PrefixTotals(m, s, D) ==
    /\ Prefix(m, s, 0) = 0 /\ Prefix(m, s, Len(s)) = Weight(m, D)
    /\ \A i \in 0 .. Len(s) : Prefix(m, s, i) \in Nat /\ Prefix(m, s, i) <= Weight(m, D)
    /\ \A i \in 1 .. Len(s) : Prefix(m, s, i) = Prefix(m, s, i - 1) + Sz(m, s[i].ptr)

LEMMA PrefixSums ==
    ASSUME NEW m, NEW E, NEW lo, NEW hi, Tiles(m, E, lo, hi), NEW D \in SUBSET E,
           NEW s, NEW fst, Enumerates(m, s, D, fst)
    PROVE  PrefixTotals(m, s, D)
<1> DEFINE N == Len(s)
<1>1. /\ N \in Nat /\ \A i \in 1 .. N : s[i].ptr \in D
      /\ \A i, j \in 1 .. N : s[i].ptr = s[j].ptr => i = j
      /\ \A p \in D : \E i \in 1 .. N : s[i].ptr = p
  BY DEF Enumerates
<1> HIDE DEF N
<1>2. \A i \in 0 .. N : Before(s, i) \in SUBSET D
  BY <1>1 DEF Before
<1>3. \A i \in 0 .. N : Prefix(m, s, i) \in Nat /\ Prefix(m, s, i) <= Weight(m, D)
  <2> SUFFICES ASSUME NEW i \in 0 .. N
               PROVE  Prefix(m, s, i) \in Nat /\ Prefix(m, s, i) <= Weight(m, D)
    OBVIOUS
  <2>1. Before(s, i) \in SUBSET D /\ Before(s, i) \in SUBSET E
    BY <1>2
  <2>2. Weight(m, Before(s, i)) \in Nat
    BY <2>1, CoverFinite
  <2>3. Weight(m, Before(s, i)) <= Weight(m, D)
    BY <2>1, WeightSubset
  <2> QED BY <2>2, <2>3 DEF Prefix
<1>4. Before(s, 0) = {}
  BY DEF Before
<1>5. Before(s, N) = D
  BY <1>1 DEF Before
<1>6. \A i \in 1 .. N : Prefix(m, s, i) = Prefix(m, s, i - 1) + Sz(m, s[i].ptr)
  <2> SUFFICES ASSUME NEW i \in 1 .. N
               PROVE  Prefix(m, s, i) = Prefix(m, s, i - 1) + Sz(m, s[i].ptr)
    OBVIOUS
  <2>1. PICK p : p = s[i].ptr
    OBVIOUS
  <2>2. PICK X : X = Before(s, i - 1)
    OBVIOUS
  <2>3. i - 1 \in 0 .. N
    BY <1>1
  <2>4. X \in SUBSET E /\ p \in E
    BY <1>1, <1>2, <2>1, <2>2, <2>3
  <2>5. p \notin X
    <3>1. \A j \in 1 .. i - 1 : j \in 1 .. N /\ j # i
      BY <1>1
    <3> QED BY <1>1, <2>1, <2>2, <3>1 DEF Before
  <2>6. Before(s, i) = X \cup {p}
    <3>1. \A j : j \in 1 .. i <=> j \in 1 .. i - 1 \/ j = i
      BY <1>1
    <3> QED BY <2>1, <2>2, <3>1 DEF Before
  <2>7. Weight(m, X \cup {p}) = Weight(m, X) + Sz(m, p)
    BY <2>4, <2>5, WeightAdd
  <2> QED BY <2>1, <2>2, <2>6, <2>7 DEF Prefix
<1>7. Prefix(m, s, 0) = 0 /\ Prefix(m, s, N) = Weight(m, D)
  BY <1>4, <1>5, WeightEmpty DEF Prefix
<1> QED BY <1>3, <1>6, <1>7 DEF PrefixTotals, N

\* The memory n after i extents of the list s, when m was the memory before.
Filled(n, m, s, v, size, i) ==
    /\ n \in Mem
    /\ \A a \in Cells : a \notin Cover(m, Before(s, i)) => n[a] = m[a]
    /\ \A j \in 1 .. i : \A a \in s[j].ptr .. s[j].ptr + Sz(m, s[j].ptr) - 1 :
         Prefix(m, s, j - 1) + (a - s[j].ptr) < size =>
             n[a].data = <<v, Prefix(m, s, j - 1) + (a - s[j].ptr) + 1>>

\* If the rest of the pool fits, size_left is positive whenever there is another
\* extent.
LEMMA BytesLeft ==
    ASSUME NEW m, NEW E, NEW lo, NEW hi, Tiles(m, E, lo, hi), NEW D \in SUBSET E,
           NEW s, NEW fst, Enumerates(m, s, D, fst), NEW size \in Nat, Complete(m, D, size),
           NEW i \in 1 .. Len(s), RestFits
    PROVE  Prefix(m, s, i - 1) < size
<1>1. PrefixTotals(m, s, D)
  BY PrefixSums
<1>2. PICK p \in D : p = s[i].ptr
  BY DEF Enumerates
<1>3. p \in E /\ Sz(m, p) \in Nat
  BY DEF Tiles
<1>4. i - 1 \in 0 .. Len(s) /\ i \in 0 .. Len(s)
  BY DEF Enumerates
<1>5. /\ Prefix(m, s, i - 1) \in Nat /\ Prefix(m, s, i) <= Weight(m, D)
      /\ Prefix(m, s, i) = Prefix(m, s, i - 1) + Sz(m, p)
  BY <1>1, <1>2, <1>4 DEF PrefixTotals
<1>6. Weight(m, D) < size + Sz(m, p) /\ Weight(m, D) \in Nat
  <2>1. Weight(m, D) \in Nat
    BY CoverFinite
  <2> QED BY <2>1 DEF Complete
<1> QED BY <1>3, <1>5, <1>6

\* size_left when w bytes have been passed.
LeftAfter(size, w) == IF w < size THEN size - w ELSE 0

LEMMA FillTo ==
    ASSUME NEW h \in HeapType, NEW E, NEW lo, NEW hi, Tiles(h.mem, E, lo, hi),
           NEW D \in SUBSET E, NEW s, NEW fst, Enumerates(h.mem, s, D, fst),
           NEW v \in Values, NEW size \in Nat, Complete(h.mem, D, size),
           NEW c, Loops(c, s, h, v, size)
    PROVE  \A i \in 0 .. Len(s) :
               /\ Filled(c[i].mem, h.mem, s, v, size, i)
               /\ RestFits => c[i].asserts
               /\ c[i].size_left = LeftAfter(size, Prefix(h.mem, s, i))
<1> DEFINE m == h.mem
           N == Len(s)
           Good(i) == /\ Filled(c[i].mem, m, s, v, size, i)
                      /\ RestFits => c[i].asserts
                      /\ c[i].size_left = LeftAfter(size, Prefix(m, s, i))
           T == {i \in Nat : i \in 0 .. N /\ ~Good(i)}
<1>1. /\ N \in Nat
      /\ \A i \in 1 .. N : s[i].ptr \in D /\ s[i].size = Sz(m, s[i].ptr)
      /\ \A i, j \in 1 .. N : s[i].ptr = s[j].ptr => i = j
  BY DEF Enumerates
<1>2. m \in Mem
  BY DEF HeapType
<1>3. PrefixTotals(m, s, D)
  BY PrefixSums
<1>4. Good(0)
  <2>1. c[0] = FillFirst(h, size)
    BY DEF Loops
  <2>2. c[0].mem = m /\ c[0].size_left = size /\ c[0].asserts
    BY <2>1 DEF FillFirst
  <2>3. Prefix(m, s, 0) = 0
    BY <1>3 DEF PrefixTotals
  <2>4. Filled(m, m, s, v, size, 0)
    BY <1>2 DEF Filled
  <2>5. LeftAfter(size, 0) = size
    BY DEF LeftAfter
  <2> QED BY <2>2, <2>3, <2>4, <2>5
<1>5. ASSUME NEW i \in 1 .. N, Good(i - 1) PROVE Good(i)
  <2> DEFINE acc == c[i - 1]
             new == c[i]
             W == Prefix(m, s, i - 1)
  <2>1. i \in Nat /\ i - 1 \in 0 .. N /\ i - 1 < N /\ i - 1 \in Nat
    BY <1>1
  <2>2. PICK p \in Nat, z \in Nat : p = s[i].ptr /\ z = s[i].size /\ z = Sz(m, p) /\ p \in E
    BY <1>1 DEF Tiles
  <2>3. W \in Nat /\ (RestFits => W < size)
    <3>1. RestFits => W < size
      BY BytesLeft
    <3> QED BY <1>3, <2>1, <3>1 DEF PrefixTotals
  <2>4. /\ acc.size_left = LeftAfter(size, W) /\ (RestFits => acc.asserts)
        /\ Filled(acc.mem, m, s, v, size, i - 1)
    BY <1>5, <2>1
  <2>5. acc \in Filling(size) /\ new = FillStep(s, v, size, i, acc)
    BY <2>1 DEF Loops
  <2>6. ExtentSeq(s)
    BY <1>1 DEF ExtentSeq, Tiles
  <2> HIDE DEF acc, new
  <2>7. PICK u \in Nat, len \in Nat :
             /\ u = (IF W < size THEN size - W ELSE 0) /\ u = acc.size_left
             /\ len = (IF z < u THEN z ELSE u)
    BY <2>3, <2>4 DEF LeftAfter
  <2>8. /\ new \in Filling(size)
        /\ new.size_left = u - len
        /\ RestFits => new.asserts
        /\ \A a \in Cells :
                    /\ a \in p .. p + len - 1 => new.mem[a].data = <<v, W + (a - p) + 1>>
                    /\ a \notin p .. p + len - 1 => new.mem[a] = acc.mem[a]
    <3> HIDE DEF W
    <3>1. (W < size => size - u = W) /\ (~(W < size) => p .. p + len - 1 = {})
      BY <2>3, <2>7
    <3>2. len = IF s[i].size < acc.size_left THEN s[i].size ELSE acc.size_left
      BY <2>2, <2>7
    <3>3. /\ new \in Filling(size)
          /\ new.size_left = acc.size_left - len
          /\ new.asserts <=> acc.asserts /\ acc.size_left > 0
          /\ \A a \in Cells :
                    /\ a \in s[i].ptr .. s[i].ptr + len - 1 =>
                         new.mem[a].data = <<v, (size - acc.size_left) + (a - s[i].ptr) + 1>>
                    /\ a \notin s[i].ptr .. s[i].ptr + len - 1 => new.mem[a] = acc.mem[a]
      BY <2>5, <2>6, <3>2, FillStepType
    <3>4. RestFits => acc.size_left > 0
      BY <2>3, <2>7
    <3>5. ASSUME NEW a \in Cells, a \in p .. p + len - 1
          PROVE  new.mem[a].data = <<v, W + (a - p) + 1>>
      <4>1. W < size /\ size - acc.size_left = W
        BY <2>7, <3>1, <3>5
      <4> QED BY <2>2, <3>3, <3>5, <4>1
    <3> QED BY <2>2, <2>4, <2>7, <3>3, <3>4, <3>5
  <2>9. new.size_left = LeftAfter(size, Prefix(m, s, i))
    <3>1. Prefix(m, s, i) = W + z
      BY <1>3, <2>2 DEF PrefixTotals
    <3> HIDE DEF W
    <3> QED BY <2>3, <2>7, <2>8, <3>1 DEF LeftAfter
  <2>10. new.mem \in Mem
    BY <2>8 DEF Filling
  <2>11. ASSUME NEW a \in Cells, a \notin Cover(m, Before(s, i)) PROVE new.mem[a] = m[a]
    <3>1. Before(s, i - 1) \subseteq Before(s, i) /\ p \in Before(s, i)
      BY <2>1, <2>2 DEF Before
    <3>2. a \notin p .. p + z - 1
      BY <2>2, <2>11, <3>1, CoverIn
    <3>3. a \notin Cover(m, Before(s, i - 1))
      BY <2>11, <3>1, CoverIn
    <3>4. a \notin p .. p + len - 1
      BY <2>3, <2>7, <3>2
    <3>5. acc.mem[a] = m[a]
      BY <2>4, <3>3 DEF Filled
    <3> QED BY <2>8, <3>4, <3>5
  <2>12. ASSUME NEW j \in 1 .. i, NEW a \in s[j].ptr .. s[j].ptr + Sz(m, s[j].ptr) - 1,
                Prefix(m, s, j - 1) + (a - s[j].ptr) < size
         PROVE  new.mem[a].data = <<v, Prefix(m, s, j - 1) + (a - s[j].ptr) + 1>>
    <3>1. j \in 1 .. N
      BY <1>1
    <3>2. PICK q \in Nat, y \in Nat : q = s[j].ptr /\ y = Sz(m, q) /\ q \in E
      BY <1>1, <3>1 DEF Tiles
    <3>3. a \in Cells
      BY <2>12, <3>2, EntryInCells
    <3>4. CASE j = i
      <4>1. q = p /\ y = z
        BY <2>2, <3>2, <3>4
      <4>2. a \in p .. p + z - 1 /\ W + (a - p) < size
        BY <2>12, <3>2, <3>4, <4>1
      <4>3. a \in p .. p + len - 1
        <5> HIDE DEF W
        <5> QED BY <2>3, <2>7, <4>2
      <4>4. new.mem[a].data = <<v, W + (a - p) + 1>>
        BY <2>8, <3>3, <4>3
      <4> QED BY <2>2, <3>4, <4>4
    <3>5. CASE j # i
      <4>1. j \in 1 .. i - 1
        BY <2>1, <3>5
      <4>2. q # p /\ (q < p => q + y + 2 <= p) /\ (p < q => p + z + 2 <= q)
        BY <1>1, <2>2, <3>1, <3>2, <3>5 DEF Tiles
      <4>3. a \in q .. q + y - 1
        BY <3>2
      <4>4. a \notin p .. p + len - 1
        <5>1. len <= z
          BY <2>3, <2>7
        <5>2. PICK b \in Int : b = a
          BY <4>3
        <5>3. q <= b /\ b <= q + y - 1
          BY <4>3, <5>2
        <5>4. b < p \/ p + len - 1 < b
          BY <4>2, <5>1, <5>3
        <5> QED BY <5>2, <5>4
      <4>5. acc.mem[a].data = <<v, Prefix(m, s, j - 1) + (a - s[j].ptr) + 1>>
        BY <2>4, <2>12, <4>1 DEF Filled
      <4> QED BY <2>8, <3>3, <4>4, <4>5
    <3> QED BY <3>4, <3>5
  <2>13. Filled(new.mem, m, s, v, size, i)
    BY <2>10, <2>11, <2>12 DEF Filled
  <2> QED BY <2>8, <2>9, <2>13 DEF new
<1> HIDE DEF Good
<1>6. SUFFICES ASSUME T # {} PROVE FALSE
  BY <1>1 DEF Good
<1>7. PICK i \in T : \A j \in T : i <= j
  <2> HIDE DEF T
  <2>1. T \in SUBSET Nat
    BY DEF T
  <2> QED BY <2>1, <1>6, Least
<1>8. i # 0
  BY <1>4
<1>9. i \in 1 .. N /\ i - 1 \in 0 .. N /\ i - 1 \notin T /\ i - 1 \in Nat
  BY <1>1, <1>7, <1>8
<1>10. Good(i - 1)
  BY <1>9
<1> QED BY <1>5, <1>9, <1>10

\* The list goes on exactly where the sequence does.
LEMMA NextInSeq ==
    ASSUME NEW h, NEW E, NEW own, NEW rank, NEW top, NEW hd, NEW cut, NEW lo, NEW hi,
           HeapOk(h, E, own, rank, top, hd, cut, lo, hi), NEW x \in Lists,
           NEW s, Enumerates(h.mem, s, Of(E, own, x), hd[x]),
           NEW j \in 1 .. Len(s), Nx(h.mem, s[j].ptr) # Null
    PROVE  j + 1 \in 1 .. Len(s) /\ s[j + 1].ptr = Nx(h.mem, s[j].ptr)
<1> DEFINE m == h.mem
           N == Len(s)
           D == Of(E, own, x)
<1>1. /\ N \in Nat /\ \A i \in 1 .. N : s[i].ptr \in D
      /\ \A i, k \in 1 .. N : s[i].ptr = s[k].ptr => i = k
      /\ \A p \in D : \E i \in 1 .. N : s[i].ptr = p
      /\ N > 0 => s[1].ptr = hd[x]
      /\ \A i \in 1 .. N : i + 1 <= N => s[i + 1].ptr = Nx(m, s[i].ptr)
  BY DEF Enumerates
<1>2. PICK p \in D : p = s[j].ptr
  BY <1>1
<1>3. PICK q : q = Nx(m, p)
  OBVIOUS
<1>4. \A e \in D : Nx(m, e) # Null =>
            Nx(m, e) \in D /\ Pv(m, Nx(m, e)) = e /\ Nx(m, e) # hd[x]
  <2>1. Forward(m, E, own, rank, hd)
    BY DEF HeapOk, Links
  <2> QED BY <2>1 DEF Forward, Of
<1> HIDE DEF D
<1>5. q \in D /\ Pv(m, q) = p /\ q # hd[x]
  BY <1>2, <1>3, <1>4
<1>6. PICK i \in 1 .. N : s[i].ptr = q
  BY <1>1, <1>5
<1>7. i # 1
  BY <1>1, <1>5, <1>6
<1>8. PICK k \in 1 .. N : k + 1 = i
  BY <1>1, <1>7
<1>9. Nx(m, s[k].ptr) = q /\ s[k].ptr \in D
  <2>1. k + 1 <= N
    BY <1>1, <1>8
  <2> QED BY <1>1, <1>6, <1>8, <2>1
<1>10. Nx(m, s[k].ptr) # Null
  BY <1>2, <1>3, <1>9
<1>11. Pv(m, q) = s[k].ptr
  BY <1>9, <1>10, <1>4
<1>12. k = j
  <2>1. s[k].ptr = s[j].ptr
    BY <1>2, <1>5, <1>11
  <2>2. \A a, b \in 1 .. N : s[a].ptr = s[b].ptr => a = b
    BY <1>1
  <2> QED BY <2>1, <2>2
<1> QED BY <1>2, <1>3, <1>6, <1>8, <1>12

LEMMA FillWritten ==
    ASSUME NEW h, NEW E, NEW own, NEW rank, NEW top, NEW hd, NEW cut, NEW lo, NEW hi,
           HeapOk(h, E, own, rank, top, hd, cut, lo, hi), NEW v \in Values,
           NEW s, Enumerates(h.mem, s, Of(E, own, v), hd[v]),
           NEW size \in Nat, NEW n, Filled(n, h.mem, s, v, size, Len(s)),
           \A q \in Of(E, own, v) : Sz(n, q) = Sz(h.mem, q) /\ Nx(n, q) = Nx(h.mem, q)
    PROVE  Written(n, Of(E, own, v), v, hd[v], size)
<1> DEFINE m == h.mem
           N == Len(s)
           D == Of(E, own, v)
           Idx(q) == CHOOSE j \in 1 .. N : s[j].ptr = q
           base == [q \in Nat |-> IF q \in D THEN Prefix(m, s, Idx(q) - 1) ELSE 0]
<1>1. /\ N \in Nat /\ \A i \in 1 .. N : s[i].ptr \in D
      /\ \A i, k \in 1 .. N : s[i].ptr = s[k].ptr => i = k
      /\ \A p \in D : \E i \in 1 .. N : s[i].ptr = p
      /\ N > 0 => s[1].ptr = hd[v]
  BY DEF Enumerates
<1>2. Tiles(m, E, lo, hi) /\ D \in SUBSET E /\ D \subseteq Nat
  BY DEF HeapOk, Of, Tiles
<1>3. PrefixTotals(m, s, D)
  BY <1>2, PrefixSums
<1>4. \A q \in D : Idx(q) \in 1 .. N /\ s[Idx(q)].ptr = q
  BY <1>1
<1>5. \A j \in 1 .. N : Idx(s[j].ptr) = j
  BY <1>1, <1>4
<1> HIDE DEF Idx
<1>6. base \in [Nat -> Nat]
  <2>1. \A q \in D : Idx(q) - 1 \in 0 .. N
    BY <1>1, <1>4
  <2>2. \A q \in D : Prefix(m, s, Idx(q) - 1) \in Nat
    BY <1>3, <2>1 DEF PrefixTotals
  <2> HIDE DEF D, m
  <2> QED BY <2>2
<1>7. \A j \in 1 .. N : base[s[j].ptr] = Prefix(m, s, j - 1)
  <2> SUFFICES ASSUME NEW j \in 1 .. N PROVE base[s[j].ptr] = Prefix(m, s, j - 1)
    OBVIOUS
  <2>1. s[j].ptr \in D /\ s[j].ptr \in Nat /\ Idx(s[j].ptr) = j
    BY <1>1, <1>2, <1>5
  <2> HIDE DEF D, m
  <2> QED BY <2>1
<1> HIDE DEF base
<1>8. hd[v] # Null => base[hd[v]] = 0
  <2> SUFFICES ASSUME hd[v] # Null PROVE base[hd[v]] = 0
    OBVIOUS
  <2>1. hd[v] \in D
    BY DEF HeapOk, Links, Heads, Of, Lists
  <2>2. 1 \in 1 .. N /\ s[1].ptr = hd[v]
    BY <1>1, <2>1
  <2>3. base[s[1].ptr] = Prefix(m, s, 1 - 1) /\ 1 - 1 = 0
    BY <1>7, <2>2
  <2> QED BY <1>3, <2>2, <2>3 DEF PrefixTotals
<1>9. ASSUME NEW p \in D
      PROVE  /\ Nx(n, p) # Null => base[Nx(n, p)] = base[p] + Sz(n, p)
             /\ \A a \in p .. p + Sz(n, p) - 1 :
                  base[p] + (a - p) < size => n[a].data = <<v, base[p] + (a - p) + 1>>
  <2>1. Sz(n, p) = Sz(m, p) /\ Nx(n, p) = Nx(m, p)
    OBVIOUS
  <2>2. PICK j \in 1 .. N : s[j].ptr = p
    BY <1>1
  <2>3. base[p] = Prefix(m, s, j - 1)
    BY <1>7, <2>2
  <2>4. Nx(m, p) # Null => base[Nx(m, p)] = base[p] + Sz(m, p)
    <3> SUFFICES ASSUME Nx(m, p) # Null PROVE base[Nx(m, p)] = base[p] + Sz(m, p)
      OBVIOUS
    <3>1. j + 1 \in 1 .. N /\ s[j + 1].ptr = Nx(m, s[j].ptr)
      <4>1. v \in Lists
        BY DEF Lists
      <4> QED BY <2>2, <4>1, NextInSeq
    <3>2. base[Nx(m, p)] = Prefix(m, s, (j + 1) - 1) /\ (j + 1) - 1 = j
      BY <1>1, <1>7, <2>2, <3>1
    <3>3. Prefix(m, s, j) = Prefix(m, s, j - 1) + Sz(m, p)
      BY <1>3, <2>2 DEF PrefixTotals
    <3> QED BY <2>3, <3>2, <3>3
  <2>5. \A a \in p .. p + Sz(m, p) - 1 :
             base[p] + (a - p) < size => n[a].data = <<v, base[p] + (a - p) + 1>>
    BY <2>2, <2>3 DEF Filled
  <2> QED BY <2>1, <2>4, <2>5
<1> QED BY <1>6, <1>8, <1>9 DEF Written

\* The tags are all that the lists depend on.
LEMMA OkWrite ==
    ASSUME NEW h, NEW E, NEW own, NEW rank, NEW top, NEW hd, NEW cut, NEW lo, NEW hi,
           HeapOk(h, E, own, rank, top, hd, cut, lo, hi),
           NEW g \in HeapType, g.first_extent = h.first_extent, g.entries = h.entries, g.asserts,
           \A p \in E : /\ g.mem[p - 1] = h.mem[p - 1]
                        /\ g.mem[p + Sz(h.mem, p)] = h.mem[p + Sz(h.mem, p)],
           g.mem[new_addr - 1] = h.mem[new_addr - 1],
           g.mem[new_addr + new_size] = h.mem[new_addr + new_size]
    PROVE  HeapOk(g, E, own, rank, top, hd, cut, lo, hi)
<1> DEFINE m == h.mem
           n == g.mem
<1>1. \A p \in E : Sz(n, p) = Sz(m, p) /\ Nx(n, p) = Nx(m, p) /\ Pv(n, p) = Pv(m, p)
  BY DEF Sz, Nx, Pv
<1>2. /\ Tiles(m, E, lo, hi) /\ Tags(m, E, own) /\ Links(m, E, own, rank, top, hd, cut)
      /\ Aligned(m, E) /\ Apart(m, E, own)
  BY DEF HeapOk
<1>3. Tiles(n, E, lo, hi)
  BY <1>1, <1>2, TilesFrame
<1>4. Tags(n, E, own)
  <2> SUFFICES ASSUME NEW p \in E
               PROVE  /\ n[p + Sz(n, p)].size = Sz(n, p)
                      /\ n[p - 1].allocated <=> own[p] # Null
                      /\ n[p + Sz(n, p)].allocated <=> own[p] # Null
    BY <1>2 DEF Tags
  <2>1. /\ m[p + Sz(m, p)].size = Sz(m, p)
        /\ m[p - 1].allocated <=> own[p] # Null
        /\ m[p + Sz(m, p)].allocated <=> own[p] # Null
    BY <1>2 DEF Tags
  <2>2. n[p - 1] = m[p - 1] /\ n[p + Sz(n, p)] = m[p + Sz(m, p)]
    BY <1>1
  <2> QED BY <1>1, <2>1, <2>2
<1>5. Links(n, E, own, rank, top, hd, cut)
  BY <1>1, <1>2, LinksFrame
<1>6. Aligned(n, E) /\ Apart(n, E, own)
  BY <1>1, <1>2 DEF Aligned, Apart
<1> QED BY <1>3, <1>4, <1>5, <1>6 DEF HeapOk

LEMMA StatsFrame ==
    ASSUME NEW m, NEW n, NEW E, NEW own, NEW used, NEW lk, NEW at, NEW l,
           \A q \in E : Sz(n, q) = Sz(m, q), StatsOk(m, used, E, own, lk, at, l)
    PROVE  StatsOk(n, used, E, own, lk, at, l)
<1>1. Weight(n, Used(E, own)) = Weight(m, Used(E, own))
  <2>1. \A q \in Used(E, own) : Sz(n, q) = Sz(m, q)
    BY DEF Used
  <2> QED BY <2>1, WeightSame
<1>2. ASSUME NEW v \in Values, Taking(m, E, own, Of(E, own, v), l.allocated)
      PROVE  Taking(n, E, own, Of(E, own, v), l.allocated)
  <2>1. PICK N \in SUBSET Of(E, own, v) :
           Weight(m, N) = l.allocated /\ Separate(m, N \cup FreeIn(E, own))
    BY <1>2 DEF Taking
  <2>2. N \subseteq E /\ FreeIn(E, own) \subseteq E
    BY DEF Of, FreeIn
  <2>3. Weight(n, N) = Weight(m, N)
    BY <2>2, WeightSame
  <2>4. Separate(n, N \cup FreeIn(E, own))
    BY <2>1, <2>2 DEF Separate
  <2> QED BY <2>1, <2>3, <2>4 DEF Taking
<1> QED BY <1>1, <1>2 DEF StatsOk

\* What is said of the places of a list, for the extents of the list.
LEMMA Places ==
    ASSUME NEW m, NEW s, NEW D, NEW fst, Enumerates(m, s, D, fst)
    PROVE  /\ DOMAIN s = 1 .. Len(s)
           /\ \A i \in 1 .. Len(s) : s[i].ptr \in D /\ s[i].size = Sz(m, s[i].ptr)
           /\ \A p \in D : \E i \in 1 .. Len(s) : s[i].ptr = p
<1>1. /\ DOMAIN s = 1 .. Len(s) /\ \A i \in 1 .. Len(s) : s[i].ptr \in D
      /\ \A p \in D : \E i \in 1 .. Len(s) : s[i].ptr = p
  BY DEF Enumerates
<1>2. ASSUME NEW i \in 1 .. Len(s) PROVE s[i].size = Sz(m, s[i].ptr)
  <2>1. s[i] = [ptr |-> s[i].ptr, size |-> Sz(m, s[i].ptr)]
    BY DEF Enumerates
  <2> QED BY <2>1
<1> QED BY <1>1, <1>2

\* What vmemcache_populate_extents does to a value that is complete.
LEMMA PopulateIs ==
    ASSUME HeapInv, NEW E, NEW own, NEW rank, NEW top, Shape(E, own, rank, top),
           NEW v \in Values, ValueInv(v, E, own), pc[v] = "fill", NEW s, s = Extents(heap, first[v])
    PROVE  /\ Enumerates(heap.mem, s, Of(E, own, v), first[v])
           /\ Complete(heap.mem, Of(E, own, v), vsize[v])
           /\ Filled(Populating(heap, v).mem, heap.mem, s, v, vsize[v], Len(s))
           /\ RestFits => Populating(heap, v).asserts
<1> USE InvType
<1> DEFINE m == heap.mem
           size == vsize[v]
           D == Of(E, own, v)
<1>1. HeapOk(heap, E, own, rank, top, HeadsNow, Cut, new_addr, new_addr)
  BY DEF Shape
<1>2. HeadsNow[v] = first[v] /\ v \in Lists
  BY DEF HeadsNow, Lists
<1>3. Enumerates(m, s, D, first[v])
  <2> HIDE DEF HeadsNow, Cut
  <2>1. Enumerates(heap.mem, Extents(heap, HeadsNow[v]), Of(E, own, v), HeadsNow[v])
    BY <1>1, <1>2, ExtentsEnumerate
  <2> QED BY <1>2, <2>1
<1>4. Tiles(m, E, new_addr, new_addr) /\ D \in SUBSET E
  BY <1>1 DEF HeapOk, Of
<1>5. Complete(m, D, size) /\ size \in Nat
  BY DEF ValueInv, ValueOk, TypeInv
<1> HIDE DEF size
<1>6. ExtentSeq(s)
  <2>1. \A p \in D : p \in Nat /\ Sz(m, p) \in Nat
    BY <1>4 DEF Tiles
  <2>2. Len(s) \in Nat
    BY <1>3 DEF Enumerates
  <2>3. \A i \in 1 .. Len(s) : s[i].ptr \in D /\ s[i].size = Sz(m, s[i].ptr)
    BY <1>3, Places
  <2> HIDE DEF D, m
  <2> QED BY <2>1, <2>2, <2>3 DEF ExtentSeq
<1>7. PICK c : Loops(c, s, heap, v, size) /\ Populating(heap, v) = c[Len(s)]
  <2>1. size = vsize[v]
    BY DEF size
  <2>2. IsPopulated(Populating(heap, v), heap, s, v, size)
    BY <1>5, <1>6, <2>1, FillLoops
  <2> QED BY <2>2 DEF IsPopulated
<1>8. Filled(c[Len(s)].mem, m, s, v, size, Len(s)) /\ (RestFits => c[Len(s)].asserts)
  <2>1. Len(s) \in 0 .. Len(s)
    BY <1>6 DEF ExtentSeq
  <2> QED BY <1>3, <1>4, <1>5, <1>7, <2>1, FillTo
<1> QED BY <1>3, <1>5, <1>7, <1>8 DEF size

LEMMA FillInv ==
    ASSUME HeapInv, NEW v \in Values, Fill(v)
    PROVE  HeapInv'
<1> USE InvType
<1> DEFINE m == heap.mem
           n == heap'.mem
           s == Extents(heap, first[v])
           size == vsize[v]
<1>1. PICK E, own, rank, top : /\ Shape(E, own, rank, top) /\ StatsInv(E, own)
                               /\ \A x \in Values : ValueInv(x, E, own)
  BY DEF HeapInv
<1> DEFINE D == Of(E, own, v)
<1>2. /\ pc[v] = "fill" /\ heap' = [heap EXCEPT !.mem = Populating(heap, v).mem]
      /\ pc' = [pc EXCEPT ![v] = "held"]
      /\ lock' = lock /\ vsize' = vsize /\ left' = left /\ first' = first /\ small' = small
      /\ loc' = loc
  BY DEF Fill, Goto, PopulateExtents
<1>3. pc'[v] = "held" /\ \A x \in Values \ {v} : pc'[x] = pc[x]
  BY <1>2 DEF TypeInv
<1>4. TypeInv'
  BY <1>2, <1>3 DEF TypeInv, Labels
<1>5. HeapOk(heap, E, own, rank, top, HeadsNow, Cut, new_addr, new_addr)
  BY <1>1 DEF Shape
<1>6. HeadsNow[v] = first[v] /\ v \in Lists
  BY <1>2 DEF HeadsNow, Lists
<1>7. Tiles(m, E, new_addr, new_addr) /\ D \in SUBSET E
  BY <1>5 DEF HeapOk, Of
<1>8. size \in Nat
  BY DEF TypeInv
<1>9. /\ Enumerates(m, s, D, first[v]) /\ Complete(m, D, size)
      /\ Filled(Populating(heap, v).mem, m, s, v, size, Len(s))
  BY <1>1, <1>2, PopulateIs
<1> HIDE DEF s, size
<1>10. /\ heap' \in HeapType /\ n = Populating(heap, v).mem /\ heap'.asserts
       /\ heap'.first_extent = heap.first_extent /\ heap'.entries = heap.entries
       /\ heap'.size_used = heap.size_used
  <2>1. Populating(heap, v).mem \in Mem
    BY <1>9 DEF Filled
  <2> QED BY <1>2, <1>5, <2>1 DEF HeapType, HeapOk
<1>14. Before(s, Len(s)) = D
  BY <1>9 DEF Before, Enumerates
<1>15. \A a \in Cells : a \notin Cover(m, D) => n[a] = m[a]
  BY <1>9, <1>10, <1>14 DEF Filled
<1> HIDE DEF n
\* Outside of the extents of v nothing is written.
<1>16. ASSUME NEW p \in E, NEW q \in D, NEW a \in q .. q + Sz(m, q) - 1
       PROVE  /\ a # p - 1 /\ a # p + Sz(m, p)
              /\ p \notin D => a \notin p .. p + Sz(m, p) - 1
              /\ a # new_addr - 1 /\ a # new_addr + new_size
  <2>1. PICK y \in Nat, z \in Nat : y = Sz(m, p) /\ z = Sz(m, q)
    BY <1>7 DEF Tiles
  <2>2. /\ p \in Nat /\ q \in Nat /\ new_addr < q /\ q + z < new_addr + new_size
        /\ (q < p => q + z + 2 <= p) /\ (p < q => p + y + 2 <= q)
    BY <1>7, <2>1 DEF Tiles
  <2>3. PICK b \in Int : b = a /\ q <= b /\ b <= q + z - 1
    BY <1>16, <2>1, <2>2
  <2>4. b # p - 1 /\ b # p + y /\ (p # q => b \notin p .. p + y - 1)
        /\ b # new_addr - 1 /\ b # new_addr + new_size
    BY <2>1, <2>2, <2>3, Layout
  <2>5. p \notin D => p # q
    BY <1>16
  <2> QED BY <2>1, <2>3, <2>4, <2>5
<1>17. \A p \in E : n[p - 1] = m[p - 1] /\ n[p + Sz(m, p)] = m[p + Sz(m, p)]
  <2> SUFFICES ASSUME NEW p \in E
               PROVE  n[p - 1] = m[p - 1] /\ n[p + Sz(m, p)] = m[p + Sz(m, p)]
    OBVIOUS
  <2>1. p - 1 \in Cells /\ p + Sz(m, p) \in Cells
    BY <1>7, EntryInCells
  <2>2. p - 1 \notin Cover(m, D) /\ p + Sz(m, p) \notin Cover(m, D)
    BY <1>16, CoverIn
  <2> QED BY <1>15, <2>1, <2>2
<1>18. n[new_addr - 1] = m[new_addr - 1] /\ n[new_addr + new_size] = m[new_addr + new_size]
  <2>1. new_addr - 1 \notin Cover(m, D) /\ new_addr + new_size \notin Cover(m, D)
    BY <1>7, <1>16, CoverIn
  <2> QED BY <1>15, <2>1, GuardCells
<1>19. HeapOk(heap', E, own, rank, top, HeadsNow, Cut, new_addr, new_addr)
  <2> HIDE DEF HeadsNow, Cut
  <2> QED BY <1>5, <1>10, <1>17, <1>18, OkWrite DEF n
<1>20. HeadsNow' = HeadsNow /\ Cut' = Cut
  BY <1>2, <1>3, <1>10 DEF HeadsNow, Lists, Cut
<1>21. Shape(E, own, rank, top)'
  BY <1>19, <1>20 DEF Shape
<1>22. \A q \in E : Sz(n, q) = Sz(m, q) /\ Nx(n, q) = Nx(m, q)
  BY <1>17 DEF Sz, Nx
<1>23. StatsInv(E, own)'
  <2>1. StatsOk(m, heap.size_used, E, own, lock, pc, loc)
    BY <1>1 DEF StatsInv
  <2>2. StatsOk(n, heap.size_used, E, own, lock, pc, loc)
    BY <1>22, <2>1, StatsFrame
  <2>3. \A x \in Values : pc[x] \in {"merging", "popping"} <=> x # v /\ pc[x] \in {"merging", "popping"}
    BY <1>2
  <2>4. \A x \in Values : (pc'[x] = "merging" <=> pc[x] = "merging")
                          /\ (pc'[x] = "popping" <=> pc[x] = "popping")
    BY <1>2, <1>3
  <2>5. StatsOk(n, heap.size_used, E, own, lock, pc', loc)
    BY <2>2, <2>4 DEF StatsOk
  <2> QED BY <1>2, <1>10, <2>5 DEF StatsInv, n
<1>24. ValueInv(v, E, own)'
  <2>1. Weight(n, D) = Weight(m, D)
    <3>1. \A q \in D : Sz(n, q) = Sz(m, q)
      BY <1>7, <1>22
    <3> HIDE DEF D, m
    <3> QED BY <3>1, WeightSame
  <2>2. Complete(n, D, size)
    BY <1>7, <1>9, <1>22, <2>1 DEF Complete
  <2>3. Written(n, D, v, first[v], size)
    <3>1. Filled(n, m, s, v, size, Len(s)) /\ Enumerates(m, s, D, HeadsNow[v])
      BY <1>6, <1>9, <1>10 DEF n
    <3>2. \A q \in D : Sz(n, q) = Sz(m, q) /\ Nx(n, q) = Nx(m, q)
      BY <1>7, <1>22
    <3>3. Written(n, D, v, HeadsNow[v], size)
      <4> HIDE DEF HeadsNow, Cut
      <4> QED BY <1>5, <1>8, <3>1, <3>2, FillWritten
    <3> QED BY <1>6, <3>3
  <2>4. ValueOk(n, D, v, "held", size, Missing(v)', small[v], first[v])
    BY <2>2, <2>3 DEF ValueOk
  <2> QED BY <1>2, <1>3, <2>4 DEF ValueInv, n, size
<1>25. ASSUME NEW x \in Values, x # v PROVE ValueInv(x, E, own)'
  <2> DEFINE X == Of(E, own, x)
  <2>1. ValueOk(m, X, x, pc[x], vsize[x], Missing(x), small[x], first[x])
    BY <1>1 DEF ValueInv
  <2>2. Missing(x)' = Missing(x)
    BY <1>2, <1>3, <1>25 DEF Missing
  <2>3. X \subseteq E /\ \A q \in X : q \notin D
    BY <1>25 DEF Of
  <2>4. ASSUME NEW q \in X, NEW a \in q .. q + Sz(m, q) - 1 PROVE n[a].data = m[a].data
    <3>1. a \in Cells
      BY <1>7, <2>3, <2>4, EntryInCells
    <3>2. a \notin Cover(m, D)
      BY <1>16, <2>3, <2>4, CoverIn
    <3> QED BY <1>15, <3>1, <3>2
  <2>5. \A q \in X : /\ Sz(n, q) = Sz(m, q) /\ Nx(n, q) = Nx(m, q)
                     /\ \A a \in q .. q + Sz(m, q) - 1 : n[a].data = m[a].data
    BY <1>22, <2>3, <2>4
  <2> HIDE DEF Missing
  <2>6. ValueOk(n, X, x, pc[x], vsize[x], Missing(x), small[x], first[x])
    <3> HIDE DEF X, m
    <3> QED BY <2>1, <2>5, ValueFrame
  <2> QED BY <1>2, <1>3, <1>25, <2>2, <2>6 DEF ValueInv, n
<1> QED BY <1>4, <1>21, <1>23, <1>24, <1>25 DEF HeapInv

----------------------------------------------------------------------------
(* The theorems *)

\* Every state that vmcache_alloc, vmcache_free and the copying into extents can
\* reach, for any pool, extent size and set of values, satisfies the invariant:
\* the entries tile the pool and are linked in one list each, what is missing of
\* a value is what its extents do not hold, a complete one has no two extents too
\* many (none, if the rest of the pool fits), and the statistics count the rest.
THEOREM HeapInvariant == Spec => []HeapInv
<1>1. Init => HeapInv
  BY InitInv
<1>2. HeapInv /\ [Next]_vars => HeapInv'
  <2> SUFFICES ASSUME HeapInv, [Next]_vars PROVE HeapInv'
    OBVIOUS
  <2>1. CASE Next
    <3>1. PICK v \in Values :
             \/ \E size \in Sizes : PutStart(v, size)
             \/ AllocLock(v) \/ AllocMore(v) \/ AllocReturn(v)
             \/ Evicted(v) \/ EvictFailed(v) \/ Fill(v)
             \/ Drop(v) \/ FreeLock(v) \/ FreeMore(v) \/ FreeDone(v)
      BY <2>1 DEF Next
    <3>2. CASE \E size \in Sizes : PutStart(v, size)
      BY <3>2, PutStartInv
    <3>3. CASE AllocLock(v)
      BY <3>3, AllocLockInv
    <3>4. CASE AllocMore(v)
      BY <3>4, AllocMoreInv
    <3>5. CASE AllocReturn(v)
      BY <3>5, AllocReturnInv
    <3>6. CASE Evicted(v) \/ EvictFailed(v) \/ Drop(v)
      BY <3>6, MoveInv
    <3>7. CASE Fill(v)
      BY <3>7, FillInv
    <3>8. CASE FreeLock(v)
      BY <3>8, FreeLockInv
    <3>9. CASE FreeMore(v)
      BY <3>9, FreeMoreInv
    <3>10. CASE FreeDone(v)
      BY <3>10, FreeDoneInv
    <3> QED BY <3>1, <3>2, <3>3, <3>4, <3>5, <3>6, <3>7, <3>8, <3>9, <3>10
  <2>2. CASE UNCHANGED vars
    <3>1. /\ heap' = heap /\ lock' = lock /\ pc' = pc /\ vsize' = vsize /\ left' = left
          /\ first' = first /\ small' = small /\ loc' = loc
      BY <2>2 DEF vars
    <3>2. TypeInv' /\ HeadsNow' = HeadsNow /\ Cut' = Cut
      BY <3>1 DEF HeapInv, TypeInv, HeadsNow, Cut
    <3>3. \A v : Missing(v)' = Missing(v)
      BY <3>1 DEF Missing
    <3>4. \A E, own : StatsInv(E, own)' <=> StatsInv(E, own)
      BY <3>1 DEF StatsInv
    <3>5. \A E, own, rank, top : Shape(E, own, rank, top)' <=> Shape(E, own, rank, top)
      BY <3>1, <3>2 DEF Shape
    <3>6. \A v, E, own : ValueInv(v, E, own)' <=> ValueInv(v, E, own)
      BY <3>1, <3>3 DEF ValueInv
    <3> QED BY <3>2, <3>4, <3>5, <3>6 DEF HeapInv
  <2> QED BY <2>1, <2>2
<1> QED BY <1>1, <1>2, PTL DEF Spec

\* The lists as EXTENTS_FOREACH meets them.
LEMMA ListsAre ==
    ASSUME NEW E, NEW own, NEW rank, NEW top, Shape(E, own, rank, top), NEW x \in Lists
    PROVE  /\ Enumerates(heap.mem, ListOf(x), Of(E, own, x), HeadsNow[x])
           /\ ListOf(x) = Extents(heap, HeadsNow[x])
<1>1. HeapOk(heap, E, own, rank, top, HeadsNow, Cut, new_addr, new_addr)
  BY DEF Shape
<1>2. ListOf(x) = Extents(heap, HeadsNow[x])
  <2>1. CASE x = Null
    BY <2>1 DEF ListOf, FreeList, HeadsNow
  <2>2. CASE x # Null
    BY <2>2 DEF ListOf, Owned, HeadsNow, Lists
  <2> QED BY <2>1, <2>2
<1> HIDE DEF HeadsNow, Cut
<1>3. Enumerates(heap.mem, Extents(heap, HeadsNow[x]), Of(E, own, x), HeadsNow[x])
  BY <1>1, ExtentsEnumerate
<1> QED BY <1>2, <1>3

LEMMA BytesAre ==
    ASSUME NEW E, NEW own, NEW rank, NEW top, Shape(E, own, rank, top), NEW v \in Values
    PROVE  Bytes(v) = Cover(heap.mem, Of(E, own, v))
<1> DEFINE s == Owned(v)
           D == Of(E, own, v)
           m == heap.mem
<1>1. v \in Lists /\ ListOf(v) = Owned(v)
  BY NullNoValue DEF Lists, ListOf
<1>2. Enumerates(m, s, D, HeadsNow[v])
  BY <1>1, ListsAre
<1> HIDE DEF s, D, m
<1>3. /\ DOMAIN s = 1 .. Len(s)
      /\ \A i \in 1 .. Len(s) : s[i].ptr \in D /\ s[i].size = Sz(m, s[i].ptr)
      /\ \A p \in D : \E i \in 1 .. Len(s) : s[i].ptr = p
  BY <1>2, Places
<1>4. Bytes(v) = UNION {s[i].ptr .. s[i].ptr + s[i].size - 1 : i \in DOMAIN s}
  BY DEF Bytes, ExtentCells, s
<1>5. \A a : a \in Bytes(v) <=> \E i \in 1 .. Len(s) : a \in s[i].ptr .. s[i].ptr + s[i].size - 1
  BY <1>3, <1>4
<1>6. \A i \in 1 .. Len(s) : s[i].ptr .. s[i].ptr + s[i].size - 1
                             = s[i].ptr .. s[i].ptr + Sz(m, s[i].ptr) - 1
  BY <1>3
<1>7. \A a : a \in Bytes(v) <=> a \in Cover(m, D)
  BY <1>3, <1>5, <1>6, CoverIn
<1>8. Bytes(v) = Cover(m, D)
  BY <1>7
<1> QED BY <1>8 DEF m, D

\* Merging of free entries, for any pool and any sequence of puts and releases:
\* when the lock is free and in the middle of a call, no two free entries are
\* neighbours ("heap entries were not merged" never happens).
THEOREM FreeEntriesAreMerged == Spec => []FreeEntriesMerged
<1>1. HeapInv => FreeEntriesMerged
  <2> SUFFICES ASSUME HeapInv PROVE FreeEntriesMerged
    OBVIOUS
  <2>1. PICK E, own, rank, top : Shape(E, own, rank, top)
    BY DEF HeapInv
  <2> DEFINE s == FreeList
             D == Of(E, own, Null)
             m == heap.mem
  <2>2. Enumerates(m, s, D, HeadsNow[Null])
    <3>1. Null \in Lists /\ ListOf(Null) = FreeList
      BY DEF Lists, ListOf
    <3> QED BY <2>1, <3>1, ListsAre
  <2>3. Apart(m, E, own)
    BY <2>1 DEF Shape, HeapOk
  <2>4. \A p, q \in D : p + Sz(m, p) + 2 # q
    BY <2>3 DEF Apart, Of
  <2> HIDE DEF s, D, m
  <2>5. /\ DOMAIN s = 1 .. Len(s)
        /\ \A i \in 1 .. Len(s) : s[i].ptr \in D /\ s[i].size = Sz(m, s[i].ptr)
    BY <2>2, Places
  <2>6. \A i, j \in DOMAIN s : s[i].ptr + s[i].size + 2 # s[j].ptr
    BY <2>4, <2>5
  <2>7. HFER_SIZE = 2
    BY DEF HFER_SIZE, HEADER_SIZE, FOOTER_SIZE
  <2> QED BY <2>6, <2>7 DEF FreeEntriesMerged, s
<1> QED BY <1>1, HeapInvariant, PTL

\* No assertion of vmemcache_heap.c can fail, for any pool, extent size, sizes of
\* values and interleaving of the calls; and none of vmemcache_populate_extents
\* for any extent size that goes into the pool with a rest that fits.
THEOREM AssertionsHold == Spec => []AssertsHold
<1>1. HeapInv => AssertsHold
  <2> SUFFICES ASSUME HeapInv PROVE AssertsHold
    OBVIOUS
  <2>1. PICK E, own, rank, top : /\ Shape(E, own, rank, top)
                                 /\ \A v \in Values : ValueInv(v, E, own)
    BY DEF HeapInv
  <2>2. heap.asserts
    BY <2>1 DEF Shape, HeapOk
  <2>3. ASSUME RestFits, NEW v \in Values, pc[v] = "fill" PROVE Populating(heap, v).asserts
    BY <2>1, <2>3, PopulateIs
  <2> QED BY <2>2, <2>3 DEF AssertsHold, PopulateAssertHolds
<1> QED BY <1>1, HeapInvariant, PTL

\* If the rest of the pool fits, what vmcache_alloc gave a complete value is never
\* more than it needs by as much as one of the value's extents; for any extent
\* size it is never more by as much as two of them.
THEOREM ExtentsAllNeeded == Spec => []NoSuperfluousExtent
<1>1. HeapInv => NoSuperfluousExtent
  <2> SUFFICES ASSUME HeapInv, NEW v \in Values, pc[v] \in {"fill", "held"}
               PROVE  /\ RestFits => \A i \in DOMAIN Owned(v) :
                            Cardinality(Bytes(v)) - Owned(v)[i].size < vsize[v]
                      /\ \A i, j \in DOMAIN Owned(v) : i # j =>
                            Cardinality(Bytes(v)) - Owned(v)[i].size - Owned(v)[j].size < vsize[v]
    BY DEF NoSuperfluousExtent
  <2>1. PICK E, own, rank, top : Shape(E, own, rank, top) /\ ValueInv(v, E, own)
    BY DEF HeapInv
  <2> DEFINE s == Owned(v)
             D == Of(E, own, v)
             m == heap.mem
  <2>2. Enumerates(m, s, D, HeadsNow[v])
    <3>1. v \in Lists /\ ListOf(v) = Owned(v)
      BY NullNoValue DEF Lists, ListOf
    <3> QED BY <2>1, <3>1, ListsAre
  <2>3. Cardinality(Bytes(v)) = Weight(m, D)
    BY <2>1, BytesAre DEF Weight
  <2>4. Complete(m, D, vsize[v]) /\ vsize[v] \in Nat
    BY <2>1 DEF ValueInv, ValueOk, HeapInv, TypeInv
  <2>5. Tiles(m, E, new_addr, new_addr) /\ D \in SUBSET E
    BY <2>1 DEF Shape, HeapOk, Of
  <2> HIDE DEF s, D, m
  <2>6. /\ \A i \in DOMAIN s : s[i].ptr \in D /\ s[i].size = Sz(m, s[i].ptr)
        /\ \A i, j \in DOMAIN s : i # j => s[i].ptr # s[j].ptr
    <3>1. DOMAIN s = 1 .. Len(s)
      BY <2>2, Places
    <3>2. \A i, j \in 1 .. Len(s) : s[i].ptr = s[j].ptr => i = j
      BY <2>2 DEF Enumerates
    <3>3. \A i \in 1 .. Len(s) : s[i].ptr \in D /\ s[i].size = Sz(m, s[i].ptr)
      BY <2>2, Places
    <3> QED BY <3>1, <3>2, <3>3
  <2>7. Weight(m, D) \in Nat /\ \A p \in D : Sz(m, p) \in Nat
    <3>1. Weight(m, D) \in Nat
      BY <2>5, CoverFinite
    <3> QED BY <2>5, <3>1 DEF Tiles
  <2>8. ASSUME RestFits, NEW i \in DOMAIN s PROVE Weight(m, D) - s[i].size < vsize[v]
    <3>1. Weight(m, D) < vsize[v] + Sz(m, s[i].ptr)
      BY <2>4, <2>6, <2>8 DEF Complete
    <3> QED BY <2>4, <2>6, <2>7, <3>1
  <2>9. ASSUME NEW i \in DOMAIN s, NEW j \in DOMAIN s, i # j
        PROVE  Weight(m, D) - s[i].size - s[j].size < vsize[v]
    <3>1. Weight(m, D) < vsize[v] + Sz(m, s[i].ptr) + Sz(m, s[j].ptr)
      BY <2>4, <2>6, <2>9 DEF Complete
    <3> QED BY <2>4, <2>6, <2>7, <3>1
  <2> QED BY <2>3, <2>8, <2>9 DEF s
<1> QED BY <1>1, HeapInvariant, PTL

\* The extent sizes that the manual recommends, multiples of 64 bytes, leave a
\* rest that fits, for every mapping: the guards are a multiple of 64 bytes too.
THEOREM RecommendedSizesFit ==
    extent_size % (2 * HFER_SIZE) = 0 /\ GUARD_SIZE % (2 * HFER_SIZE) = 0 => RestFits
<1> SUFFICES ASSUME extent_size % 4 = 0, GUARD_SIZE % 4 = 0 PROVE RestFits
  BY DEF HFER_SIZE, HEADER_SIZE, FOOTER_SIZE
<1>1. PICK j \in Nat : extent_size = 4 * j /\ j > 0
  <2>1. extent_size = 4 * (extent_size \div 4) /\ extent_size \div 4 \in Nat
    BY ExtentSize
  <2> QED BY <2>1, ExtentSize
<1>2. PICK k \in Nat : GUARD_SIZE = 4 * k /\ k > 0
  <2>1. GUARD_SIZE \in Nat \ {0}
    BY HeapAssumption DEF HeapAssumption, HFER_SIZE, HEADER_SIZE, FOOTER_SIZE
  <2>2. GUARD_SIZE = 4 * (GUARD_SIZE \div 4) /\ GUARD_SIZE \div 4 \in Nat
    BY <2>1
  <2> QED BY <2>1, <2>2
<1>3. PICK a \in Int : new_size = 4 * a
  <2>1. GUARD_SIZE \in Nat \ {0}
    BY <1>2
  <2>2. PICK s \in Int : s = MapLen - (new_addr - Addr) - GUARD_SIZE
    BY <2>1, Layout
  <2>3. PICK t \in 0 .. GUARD_SIZE - 1 : t = s % GUARD_SIZE
    BY <2>1
  <2>4. PICK q \in Int : q = s \div GUARD_SIZE
    BY <2>1
  <2>5. s = q * GUARD_SIZE + t
    BY <2>1, <2>3, <2>4
  <2>6. new_size = s - t
    BY <2>2, <2>3 DEF new_size, AlignDown
  <2>7. new_size = q * GUARD_SIZE
    BY <2>1, <2>5, <2>6
  <2>8. q * GUARD_SIZE = 4 * (q * k) /\ q * k \in Int
    BY <1>2
  <2> QED BY <2>7, <2>8
<1>4. PICK r \in 0 .. extent_size - 1 : r = new_size % extent_size /\ Mult(new_size - r)
  BY Rest
<1>5. PICK b \in Int : new_size - r = b * extent_size
  BY <1>4 DEF Mult
<1>6. b * extent_size = 4 * (b * j) /\ b * j \in Int
  BY <1>1
<1>7. PICK d \in Int : d = b * j /\ r = 4 * (a - d)
  <2>1. PICK d \in Int : d = b * j
    BY <1>6
  <2>2. new_size - r = 4 * d
    BY <1>5, <1>6, <2>1
  <2> QED BY <1>1, <1>3, <1>4, <2>1, <2>2
<1>8. r = 0 \/ (r >= 2 /\ r <= extent_size - 4)
  BY <1>1, <1>4, <1>7
<1> QED BY <1>1, <1>4, <1>8 DEF RestFits, HFER_SIZE, HEADER_SIZE, FOOTER_SIZE

\* The statistics: heap_entries_count is the number of free entries in every
\* state; heap_size_used is within the pool (so never wrapped around) in every
\* state, and is the number of bytes in use whenever no call is under way.
THEOREM StatsAreExact == Spec => []StatsExact
<1>1. HeapInv => StatsExact
  <2> SUFFICES ASSUME HeapInv PROVE StatsExact
    OBVIOUS
  <2>1. PICK E, own, rank, top : Shape(E, own, rank, top) /\ StatsInv(E, own)
    BY DEF HeapInv
  <2> DEFINE s == FreeList
             D == Of(E, own, Null)
             m == heap.mem
             U == Used(E, own)
  <2>2. Enumerates(m, s, D, HeadsNow[Null])
    <3>1. Null \in Lists /\ ListOf(Null) = FreeList
      BY DEF Lists, ListOf
    <3> QED BY <2>1, <3>1, ListsAre
  <2>3. heap.entries = Len(s)
    <3>1. heap.entries = Cardinality(D)
      BY <2>1 DEF Shape, HeapOk, FreeIn, Of
    <3> HIDE DEF s, D
    <3> DEFINE f == [i \in 1 .. Len(s) |-> s[i].ptr]
    <3>2. /\ Len(s) \in Nat /\ \A i \in 1 .. Len(s) : s[i].ptr \in D
          /\ \A i, j \in 1 .. Len(s) : s[i].ptr = s[j].ptr => i = j
          /\ \A p \in D : \E i \in 1 .. Len(s) : s[i].ptr = p
      BY <2>2 DEF Enumerates
    <3>3. f \in Bijection(1 .. Len(s), D)
      BY <3>2 DEF Bijection, Injection, Surjection, IsInjective
    <3>4. ExistsBijection(1 .. Len(s), D)
      BY <3>3 DEF ExistsBijection
    <3>5. IsFiniteSet(1 .. Len(s)) /\ Cardinality(1 .. Len(s)) = Len(s)
      <4>1. 1 \in Int /\ Len(s) \in Int
        BY <3>2
      <4>2. /\ IsFiniteSet(1 .. Len(s))
            /\ Cardinality(1 .. Len(s)) = IF 1 > Len(s) THEN 0 ELSE Len(s) - 1 + 1
        BY <4>1, FS_Interval
      <4> QED BY <3>2, <4>2
    <3>6. Cardinality(D) = Cardinality(1 .. Len(s))
      BY <3>4, <3>5, FS_Bijection
    <3> QED BY <3>1, <3>5, <3>6
  <2>4. UNION {Bytes(v) : v \in Values} = Cover(m, U)
    <3>1. \A v \in Values : Bytes(v) = Cover(m, Of(E, own, v))
      BY <2>1, BytesAre
    <3>2. E \subseteq Nat /\ own \in [Nat -> Lists] /\ Null \notin Values
      BY <2>1, NullNoValue DEF Shape, HeapOk, Links
    <3>3. \A p : p \in U <=> \E v \in Values : p \in Of(E, own, v)
      BY <3>2 DEF Used, Of, Lists
    <3> HIDE DEF U, m
    <3>4. \A a : a \in UNION {Bytes(v) : v \in Values} <=> a \in Cover(m, U)
      BY <3>1, <3>3, CoverIn
    <3> QED BY <3>4
  <2>5. heap.size_used \in 0 .. new_size /\ (lock = Null => heap.size_used = Weight(m, U))
    BY <2>1 DEF StatsInv, StatsOk
  <2> QED BY <2>3, <2>4, <2>5 DEF StatsExact, Weight
<1> QED BY <1>1, HeapInvariant, PTL

\* Whatever was split, merged and handed out before, for any pool and extent
\* size: every cell between the guards belongs to one heap entry, each entry is
\* at one place of one list and within the guards, and both its tags tell the
\* truth.
THEOREM PoolIsTiled == Spec => []EntriesTilePool
<1>1. HeapInv => EntriesTilePool
  <2> SUFFICES ASSUME HeapInv PROVE EntriesTilePool
    OBVIOUS
  <2>1. PICK E, own, rank, top : Shape(E, own, rank, top)
    BY DEF HeapInv
  <2> DEFINE m == heap.mem
             At(x, i) == [list |-> x, place |-> i, ext |-> ListOf(x)[i]]
             entries == UNION {{At(x, i) : i \in DOMAIN ListOf(x)} : x \in Lists}
  <2>2. /\ Tiles(m, E, new_addr, new_addr) /\ Tags(m, E, own) /\ m \in Mem
        /\ own \in [Nat -> Lists]
    BY <2>1 DEF Shape, HeapOk, HeapType, Links
  <2>3. ASSUME NEW x \in Lists
        PROVE  /\ DOMAIN ListOf(x) = 1 .. Len(ListOf(x))
               /\ \A i, j \in DOMAIN ListOf(x) : ListOf(x)[i].ptr = ListOf(x)[j].ptr => i = j
               /\ \A i \in DOMAIN ListOf(x) :
                    /\ ListOf(x)[i].ptr \in E /\ own[ListOf(x)[i].ptr] = x
                    /\ ListOf(x)[i].size = Sz(m, ListOf(x)[i].ptr)
               /\ \A p \in E : own[p] = x => \E i \in DOMAIN ListOf(x) : ListOf(x)[i].ptr = p
    <3>1. Enumerates(m, ListOf(x), Of(E, own, x), HeadsNow[x])
      BY <2>1, ListsAre
    <3> HIDE DEF m
    <3>2. /\ DOMAIN ListOf(x) = 1 .. Len(ListOf(x))
          /\ \A i \in 1 .. Len(ListOf(x)) :
               ListOf(x)[i].ptr \in Of(E, own, x) /\ ListOf(x)[i].size = Sz(m, ListOf(x)[i].ptr)
          /\ \A p \in Of(E, own, x) : \E i \in 1 .. Len(ListOf(x)) : ListOf(x)[i].ptr = p
      BY <3>1, Places
    <3>3. \A i, j \in 1 .. Len(ListOf(x)) : ListOf(x)[i].ptr = ListOf(x)[j].ptr => i = j
      BY <3>1 DEF Enumerates
    <3> QED BY <3>2, <3>3 DEF Of
  <2>4. \A e \in entries : \E x \in Lists : \E i \in DOMAIN ListOf(x) : e = At(x, i)
    OBVIOUS
  <2>5. \A x \in Lists : \A i \in DOMAIN ListOf(x) : At(x, i) \in entries
    OBVIOUS
  <2>6. ASSUME NEW e \in entries
        PROVE  \E x \in Lists : \E i \in DOMAIN ListOf(x) : \E p \in E :
                  /\ e = At(x, i) /\ e.list = x /\ e.ext = ListOf(x)[i]
                  /\ p = e.ext.ptr /\ own[p] = x /\ e.ext.size = Sz(m, p)
                  /\ EntryCells(e.ext) = p - 1 .. p + Sz(m, p)
    <3>1. PICK x \in Lists : \E i \in DOMAIN ListOf(x) : e = At(x, i)
      BY <2>4
    <3>2. PICK i \in DOMAIN ListOf(x) : e = At(x, i)
      BY <3>1
    <3>3. e.list = x /\ e.ext = ListOf(x)[i]
      BY <3>2
    <3>4. PICK p \in E : p = e.ext.ptr
      BY <2>3, <3>3
    <3>5. own[p] = x /\ e.ext.size = Sz(m, p)
      BY <2>3, <3>3, <3>4
    <3>6. EntryCells(e.ext) = p - 1 .. p + Sz(m, p)
      BY <3>4, <3>5 DEF EntryCells, HeaderOf, HEADER_SIZE
    <3> HIDE DEF At, entries
    <3> QED BY <3>2, <3>3, <3>4, <3>5, <3>6
  <2> HIDE DEF entries
  <2>7. ASSUME NEW a \in Pool
        PROVE  \E e \in entries : \A f \in entries : a \in EntryCells(f.ext) <=> f = e
    <3>1. PICK p \in E : p <= a + 1 /\ a <= p + Sz(m, p)
      <4>1. new_addr \in Nat /\ a \in Int /\ ~(new_addr <= a /\ a < new_addr)
        BY Layout DEF Pool
      <4> QED BY <2>2, <4>1 DEF Tiles
    <3>2. PICK z \in Nat : z = Sz(m, p) /\ p \in Nat
      BY <2>2 DEF Tiles
    <3>3. a \in Int
      BY Layout DEF Pool
    <3>4. own[p] \in Lists
      BY <2>2, <3>2
    <3>5. PICK i \in DOMAIN ListOf(own[p]) : ListOf(own[p])[i].ptr = p
      BY <2>3, <3>4
    <3>6. At(own[p], i) \in entries
      BY <2>5, <3>4
    <3>7. ASSUME NEW f \in entries, a \in EntryCells(f.ext)
          PROVE  f = At(own[p], i)
      <4>1. PICK x \in Lists : \E k \in DOMAIN ListOf(x) : \E q \in E :
                  /\ f = At(x, k) /\ f.list = x /\ f.ext = ListOf(x)[k]
                  /\ q = f.ext.ptr /\ own[q] = x /\ f.ext.size = Sz(m, q)
                  /\ EntryCells(f.ext) = q - 1 .. q + Sz(m, q)
        BY <2>6
      <4>2. PICK k \in DOMAIN ListOf(x), q \in E :
                  /\ f = At(x, k) /\ f.ext = ListOf(x)[k]
                  /\ q = f.ext.ptr /\ own[q] = x
                  /\ EntryCells(f.ext) = q - 1 .. q + Sz(m, q)
        BY <4>1
      <4>3. PICK y \in Nat : y = Sz(m, q) /\ q \in Nat
        BY <2>2 DEF Tiles
      <4>4. q - 1 <= a /\ a <= q + y
        BY <3>3, <3>7, <4>2, <4>3
      <4>5. (q < p => q + y + 2 <= p) /\ (p < q => p + z + 2 <= q)
        BY <2>2, <3>2, <4>3 DEF Tiles
      <4>6. q = p
        BY <3>1, <3>2, <3>3, <4>3, <4>4, <4>5
      <4>7. x = own[p] /\ k = i
        BY <2>3, <3>4, <3>5, <4>2, <4>6
      <4> QED BY <4>2, <4>7
    <3>8. a \in EntryCells(At(own[p], i).ext)
      <4>1. At(own[p], i).ext = ListOf(own[p])[i] /\ ListOf(own[p])[i].size = z
        BY <2>3, <3>2, <3>4, <3>5
      <4>2. EntryCells(At(own[p], i).ext) = p - 1 .. p + z
        BY <3>5, <4>1 DEF EntryCells, HeaderOf, HEADER_SIZE
      <4> QED BY <3>1, <3>2, <3>3, <4>2
    <3> HIDE DEF At
    <3> QED BY <3>6, <3>7, <3>8
  <2>8. ASSUME NEW e \in entries
        PROVE  LET header == heap.mem[HeaderOf(e.ext.ptr)]
                   footer == heap.mem[e.ext.ptr + e.ext.size]
               IN  /\ EntryCells(e.ext) \subseteq Pool
                   /\ header.size = e.ext.size /\ footer.size = e.ext.size
                   /\ header.allocated = (e.list # Null)
                   /\ footer.allocated = (e.list # Null)
    <3>1. PICK x \in Lists, p \in E :
                  /\ e.list = x /\ p = e.ext.ptr /\ own[p] = x /\ e.ext.size = Sz(m, p)
                  /\ EntryCells(e.ext) = p - 1 .. p + Sz(m, p)
      BY <2>6
    <3>2. PICK z \in Nat : z = Sz(m, p)
      BY <2>2 DEF Tiles
    <3>3. p \in Nat /\ new_addr < p /\ p + z < new_addr + new_size
      BY <2>2, <3>2 DEF Tiles
    <3>4. EntryCells(e.ext) \subseteq Pool
      BY <3>1, <3>2, <3>3, Layout DEF Pool
    <3>5. HeaderOf(e.ext.ptr) = p - 1 /\ e.ext.ptr + e.ext.size = p + z
      BY <3>1, <3>2 DEF HeaderOf, HEADER_SIZE
    <3>6. /\ m[p - 1].size = e.ext.size /\ m[p + z].size = e.ext.size
          /\ (m[p - 1].allocated <=> own[p] # Null)
          /\ (m[p + z].allocated <=> own[p] # Null)
      BY <2>2, <3>1, <3>2 DEF Tags, Sz
    <3>7. m[p - 1].allocated \in BOOLEAN /\ m[p + z].allocated \in BOOLEAN
      <4>1. p - 1 \in Cells /\ p + z \in Cells
        BY <2>2, <3>2, EntryInCells
      <4> QED BY <2>2, <4>1 DEF Mem, Cell
    <3>8. m[p - 1].allocated = (e.list # Null) /\ m[p + z].allocated = (e.list # Null)
      BY <3>1, <3>6, <3>7
    <3> QED BY <3>4, <3>5, <3>6, <3>8
  <2> QED BY <2>7, <2>8, Zenon DEF EntriesTilePool, entries
<1> QED BY <1>1, HeapInvariant, PTL

----------------------------------------------------------------------------
(* vmemcache_populate_value *)

LEMMA MinThree ==
    ASSUME NEW a \in Int, NEW b \in Int, NEW c \in Int
    PROVE  /\ Min({a, b, c}) \in {a, b, c}
           /\ Min({a, b, c}) <= a /\ Min({a, b, c}) <= b /\ Min({a, b, c}) <= c
<1>1. \E x \in {a, b, c} : \A y \in {a, b, c} : x <= y
  OBVIOUS
<1> QED BY <1>1 DEF Min

\* Bytes o + 1 to o + k of a value.
Part(v, o, k) == [j \in 1 .. k |-> <<v, o + j>>]

LEMMA PartEmpty ==
    ASSUME NEW v \in Values, NEW o \in Nat, NEW k \in Int, k <= 0
    PROVE  Part(v, o, k) = <<>>
<1>1. 1 .. k = 1 .. 0
  OBVIOUS
<1>2. Part(v, o, k) = [j \in 1 .. 0 |-> <<v, o + j>>]
  BY <1>1 DEF Part
<1>3. [j \in 1 .. 0 |-> <<v, o + j>>] \in [1 .. 0 -> Values \X Nat]
  OBVIOUS
<1>4. [j \in 1 .. 0 |-> <<v, o + j>>] \in Seq(Values \X Nat)
  BY <1>3
<1>5. Len([j \in 1 .. 0 |-> <<v, o + j>>]) = 0
  OBVIOUS
<1> QED BY <1>2, <1>4, <1>5, EmptySeq

LEMMA PartSeq ==
    ASSUME NEW v \in Values, NEW o \in Nat, NEW k \in Nat
    PROVE  Part(v, o, k) \in Seq(Values \X Nat) /\ Len(Part(v, o, k)) = k
<1>1. Part(v, o, k) \in [1 .. k -> Values \X Nat]
  BY DEF Part
<1>2. DOMAIN Part(v, o, k) = 1 .. k
  BY DEF Part
<1>3. Part(v, o, k) \in Seq(Values \X Nat)
  BY <1>1
<1> QED BY <1>2, <1>3, LenProperties

\* A copied piece goes on where the last one ended.
GoesOn(piece, v, o, k, len) ==
    /\ piece = [j \in 1 .. len |-> piece[j]]
    /\ \A j \in 1 .. len : piece[j] = <<v, o + (k + j)>>

LEMMA PartConcat ==
    ASSUME NEW v \in Values, NEW o \in Nat, NEW k \in Nat, NEW len \in Nat, NEW piece,
           GoesOn(piece, v, o, k, len)
    PROVE  Part(v, o, k) \o piece = Part(v, o, k + len)
<1> DEFINE S == Values \X Nat
           s == Part(v, o, k)
           t == Part(v, o, k + len)
<1>1. s \in Seq(S) /\ Len(s) = k
  BY PartSeq
<1>2. piece \in Seq(S) /\ Len(piece) = len
  <2>1. \A j \in 1 .. len : <<v, o + (k + j)>> \in S
    OBVIOUS
  <2>2. piece \in [1 .. len -> S]
    BY <2>1 DEF GoesOn
  <2>3. DOMAIN piece = 1 .. len
    BY <2>2
  <2>4. piece \in Seq(S)
    BY <2>2
  <2> QED BY <2>3, <2>4, LenProperties
<1>3. t \in Seq(S) /\ Len(t) = k + len
  <2>1. PICK n \in Nat : n = k + len
    OBVIOUS
  <2>2. Part(v, o, n) \in Seq(Values \X Nat) /\ Len(Part(v, o, n)) = n
    BY PartSeq
  <2> QED BY <2>1, <2>2
<1>4. \A j \in 1 .. k : s[j] = <<v, o + j>>
  BY DEF Part
<1>5. \A j \in 1 .. k + len : t[j] = <<v, o + j>>
  BY DEF Part
<1> HIDE DEF s, t, S
<1>6. /\ s \o piece \in Seq(S) /\ Len(s \o piece) = k + len
      /\ \A i \in 1 .. k + len : (s \o piece)[i] = IF i <= k THEN s[i] ELSE piece[i - k]
  BY <1>1, <1>2, ConcatProperties
<1>7. ASSUME NEW i \in 1 .. k + len PROVE (s \o piece)[i] = t[i]
  <2>1. CASE i <= k
    <3>1. i \in 1 .. k
      BY <2>1
    <3>2. s[i] = <<v, o + i>> /\ t[i] = <<v, o + i>>
      BY <1>4, <1>5, <3>1
    <3>3. (s \o piece)[i] = s[i]
      BY <1>6, <2>1
    <3> QED BY <3>2, <3>3
  <2>2. CASE ~(i <= k)
    <3>1. i - k \in 1 .. len /\ k + (i - k) = i
      BY <2>2
    <3>2. piece[i - k] = <<v, o + (k + (i - k))>>
      BY <3>1 DEF GoesOn
    <3> QED BY <1>5, <1>6, <2>2, <3>1, <3>2
  <2> QED BY <2>1, <2>2
<1>8. s \o piece = t
  BY <1>3, <1>6, <1>7, SeqEqual
<1> QED BY <1>8 DEF s, t

\* The extents s hold the size bytes of v, W[i] of them in the first i extents.
Holds(m, s, W, v, size) ==
    /\ ExtentSeq(s)
    /\ W \in [0 .. Len(s) -> Nat] /\ W[0] = 0 /\ size <= W[Len(s)]
    /\ \A i \in 1 .. Len(s) :
         /\ W[i] = W[i - 1] + s[i].size
         /\ \A a \in s[i].ptr .. s[i].ptr + s[i].size - 1 :
              W[i - 1] + (a - s[i].ptr) < size =>
                  m[a].data = <<v, W[i - 1] + (a - s[i].ptr) + 1>>

\* How much is to be copied in all, and how much has been when x bytes of the
\* value have been met.
Wanted(size, o, b) == IF b < size - o THEN b ELSE size - o
Copied(o, wanted, x) ==
    IF x < o THEN 0 ELSE IF x - o < wanted THEN x - o ELSE wanted

\* The loop after i extents, which hold x bytes.
Reading(v, size, o, b, x, i) ==
    LET wanted == Wanted(size, o, b)
        k == Copied(o, wanted, x)
    IN  [offset |-> IF x < o THEN o - x ELSE 0,
         left_to_copy |-> (size - o) - k,
         vbufsize |-> b - k,
         vbuf |-> Part(v, o, k),
         done |-> i > 0 /\ x >= o /\ k = wanted]

ReadStep(m, s, i, acc) ==
    LET ext == s[i]
        len == Min({ext.size - acc.offset, acc.left_to_copy, acc.vbufsize})
        from == ext.ptr + acc.offset
    IN  IF acc.done THEN acc
        ELSE IF acc.offset > ext.size
        THEN [acc EXCEPT !.offset = @ - ext.size]
        ELSE [offset |-> 0,
              left_to_copy |-> acc.left_to_copy - len,
              vbufsize |-> acc.vbufsize - len,
              vbuf |-> acc.vbuf \o [j \in 1 .. len |-> m[from + j - 1].data],
              done |-> acc.vbufsize = len \/ acc.left_to_copy = len]

LEMMA ReadStepIs ==
    ASSUME NEW m, NEW s, NEW W, NEW v \in Values, NEW size \in Nat, Holds(m, s, W, v, size),
           NEW o \in Nat, o < size, NEW b \in Nat, NEW i \in 1 .. Len(s)
    PROVE  Reading(v, size, o, b, W[i], i) =
               ReadStep(m, s, i, Reading(v, size, o, b, W[i - 1], i - 1))
<1>1. PICK p \in Nat, z \in Nat : p = s[i].ptr /\ z = s[i].size
  BY DEF Holds, ExtentSeq
<1>2. i - 1 \in 0 .. Len(s) /\ Len(s) \in Nat /\ i > 0
  BY DEF Holds, ExtentSeq
<1>3. PICK x \in Nat : x = W[i - 1]
  BY <1>2 DEF Holds
<1>4. PICK y \in Nat : y = W[i] /\ y = x + z
  BY <1>1, <1>3 DEF Holds
<1>5. \A a \in p .. p + z - 1 : x + (a - p) < size => m[a].data = <<v, x + (a - p) + 1>>
  BY <1>1, <1>3 DEF Holds
<1>6. PICK K \in Nat : K = Wanted(size, o, b) /\ K = (IF b < size - o THEN b ELSE size - o)
  <2>1. Wanted(size, o, b) \in Nat
    BY DEF Wanted
  <2> QED BY <2>1 DEF Wanted
<1>7. PICK k \in Nat : /\ k = Copied(o, K, x)
                       /\ k = (IF x < o THEN 0 ELSE IF x - o < K THEN x - o ELSE K)
  <2>1. Copied(o, K, x) \in Nat
    BY DEF Copied
  <2> QED BY <2>1 DEF Copied
<1>8. PICK l \in Nat : /\ l = Copied(o, K, y)
                       /\ l = (IF y < o THEN 0 ELSE IF y - o < K THEN y - o ELSE K)
  <2>1. Copied(o, K, y) \in Nat
    BY DEF Copied
  <2> QED BY <2>1 DEF Copied
<1>9. PICK off \in Nat : off = IF x < o THEN o - x ELSE 0
  <2>1. (IF x < o THEN o - x ELSE 0) \in Nat
    OBVIOUS
  <2> QED BY <2>1
<1>10. PICK done \in BOOLEAN : done <=> i - 1 > 0 /\ x >= o /\ k = K
  <2>1. (i - 1 > 0 /\ x >= o /\ k = K) \in BOOLEAN
    OBVIOUS
  <2> QED BY <2>1, Zenon
<1>11. PICK acc : acc = Reading(v, size, o, b, W[i - 1], i - 1)
  OBVIOUS
<1>12. PICK new : new = Reading(v, size, o, b, W[i], i)
  OBVIOUS
<1>13. acc = [offset |-> off, left_to_copy |-> (size - o) - k, vbufsize |-> b - k,
              vbuf |-> Part(v, o, k), done |-> done]
  <2>1. acc = [offset |-> off, left_to_copy |-> (size - o) - k, vbufsize |-> b - k,
               vbuf |-> Part(v, o, k), done |-> i - 1 > 0 /\ x >= o /\ k = K]
    BY <1>3, <1>6, <1>7, <1>9, <1>11 DEF Reading
  <2>2. done = (i - 1 > 0 /\ x >= o /\ k = K)
    BY <1>10
  <2> QED BY <2>1, <2>2, Zenon
<1>14. new = [offset |-> IF y < o THEN o - y ELSE 0, left_to_copy |-> (size - o) - l,
              vbufsize |-> b - l, vbuf |-> Part(v, o, l), done |-> y >= o /\ l = K]
  <2>1. new = [offset |-> IF y < o THEN o - y ELSE 0, left_to_copy |-> (size - o) - l,
               vbufsize |-> b - l, vbuf |-> Part(v, o, l), done |-> i > 0 /\ y >= o /\ l = K]
    BY <1>4, <1>6, <1>8, <1>12 DEF Reading
  <2>2. (i > 0 /\ y >= o /\ l = K) = (y >= o /\ l = K)
    BY <1>2
  <2> QED BY <2>1, <2>2, Zenon
<1>15. ReadStep(m, s, i, acc) =
         LET len == Min({z - off, (size - o) - k, b - k})
             from == p + off
         IN  IF done THEN acc
             ELSE IF off > z THEN [acc EXCEPT !.offset = @ - z]
             ELSE [offset |-> 0, left_to_copy |-> ((size - o) - k) - len,
                   vbufsize |-> (b - k) - len,
                   vbuf |-> Part(v, o, k) \o [j \in 1 .. len |-> m[from + j - 1].data],
                   done |-> b - k = len \/ (size - o) - k = len]
  <2>1. /\ acc.offset = off /\ acc.left_to_copy = (size - o) - k /\ acc.vbufsize = b - k
        /\ acc.vbuf = Part(v, o, k) /\ acc.done = done
    BY <1>13
  <2> QED BY <1>1, <2>1 DEF ReadStep
<1>16. CASE done
  <2>1. x >= o /\ k = K
    BY <1>10, <1>16
  <2>2. y >= o /\ l = K /\ l = k
    BY <1>4, <1>7, <1>8, <2>1
  <2>3. off = 0
    BY <1>9, <2>1
  <2>4. (y >= o /\ l = K) = done
    BY <1>16, <2>2
  <2>5. new = [offset |-> off, left_to_copy |-> (size - o) - k, vbufsize |-> b - k,
               vbuf |-> Part(v, o, k), done |-> done]
    <3>1. (IF y < o THEN o - y ELSE 0) = off
      BY <2>2, <2>3
    <3> QED BY <1>14, <2>2, <2>4, <3>1, Zenon
  <2>6. ReadStep(m, s, i, acc) = acc
    BY <1>15, <1>16
  <2> QED BY <1>11, <1>12, <1>13, <2>5, <2>6
<1>17. CASE ~done /\ off > z
  <2>1. x < o /\ y < o /\ k = 0 /\ l = 0 /\ off - z = o - y
    BY <1>4, <1>7, <1>8, <1>9, <1>17
  <2>2. ReadStep(m, s, i, acc) = [acc EXCEPT !.offset = @ - z]
    BY <1>15, <1>17
  <2>3. ReadStep(m, s, i, acc) =
          [offset |-> off - z, left_to_copy |-> (size - o) - k, vbufsize |-> b - k,
           vbuf |-> Part(v, o, k), done |-> done]
    BY <1>13, <2>2
  <2>4. (y >= o /\ l = K) = done
    BY <1>17, <2>1
  <2>5. (IF y < o THEN o - y ELSE 0) = off - z /\ k = l
    BY <2>1
  <2> QED BY <1>11, <1>12, <1>14, <2>3, <2>4, <2>5, Zenon
<1>18. CASE ~done /\ ~(off > z)
  <2>1. PICK len : len = Min({z - off, (size - o) - k, b - k})
    OBVIOUS
  <2>2. PICK e \in Int, f \in Int, g \in Int : e = z - off /\ f = (size - o) - k /\ g = b - k
    OBVIOUS
  <2>3. len \in {e, f, g} /\ len <= e /\ len <= f /\ len <= g
    BY <2>1, <2>2, MinThree
  <2>4. k <= K /\ K <= size - o /\ K <= b
    BY <1>6, <1>7
  <2>5. e >= 0 /\ f >= 0 /\ g >= 0
    BY <1>18, <2>2, <2>4
  <2>6. len \in Nat
    BY <2>3, <2>5
  <2>7. y >= o
    BY <1>4, <1>9, <1>18
  <2>8. x + off = o + k \/ (x >= o /\ k = K)
    BY <1>7, <1>9
  <2>9. l = k + len
    <3>1. l = IF y - o < K THEN y - o ELSE K
      BY <1>8, <2>7
    <3>2. len = K - k \/ len = e
      BY <1>6, <2>2, <2>3, <2>4
    <3>3. len <= K - k
      BY <1>6, <2>2, <2>3, <2>4
    <3>4. CASE x < o
      <4>1. k = 0 /\ e = y - o
        BY <1>4, <1>7, <1>9, <2>2, <3>4
      <4> QED BY <2>3, <3>1, <3>2, <3>3, <4>1
    <3>5. CASE ~(x < o) /\ x - o < K
      <4>1. k = x - o /\ e = z /\ y - o = k + e
        BY <1>4, <1>7, <1>9, <2>2, <3>5
      <4> QED BY <2>3, <3>1, <3>2, <3>3, <4>1
    <3>6. CASE ~(x < o) /\ ~(x - o < K)
      <4>1. k = K /\ l = K
        BY <1>4, <1>7, <3>1, <3>6
      <4> QED BY <2>6, <3>3, <4>1
    <3> QED BY <3>4, <3>5, <3>6
  <2>10. (b - k = len \/ (size - o) - k = len) = (y >= o /\ l = K)
    <3>1. (b - k = len \/ (size - o) - k = len) <=> l = K
      BY <1>6, <2>2, <2>3, <2>4, <2>6, <2>9
    <3> QED BY <2>7, <3>1
  <2> DEFINE piece == [j \in 1 .. len |-> m[(p + off) + j - 1].data]
  <2>11. ASSUME NEW j \in 1 .. len PROVE piece[j] = <<v, o + (k + j)>>
    <3>1. PICK a \in Int : a = (p + off) + j - 1
      OBVIOUS
    <3>2. a \in p .. p + z - 1 /\ x + (a - p) = (x + off) + (j - 1)
      BY <2>2, <2>3, <3>1
    <3>3. len > 0 /\ k + len <= K
      BY <2>2, <2>3, <2>6, <1>6
    <3>4. x + off = o + k
      BY <2>8, <3>3, <2>6
    <3>5. x + (a - p) < size /\ x + (a - p) + 1 = o + (k + j)
      BY <2>2, <2>3, <2>6, <3>2, <3>4
    <3>6. m[a].data = <<v, x + (a - p) + 1>>
      BY <1>5, <3>2, <3>5
    <3> QED BY <3>1, <3>5, <3>6
  <2>12. piece = [j \in 1 .. len |-> piece[j]]
    OBVIOUS
  <2>13. Part(v, o, k) \o piece = Part(v, o, l)
    <3> HIDE DEF piece
    <3>1. GoesOn(piece, v, o, k, len)
      BY <2>11, <2>12 DEF GoesOn
    <3>2. Part(v, o, k) \o piece = Part(v, o, k + len)
      BY <2>6, <3>1, PartConcat
    <3> QED BY <2>9, <3>2
  <2>14. ReadStep(m, s, i, acc) =
             [offset |-> 0, left_to_copy |-> ((size - o) - k) - len,
              vbufsize |-> (b - k) - len, vbuf |-> Part(v, o, k) \o piece,
              done |-> b - k = len \/ (size - o) - k = len]
    BY <1>15, <1>18, <2>1
  <2>15. /\ ((size - o) - k) - len = (size - o) - l /\ (b - k) - len = b - l
         /\ (IF y < o THEN o - y ELSE 0) = 0
    BY <2>6, <2>7, <2>9
  <2> HIDE DEF piece
  <2> QED BY <1>11, <1>12, <1>14, <2>10, <2>13, <2>14, <2>15, Zenon
<1> QED BY <1>16, <1>17, <1>18

LEMMA ReadIs ==
    ASSUME NEW h, NEW v \in Values, NEW s, s = Extents(h, first[v]), NEW W,
           NEW size \in Nat, size = vsize[v], Holds(h.mem, s, W, v, size),
           NEW o \in Nat, o < size, NEW b \in Nat
    PROVE  PopulateValue(h, v, b, o) = Part(v, o, Wanted(size, o, b))
<1> DEFINE N == Len(s)
           m == h.mem
           R(i) == Reading(v, size, o, b, W[i], i)
           RFirst == [offset |-> o, left_to_copy |-> size - o, vbufsize |-> b,
                      vbuf |-> <<>>, done |-> FALSE]
           Body(f) == [i \in 0 .. N |-> IF i = 0 THEN RFirst ELSE ReadStep(m, s, i, f[i - 1])]
           Eqn(f) == f = Body(f)
           c == CHOOSE f : Eqn(f)
           f == [i \in 0 .. N |-> R(i)]
<1>1. N \in Nat
  BY DEF Holds, ExtentSeq
<1>2. R(0) = RFirst
  <2>1. W[0] = 0
    BY DEF Holds
  <2>2. PICK K \in Nat : K = Wanted(size, o, b)
    BY DEF Wanted
  <2>3. Copied(o, K, 0) = 0
    BY DEF Copied
  <2>4. R(0) = [offset |-> IF 0 < o THEN o - 0 ELSE 0, left_to_copy |-> (size - o) - 0,
                vbufsize |-> b - 0, vbuf |-> Part(v, o, 0),
                done |-> 0 > 0 /\ 0 >= o /\ 0 = K]
    BY <2>1, <2>2, <2>3 DEF Reading
  <2>5. /\ (IF 0 < o THEN o - 0 ELSE 0) = o /\ (size - o) - 0 = size - o /\ b - 0 = b
        /\ (0 > 0 /\ 0 >= o /\ 0 = K) = FALSE
    OBVIOUS
  <2>6. Part(v, o, 0) = <<>>
    BY PartEmpty
  <2> QED BY <2>4, <2>5, <2>6, Zenon
<1>3. \A i \in 1 .. N : R(i) = ReadStep(m, s, i, R(i - 1))
  BY ReadStepIs
<1> HIDE DEF R, RFirst, m, N
<1>4. Eqn(f)
  <2>1. \A i \in 0 .. N : f[i] = IF i = 0 THEN RFirst ELSE ReadStep(m, s, i, f[i - 1])
    <3> SUFFICES ASSUME NEW i \in 0 .. N
                 PROVE  f[i] = IF i = 0 THEN RFirst ELSE ReadStep(m, s, i, f[i - 1])
      OBVIOUS
    <3>1. CASE i = 0
      BY <1>2, <3>1
    <3>2. CASE i # 0
      <4>1. i \in 1 .. N /\ i - 1 \in 0 .. N
        BY <1>1, <3>2
      <4>2. f[i] = R(i) /\ f[i - 1] = R(i - 1)
        BY <4>1
      <4> HIDE DEF f
      <4> QED BY <1>3, <3>2, <4>1, <4>2
    <3> QED BY <3>1, <3>2
  <2>2. f = [i \in 0 .. N |-> f[i]]
    OBVIOUS
  <2> HIDE DEF f
  <2> QED BY <2>1, <2>2, Zenon
<1>5. Eqn(c)
  <2> HIDE DEF Eqn, f
  <2> QED BY <1>4
<1>6. PopulateValue(h, v, b, o) = c[N].vbuf
  <2>1. PopulateValue(h, v, b, o) =
          LET exts == Extents(h, first[v])
              d == CHOOSE e : e = [i \in 0 .. Len(exts) |->
                       IF i = 0
                       THEN [offset |-> o, left_to_copy |-> vsize[v] - o, vbufsize |-> b,
                             vbuf |-> <<>>, done |-> FALSE]
                       ELSE ReadStep(h.mem, exts, i, e[i - 1])]
          IN  IF o >= vsize[v] THEN <<>> ELSE d[Len(exts)].vbuf
    BY DEF PopulateValue, ReadStep
  <2>2. ~(o >= vsize[v])
    OBVIOUS
  <2> QED BY <2>1, <2>2 DEF N, m, RFirst
<1> HIDE DEF c
<1>7. \A i \in 0 .. N : c[i] = IF i = 0 THEN RFirst ELSE ReadStep(m, s, i, c[i - 1])
  BY <1>5, Zenon
<1>8. \A i \in 0 .. N : c[i] = R(i)
  <2> DEFINE T == {i \in Nat : i \in 0 .. N /\ c[i] # R(i)}
  <2>1. SUFFICES ASSUME T # {} PROVE FALSE
    BY <1>1
  <2>2. PICK i \in T : \A j \in T : i <= j
    <3> HIDE DEF T
    <3>1. T \in SUBSET Nat
      BY DEF T
    <3> QED BY <3>1, <2>1, Least
  <2>3. i # 0
    BY <1>1, <1>2, <1>7
  <2>4. i \in 1 .. N /\ i - 1 \in 0 .. N /\ i - 1 \notin T /\ i - 1 \in Nat
    BY <1>1, <2>2, <2>3
  <2>5. c[i - 1] = R(i - 1)
    BY <2>4
  <2>6. c[i] = ReadStep(m, s, i, c[i - 1])
    BY <1>1, <1>7, <2>3, <2>4
  <2> QED BY <1>3, <2>4, <2>5, <2>6
<1>9. R(N).vbuf = Part(v, o, Wanted(size, o, b))
  <2>1. PICK K \in Nat : K = Wanted(size, o, b) /\ K <= size - o
    <3>1. Wanted(size, o, b) \in Nat /\ Wanted(size, o, b) <= size - o
      BY DEF Wanted
    <3> QED BY <3>1
  <2>2. PICK x \in Nat : x = W[N] /\ size <= x
    BY <1>1 DEF Holds, N
  <2>3. Copied(o, K, x) = K
    BY <2>1, <2>2 DEF Copied
  <2>4. R(N).vbuf = Part(v, o, Copied(o, Wanted(size, o, b), W[N]))
    BY DEF R, Reading
  <2> QED BY <2>1, <2>2, <2>3, <2>4
<1>10. c[N] = R(N)
  BY <1>1, <1>8
<1> QED BY <1>6, <1>9, <1>10

\* What the invariant says of a value that can be read.
LEMMA HeldHolds ==
    ASSUME NEW h, NEW E, NEW own, NEW rank, NEW top, NEW hd, NEW cut, NEW lo, NEW hi,
           HeapOk(h, E, own, rank, top, hd, cut, lo, hi), NEW v \in Values,
           NEW s, Enumerates(h.mem, s, Of(E, own, v), hd[v]),
           NEW size \in Nat, Complete(h.mem, Of(E, own, v), size),
           Written(h.mem, Of(E, own, v), v, hd[v], size)
    PROVE  \E W : Holds(h.mem, s, W, v, size)
<1> DEFINE m == h.mem
           N == Len(s)
           D == Of(E, own, v)
           W == [i \in 0 .. N |-> Prefix(m, s, i)]
<1>1. /\ N \in Nat /\ \A i \in 1 .. N : s[i].ptr \in D /\ s[i].size = Sz(m, s[i].ptr)
      /\ N > 0 => s[1].ptr = hd[v]
      /\ \A i \in 1 .. N : i + 1 <= N => s[i + 1].ptr = Nx(m, s[i].ptr)
  <2>1. \A i \in 1 .. N : s[i].size = Sz(m, s[i].ptr)
    BY Places
  <2> QED BY <2>1 DEF Enumerates
<1>2. Tiles(m, E, lo, hi) /\ D \in SUBSET E /\ D \subseteq Nat /\ \A p \in D : Sz(m, p) \in Nat
  BY DEF HeapOk, Of, Tiles
<1>3. PrefixTotals(m, s, D)
  BY <1>2, PrefixSums
<1>4. PICK base \in [Nat -> Nat] :
        /\ hd[v] # Null => base[hd[v]] = 0
        /\ \A p \in D :
             /\ Nx(m, p) # Null => base[Nx(m, p)] = base[p] + Sz(m, p)
             /\ \A a \in p .. p + Sz(m, p) - 1 :
                  base[p] + (a - p) < size => m[a].data = <<v, base[p] + (a - p) + 1>>
  BY DEF Written
<1>5. Null \notin D
  BY <1>2, NullNoNumber
<1> HIDE DEF m, D, N
<1>6. /\ Prefix(m, s, 0) = 0 /\ Prefix(m, s, N) = Weight(m, D)
      /\ \A i \in 0 .. N : Prefix(m, s, i) \in Nat
      /\ \A i \in 1 .. N : Prefix(m, s, i) = Prefix(m, s, i - 1) + Sz(m, s[i].ptr)
  BY <1>3 DEF PrefixTotals, N
<1>7. \A i \in 1 .. N : base[s[i].ptr] = Prefix(m, s, i - 1)
  <2> DEFINE T == {i \in Nat : i \in 1 .. N /\ base[s[i].ptr] # Prefix(m, s, i - 1)}
  <2>1. SUFFICES ASSUME T # {} PROVE FALSE
    BY <1>1
  <2>2. PICK i \in T : \A j \in T : i <= j
    <3> HIDE DEF T
    <3>1. T \in SUBSET Nat
      BY DEF T
    <3> QED BY <3>1, <2>1, Least
  <2>3. i # 1
    <3>1. ASSUME i = 1 PROVE FALSE
      <4>1. s[1].ptr = hd[v] /\ s[1].ptr \in D
        BY <1>1, <3>1
      <4>2. base[s[1].ptr] = 0
        BY <1>4, <1>5, <4>1
      <4>3. base[s[1].ptr] # Prefix(m, s, 1 - 1) /\ 1 - 1 = 0
        BY <3>1
      <4> QED BY <1>6, <4>2, <4>3
    <3> QED BY <3>1
  <2>4. PICK j \in Nat : j = i - 1 /\ j \in 1 .. N /\ j + 1 = i /\ i <= N
    BY <1>1, <2>2, <2>3
  <2>5. j \notin T
    <3> HIDE DEF T
    <3> QED BY <2>2, <2>4
  <2>6. base[s[j].ptr] = Prefix(m, s, j - 1)
    BY <2>4, <2>5
  <2>7. s[i].ptr = Nx(m, s[j].ptr) /\ s[i].ptr \in D /\ s[j].ptr \in D
    BY <1>1, <2>4
  <2>8. base[s[i].ptr] = base[s[j].ptr] + Sz(m, s[j].ptr)
    BY <1>4, <1>5, <2>7
  <2>9. Prefix(m, s, j) = Prefix(m, s, j - 1) + Sz(m, s[j].ptr)
    BY <1>6, <2>4
  <2>10. base[s[i].ptr] # Prefix(m, s, i - 1)
    OBVIOUS
  <2> QED BY <2>4, <2>6, <2>8, <2>9, <2>10
<1>8. ExtentSeq(s)
  BY <1>1, <1>2 DEF ExtentSeq, N
<1>9. /\ W \in [0 .. N -> Nat] /\ W[0] = 0
      /\ W[N] = Weight(m, D) /\ \A i \in 1 .. N : W[i] = W[i - 1] + s[i].size
  <2>1. W \in [0 .. N -> Nat] /\ W[0] = 0 /\ W[N] = Weight(m, D)
    BY <1>1, <1>6
  <2>2. \A i \in 1 .. N : i \in 0 .. N /\ i - 1 \in 0 .. N
    BY <1>1
  <2>3. \A i \in 1 .. N : W[i] = Prefix(m, s, i) /\ W[i - 1] = Prefix(m, s, i - 1)
    BY <2>2
  <2> HIDE DEF W
  <2> QED BY <1>1, <1>6, <2>1, <2>3
<1>10. ASSUME NEW i \in 1 .. N, NEW a \in s[i].ptr .. s[i].ptr + s[i].size - 1,
              W[i - 1] + (a - s[i].ptr) < size
       PROVE  m[a].data = <<v, W[i - 1] + (a - s[i].ptr) + 1>>
  <2>1. i - 1 \in 0 .. N
    BY <1>1
  <2>2. W[i - 1] = base[s[i].ptr]
    BY <1>7, <2>1
  <2>3. PICK p \in D : p = s[i].ptr /\ s[i].size = Sz(m, p)
    BY <1>1
  <2>4. a \in p .. p + Sz(m, p) - 1
    BY <2>3
  <2> HIDE DEF W
  <2>5. base[p] + (a - p) < size
    BY <1>10, <2>2, <2>3
  <2>6. m[a].data = <<v, base[p] + (a - p) + 1>>
    BY <1>4, <2>4, <2>5
  <2> QED BY <2>2, <2>3, <2>6
<1>11. size <= Weight(m, D)
  BY DEF Complete, m, D
<1> HIDE DEF W
<1>12. Holds(m, s, W, v, size)
  BY <1>8, <1>9, <1>10, <1>11 DEF Holds, N
<1> QED BY <1>12 DEF m

\* Any part of a value that is read, across the boundaries of its extents, is
\* what vmemcache_populate_extents wrote, for any pool and extent size and
\* whatever the other values have done to the neighbouring entries since.
THEOREM ValuesReadBack == Spec => []ReadsBack
<1>1. HeapInv => ReadsBack
  <2> SUFFICES ASSUME HeapInv, NEW v \in Values, pc[v] = "held",
                      NEW o \in 0 .. vsize[v] + 1, NEW b \in 0 .. vsize[v] + 1
               PROVE  PopulateValue(heap, v, b, o) =
                        [i \in 1 .. Min({b, vsize[v] - o}) |-> <<v, o + i>>]
    BY DEF ReadsBack
  <2>1. PICK E, own, rank, top : Shape(E, own, rank, top) /\ ValueInv(v, E, own)
    BY DEF HeapInv
  <2>2. PICK size \in Nat : size = vsize[v]
    BY DEF HeapInv, TypeInv
  <2>3. o \in Nat /\ b \in Nat
    BY <2>2
  <2>4. PICK s : s = Extents(heap, first[v])
    OBVIOUS
  <2>5. HeadsNow[v] = first[v]
    BY NullNoValue DEF HeadsNow, Lists
  <2>6. Enumerates(heap.mem, s, Of(E, own, v), HeadsNow[v])
    <3>1. v \in Lists
      BY DEF Lists
    <3> QED BY <2>1, <2>4, <2>5, <3>1, ListsAre
  <2>7. Complete(heap.mem, Of(E, own, v), size)
        /\ Written(heap.mem, Of(E, own, v), v, HeadsNow[v], size)
    BY <2>1, <2>2, <2>5 DEF ValueInv, ValueOk
  <2>8. HeapOk(heap, E, own, rank, top, HeadsNow, Cut, new_addr, new_addr)
    BY <2>1 DEF Shape
  <2> HIDE DEF HeadsNow, Cut
  <2>9. PICK W : Holds(heap.mem, s, W, v, size)
    BY <2>6, <2>7, <2>8, HeldHolds
  <2>10. Min({b, size - o}) = Wanted(size, o, b)
    <3>1. PICK d \in Int : d = size - o
      BY <2>3
    <3>2. Min({b, d}) = IF b < d THEN b ELSE d
      BY <2>3, MinTwo
    <3> QED BY <3>1, <3>2 DEF Wanted
  <2>11. PopulateValue(heap, v, b, o) = Part(v, o, Wanted(size, o, b))
    <3>1. CASE o < size
      BY <2>2, <2>3, <2>4, <2>9, <3>1, ReadIs
    <3>2. CASE ~(o < size)
      <4>1. PICK k \in Int : k = Wanted(size, o, b) /\ k <= 0
        <5>1. Wanted(size, o, b) \in Int /\ Wanted(size, o, b) <= 0
          BY <2>3, <3>2 DEF Wanted
        <5> QED BY <5>1
      <4>2. Part(v, o, k) = <<>>
        BY <2>3, <4>1, PartEmpty
      <4>3. o >= vsize[v]
        BY <2>2, <2>3, <3>2
      <4>4. PopulateValue(heap, v, b, o) = <<>>
        BY <4>3 DEF PopulateValue
      <4> QED BY <4>1, <4>2, <4>4
    <3> QED BY <3>1, <3>2
  <2> QED BY <2>2, <2>10, <2>11 DEF Part
<1> QED BY <1>1, HeapInvariant, PTL
=============================================================================
