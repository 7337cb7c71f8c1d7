---------------------------- MODULE IndexProofs ----------------------------
(***************************************************************************)
(* Proofs about the index: its statistics (module IndexStat), for any      *)
(* number of shards, threads and readers, and the sharded trees with their *)
(* counters (module Index), for any keys as well.                          *)
(***************************************************************************)
EXTENDS Index, CritnibProofs

----------------------------------------------------------------------------
(* Sums over the shards *)

Upto == 0 .. NSHARDS

LEMMA Shards ==
    /\ NSHARDS \in Nat /\ NSHARDS > 0 /\ 0 \in Upto /\ NSHARDS \in Upto
    /\ \A n \in Upto : n \in Nat
    /\ \A n \in Upto : n # 0 => n - 1 \in ShardIds /\ n - 1 \in Upto
    /\ \A i \in ShardIds : i \in Upto /\ i + 1 \in Upto /\ i \in Nat
    /\ \A n \in Upto : \A i \in Nat : i < n => i \in ShardIds
BY IndexStatAssumption DEF ShardIds, Upto, IndexStatAssumption

\* What the recursion of Sum computes.
Partial(f, u) ==
    /\ u \in [Upto -> Int] /\ u[0] = 0
    /\ \A n \in Upto : n # 0 => u[n] = u[n - 1] + f[n - 1]

LEMMA PartialExists ==
    ASSUME NEW f \in [ShardIds -> Int]
    PROVE  \E u : Partial(f, u)
<1> DEFINE Good(n, u) == /\ u \in [0 .. n -> Int] /\ u[0] = 0
                         /\ \A i \in 1 .. n : u[i] = u[i - 1] + f[i - 1]
           T == {n \in Nat : n \in Upto /\ ~ \E u : Good(n, u)}
<1>1. SUFFICES T = {}
  <2>1. NSHARDS \in Nat /\ NSHARDS \in Upto /\ NSHARDS \notin T
    BY <1>1, Shards
  <2>2. PICK u : Good(NSHARDS, u)
    BY <2>1
  <2>3. \A n \in Upto : n # 0 => n \in 1 .. NSHARDS
    BY <2>1 DEF Upto
  <2>4. Partial(f, u)
    BY <2>2, <2>3 DEF Partial, Upto
  <2> QED BY <2>4
<1>2. SUFFICES ASSUME T # {} PROVE FALSE
  OBVIOUS
<1>3. PICK n \in T : \A k \in T : n <= k
  <2> HIDE DEF T
  <2>1. T \in SUBSET Nat
    BY DEF T
  <2> QED BY <2>1, <1>2, LeastIn
<1>4. n \in Nat /\ n \in Upto /\ ~ \E u : Good(n, u)
  OBVIOUS
<1>5. n # 0
  <2>1. Good(0, [i \in 0 .. 0 |-> 0])
    OBVIOUS
  <2> QED BY <2>1, <1>4
<1>6. n - 1 \in Nat /\ n - 1 \in Upto /\ n - 1 \in ShardIds /\ n - 1 \notin T
  <2> HIDE DEF T
  <2> QED BY <1>3, <1>4, <1>5, Shards
<1>7. PICK u : Good(n - 1, u)
  BY <1>6
<1>8. PICK w : w = [i \in 0 .. n |-> IF i = n THEN u[n - 1] + f[n - 1] ELSE u[i]]
  OBVIOUS
<1>9. u[n - 1] \in Int /\ f[n - 1] \in Int
  BY <1>6, <1>7
<1>10. w \in [0 .. n -> Int] /\ w[0] = 0
  BY <1>4, <1>5, <1>7, <1>8, <1>9
<1>11. \A i \in 1 .. n : w[i] = w[i - 1] + f[i - 1]
  <2> SUFFICES ASSUME NEW i \in 1 .. n PROVE w[i] = w[i - 1] + f[i - 1]
    OBVIOUS
  <2>1. i - 1 \in 0 .. n /\ i - 1 # n /\ i \in 0 .. n
    BY <1>4
  <2>2. w[i - 1] = u[i - 1]
    BY <1>8, <2>1
  <2>3. CASE i = n
    BY <1>8, <2>1, <2>2, <2>3
  <2>4. CASE i # n
    BY <1>4, <1>7, <1>8, <2>1, <2>2, <2>4
  <2> QED BY <2>3, <2>4
<1> QED BY <1>4, <1>10, <1>11

LEMMA SumSteps ==
    ASSUME NEW f \in [ShardIds -> Int]
    PROVE  /\ Sum(f, 0) = 0 /\ \A n \in Upto : Sum(f, n) \in Int
           /\ \A i \in ShardIds : Sum(f, i + 1) = Sum(f, i) + f[i]
<1> DEFINE Body(u) == [i \in Upto |-> IF i = 0 THEN 0 ELSE u[i - 1] + f[i - 1]]
           Eqn(u) == u = Body(u)
           c == CHOOSE u : Eqn(u)
<1>1. PICK u : Partial(f, u)
  BY PartialExists
<1>2. Eqn(u)
  <2>1. \A i \in Upto : u[i] = IF i = 0 THEN 0 ELSE u[i - 1] + f[i - 1]
    BY <1>1 DEF Partial
  <2>2. u = [i \in Upto |-> u[i]]
    BY <1>1 DEF Partial
  <2> QED BY <2>1, <2>2, Zenon
<1>3. Eqn(c)
  <2> HIDE DEF Eqn
  <2> QED BY <1>2
<1>4. \A n : Sum(f, n) = c[n]
  BY DEF Sum, Upto
<1> HIDE DEF c
<1>5. \A i \in Upto : c[i] = IF i = 0 THEN 0 ELSE c[i - 1] + f[i - 1]
  BY <1>3, Zenon
<1>6. c[0] = 0
  BY <1>5, Shards
<1>7. \A i \in ShardIds : c[i + 1] = c[i] + f[i]
  <2> SUFFICES ASSUME NEW i \in ShardIds PROVE c[i + 1] = c[i] + f[i]
    OBVIOUS
  <2>1. i + 1 \in Upto /\ i + 1 # 0 /\ (i + 1) - 1 = i
    BY Shards
  <2> QED BY <1>5, <2>1
<1>8. \A n \in Upto : c[n] \in Int
  <2> DEFINE T == {n \in Nat : n \in Upto /\ c[n] \notin Int}
  <2>1. SUFFICES ASSUME T # {} PROVE FALSE
    BY Shards
  <2>2. PICK n \in T : \A k \in T : n <= k
    <3> HIDE DEF T
    <3>1. T \in SUBSET Nat
      BY DEF T
    <3> QED BY <3>1, <2>1, LeastIn
  <2>3. n # 0 /\ n \in Upto /\ n \in Nat
    BY <1>6
  <2>4. n - 1 \in Upto /\ n - 1 \in ShardIds /\ n - 1 \in Nat
    BY <2>3, Shards
  <2>5. n - 1 \notin T
    <3> HIDE DEF T
    <3> QED BY <2>2, <2>3, <2>4
  <2>6. c[n - 1] \in Int /\ f[n - 1] \in Int
    BY <2>4, <2>5
  <2>7. c[n] = c[n - 1] + f[n - 1]
    BY <1>5, <2>3
  <2> QED BY <2>6, <2>7
<1> QED BY <1>4, <1>6, <1>7, <1>8

\* A sum grows with what is added up, and is the same only if all of it is.
Below(f, g, n) == \A i \in ShardIds : i < n => f[i] <= g[i]

LEMMA SumBelow ==
    ASSUME NEW f \in [ShardIds -> Int], NEW g \in [ShardIds -> Int], NEW n \in Upto,
           Below(f, g, n)
    PROVE  /\ Sum(f, n) <= Sum(g, n)
           /\ Sum(f, n) = Sum(g, n) => \A i \in ShardIds : i < n => f[i] = g[i]
<1> DEFINE Good(k) == /\ Sum(f, k) <= Sum(g, k)
                      /\ Sum(f, k) = Sum(g, k) => \A i \in ShardIds : i < k => f[i] = g[i]
           T == {k \in Nat : k <= n /\ ~Good(k)}
<1>1. n \in Nat
  BY Shards
<1>2. SUFFICES ASSUME T # {} PROVE FALSE
  BY <1>1
<1>3. PICK k \in T : \A j \in T : k <= j
  <2> HIDE DEF T
  <2>1. T \in SUBSET Nat
    BY DEF T
  <2> QED BY <2>1, <1>2, LeastIn
<1>4. Good(0)
  <2>1. Sum(f, 0) = 0 /\ Sum(g, 0) = 0
    BY SumSteps
  <2>2. \A i \in ShardIds : ~(i < 0)
    BY Shards
  <2> QED BY <2>1, <2>2
<1> HIDE DEF Good
<1>5. k \in Nat /\ k <= n /\ ~Good(k) /\ k # 0
  BY <1>4
<1>6. PICK j \in ShardIds : j + 1 = k /\ j \in Nat /\ j <= n /\ j < n
  <2>1. k \in Upto
    BY <1>1, <1>5, Shards DEF Upto
  <2>2. k - 1 \in ShardIds
    BY <1>5, <2>1, Shards
  <2> QED BY <1>1, <1>5, <2>2, Shards
<1>7. Good(j)
  <2>1. j \notin T
    <3> HIDE DEF T
    <3> QED BY <1>3, <1>6
  <2> QED BY <1>6, <2>1
<1>8. /\ Sum(f, k) = Sum(f, j) + f[j] /\ Sum(g, k) = Sum(g, j) + g[j]
      /\ Sum(f, j) \in Int /\ Sum(g, j) \in Int /\ f[j] \in Int /\ g[j] \in Int
  BY <1>6, SumSteps, Shards
<1>9. f[j] <= g[j]
  BY <1>6 DEF Below
<1>10. Sum(f, j) <= Sum(g, j)
  BY <1>7 DEF Good
<1>11. Sum(f, k) <= Sum(g, k)
  BY <1>8, <1>9, <1>10
<1>12. ASSUME Sum(f, k) = Sum(g, k) PROVE \A i \in ShardIds : i < k => f[i] = g[i]
  <2>1. Sum(f, j) = Sum(g, j) /\ f[j] = g[j]
    BY <1>8, <1>9, <1>10, <1>12
  <2>2. \A i \in ShardIds : i < j => f[i] = g[i]
    BY <1>7, <2>1 DEF Good
  <2>3. \A i \in ShardIds : i < k => i < j \/ i = j
    BY <1>6, Shards
  <2> QED BY <2>1, <2>2, <2>3
<1> QED BY <1>5, <1>11, <1>12 DEF Good

LEMMA SumSame ==
    ASSUME NEW f \in [ShardIds -> Int], NEW g \in [ShardIds -> Int], NEW n \in Upto,
           \A i \in ShardIds : i < n => f[i] = g[i]
    PROVE  Sum(f, n) = Sum(g, n)
<1>1. Below(f, g, n) /\ Below(g, f, n)
  BY DEF Below
<1>2. Sum(f, n) <= Sum(g, n) /\ Sum(g, n) <= Sum(f, n)
  BY <1>1, SumBelow
<1> QED BY <1>2, SumSteps

LEMMA SumTwo ==
    ASSUME NEW f \in [ShardIds -> Int], NEW g \in [ShardIds -> Int], NEW h \in [ShardIds -> Int],
           \A i \in ShardIds : h[i] = f[i] + g[i]
    PROVE  Sum(h, NSHARDS) = Sum(f, NSHARDS) + Sum(g, NSHARDS)
<1> DEFINE Good(k) == Sum(h, k) = Sum(f, k) + Sum(g, k)
           T == {k \in Nat : k \in Upto /\ ~Good(k)}
<1>1. SUFFICES ASSUME T # {} PROVE FALSE
  BY Shards
<1>2. PICK k \in T : \A j \in T : k <= j
  <2> HIDE DEF T
  <2>1. T \in SUBSET Nat
    BY DEF T
  <2> QED BY <2>1, <1>1, LeastIn
<1>3. Good(0)
  <2>1. Sum(f, 0) = 0 /\ Sum(g, 0) = 0 /\ Sum(h, 0) = 0
    BY SumSteps
  <2> QED BY <2>1
<1> HIDE DEF Good
<1>4. k \in Nat /\ k \in Upto /\ ~Good(k) /\ k # 0
  BY <1>3
<1>5. PICK j \in ShardIds : j + 1 = k /\ j \in Nat /\ j \in Upto
  <2>1. k - 1 \in ShardIds
    BY <1>4, Shards
  <2> QED BY <1>4, <2>1, Shards
<1>6. Good(j)
  <2>1. j \notin T
    <3> HIDE DEF T
    <3> QED BY <1>2, <1>5
  <2> QED BY <1>5, <2>1
<1>7. /\ Sum(f, k) = Sum(f, j) + f[j] /\ Sum(g, k) = Sum(g, j) + g[j] /\ Sum(h, k) = Sum(h, j) + h[j]
      /\ Sum(f, j) \in Int /\ Sum(g, j) \in Int /\ f[j] \in Int /\ g[j] \in Int
  BY <1>5, SumSteps
<1>8. h[j] = f[j] + g[j] /\ Sum(h, j) = Sum(f, j) + Sum(g, j)
  BY <1>6 DEF Good
<1>9. Good(k)
  BY <1>7, <1>8 DEF Good
<1> QED BY <1>4, <1>9

----------------------------------------------------------------------------
(* One shard: its counters k, what they were when its lock was taken (b),   *)
(* what they are when it is released (g), and whether it is locked (n)      *)

Values == [Counters -> Int]
Vector == [ShardIds -> Values]
Growing == {"put", "evict", "hit", "miss"}
Written == {"leaf", "node", "put", "evict", "DRAM"}

Val(k, c) == IF c = "memory" THEN k["node"] + k["DRAM"] ELSE k[c]

Bounds(k, b, g, n) ==
    /\ n \in {0, 1}
    /\ b["put"] <= k["put"] /\ k["put"] <= g["put"] /\ g["put"] <= b["put"] + n
    /\ b["evict"] <= k["evict"] /\ k["evict"] <= g["evict"] /\ g["evict"] <= b["evict"] + n
    /\ b["put"] - g["evict"] <= k["leaf"] /\ k["leaf"] <= g["put"] - b["evict"]
    /\ n = 1 => b["put"] + b["evict"] < g["put"] + g["evict"]

Later(k, b, g, n, k2, b2, g2) ==
    /\ \A c \in Growing : k[c] <= k2[c]
    /\ b["put"] <= b2["put"] /\ b["evict"] <= b2["evict"]
    /\ g["put"] <= g2["put"] /\ g["evict"] <= g2["evict"]
    /\ n = 1 \/ \A c \in {"leaf", "node", "DRAM"} : k2[c] = k[c]

\* The counters were p, and the lock was taken m times, when a statistic was
\* called for.
Since(k, b, p, m) ==
    /\ m \in {0, 1}
    /\ \A c \in Growing : p[c] <= k[c]
    /\ p["put"] - m <= b["put"] /\ p["evict"] - m <= b["evict"]

\* What can be said of the value v read from counter c since then.
Read(k, g, p, m, c, v) ==
    /\ c \in Growing => p[c] <= v /\ v <= k[c]
    /\ c = "leaf" => /\ (p["put"] - m) - g["evict"] <= v
                     /\ v <= g["put"] - (p["evict"] - m)
    /\ c \in {"leaf", "memory"} /\ m = 0 /\ p["put"] = g["put"] /\ p["evict"] = g["evict"]
         => v = Val(k, c)

LEMMA SinceNow ==
    ASSUME NEW k \in Values, NEW b \in Values, NEW g \in Values, NEW n, Bounds(k, b, g, n)
    PROVE  Since(k, b, k, n)
BY DEF Values, Counters, Bounds, Since, Growing

LEMMA SinceLater ==
    ASSUME NEW k \in Values, NEW b \in Values, NEW g \in Values, NEW n, NEW p \in Values, NEW m,
           NEW k2 \in Values, NEW b2 \in Values, NEW g2 \in Values,
           Later(k, b, g, n, k2, b2, g2), Since(k, b, p, m)
    PROVE  Since(k2, b2, p, m)
BY DEF Values, Counters, Later, Since, Growing

LEMMA ReadNow ==
    ASSUME NEW k \in Values, NEW b \in Values, NEW g \in Values, NEW n, NEW p \in Values, NEW m,
           NEW c \in Counters \cup {"memory"},
           Bounds(k, b, g, n), Since(k, b, p, m)
    PROVE  Read(k, g, p, m, c, Val(k, c)) /\ Val(k, c) \in Int
<1>1. Val(k, c) \in Int
  BY DEF Val, Values, Counters
<1>2. c \in Growing => p[c] <= Val(k, c) /\ Val(k, c) <= k[c]
  BY DEF Val, Values, Counters, Growing, Since
<1>3. c = "leaf" => /\ (p["put"] - m) - g["evict"] <= Val(k, c)
                    /\ Val(k, c) <= g["put"] - (p["evict"] - m)
  BY DEF Val, Values, Counters, Since, Bounds
<1> QED BY <1>1, <1>2, <1>3 DEF Read

LEMMA ReadLater ==
    ASSUME NEW k \in Values, NEW b \in Values, NEW g \in Values, NEW n, NEW p \in Values, NEW m,
           NEW k2 \in Values, NEW b2 \in Values, NEW g2 \in Values,
           NEW c \in Counters \cup {"memory"}, NEW v \in Int,
           Bounds(k, b, g, n), Later(k, b, g, n, k2, b2, g2), Since(k, b, p, m),
           Read(k, g, p, m, c, v)
    PROVE  Read(k2, g2, p, m, c, v)
<1>1. c \in Growing => p[c] <= v /\ v <= k2[c]
  BY DEF Read, Later, Values, Counters, Growing
<1>2. c = "leaf" => /\ (p["put"] - m) - g2["evict"] <= v
                    /\ v <= g2["put"] - (p["evict"] - m)
  BY DEF Read, Later, Since, Values, Counters
<1>3. ASSUME c \in {"leaf", "memory"}, m = 0, p["put"] = g2["put"], p["evict"] = g2["evict"]
      PROVE  v = Val(k2, c)
  <2>1. p["put"] = g["put"] /\ p["evict"] = g["evict"] /\ n # 1
    BY <1>3 DEF Later, Since, Bounds, Values, Counters
  <2>2. v = Val(k, c)
    BY <1>3, <2>1 DEF Read
  <2>3. Val(k2, c) = Val(k, c)
    BY <1>3, <2>1 DEF Later, Val
  <2> QED BY <2>2, <2>3
<1> QED BY <1>1, <1>2, <1>3 DEF Read

----------------------------------------------------------------------------
(* The invariant *)

WorkType == [shard : ShardIds, locked : BOOLEAN, todo : SUBSET Counters, add : Values]
CallType == [name : Names \cup {"none"}, loop : {1, 2, 3}, shard : ShardIds, total : Int,
             start : Values, busy : Int]

\* The type invariant.
StatType ==
    /\ count \in Vector
    /\ work \in [Threads -> WorkType]
    /\ stat \in [Readers -> CallType]

Insertion(a) == a["leaf"] = 1 /\ a["put"] = 1 /\ a["evict"] = 0
Removal(a) == a["leaf"] = -1 /\ a["put"] = 0 /\ a["evict"] = 1

ThreadOk(w) ==
    /\ w.todo = {} => ~w.locked
    /\ w.locked => w.todo \subseteq Written /\ (Insertion(w.add) \/ Removal(w.add))
    /\ ~w.locked => w.todo \subseteq {"miss"} /\ (w.todo # {} => w.add["miss"] = 1)

\* Only one thread holds the lock of a shard.
Exclusive ==
    \A t, u \in Threads :
        work[t].locked /\ work[u].locked /\ work[t].shard = work[u].shard => t = u

\* How far thread t has come with a shard it has locked.
Halfway(w, k, b, g) ==
    \A c \in Written : /\ g[c] = b[c] + w.add[c]
                       /\ k[c] = b[c] + IF c \in w.todo THEN 0 ELSE w.add[c]

Settled(k, b, g) == \A c \in Written : g[c] = b[c] /\ k[c] = b[c]

World(base, goal) ==
    /\ \A i \in ShardIds : base[i]["leaf"] = base[i]["put"] - base[i]["evict"]
    /\ \A i \in ShardIds : ~Locked(i) => Settled(count[i], base[i], goal[i])
    /\ \A t \in Threads : work[t].locked =>
          Halfway(work[t], count[work[t].shard], base[work[t].shard], goal[work[t].shard])

Locks == [i \in ShardIds |-> IF Locked(i) THEN 1 ELSE 0]

\* How many shards the first and the second loop of a statistic have read.
Done1(s) == IF s.loop = 1 THEN s.shard ELSE NSHARDS
Done2(s) == IF s.loop = 1 THEN 0 ELSE IF s.loop = 2 THEN s.shard ELSE NSHARDS

Column(p, c) == [i \in ShardIds |-> p[i][c]]

\* What is known of call s, for counters k, from the counters p and the locks m at
\* the time of the call and the values x and y that its loops have read.
Remembers(s, p, m, x, y) ==
    /\ \A c \in Watched(s.name) : s.start[c] = Sum(Column(p, c), NSHARDS)
    /\ s.busy = Sum(m, NSHARDS)
    /\ s.total = Sum(x, Done1(s)) + Sum(y, Done2(s))
    /\ s.loop \in 1 .. Len(Loops[s.name]) + 1
    /\ s.loop = Len(Loops[s.name]) + 1 => s.shard = 0

Bracketed(s, k, b, g, p, m, x, y) ==
    /\ \A i \in ShardIds : Since(k[i], b[i], p[i], m[i])
    /\ \A i \in ShardIds : i < Done1(s) => Read(k[i], g[i], p[i], m[i], Loops[s.name][1], x[i])
    /\ \A i \in ShardIds : Len(Loops[s.name]) = 2 /\ i < Done2(s) =>
                             Read(k[i], g[i], p[i], m[i], Loops[s.name][2], y[i])

Row == [ShardIds -> Int]

CallOk(s, k, b, g) ==
    s.name # "none" =>
        \E p \in Vector, m \in Row, x \in Row, y \in Row :
            Remembers(s, p, m, x, y) /\ Bracketed(s, k, b, g, p, m, x, y)

StatInv ==
    /\ StatType
    /\ \A t \in Threads : ThreadOk(work[t])
    /\ Exclusive
    /\ \E base \in Vector, goal \in Vector :
          /\ World(base, goal)
          /\ \A t \in Readers : CallOk(stat[t], count, base, goal)

LEMMA LoopFacts ==
    \A name \in Names :
        /\ Len(Loops[name]) \in {1, 2}
        /\ Loops[name][1] \in Counters \cup {"memory"}
        /\ Len(Loops[name]) = 2 => Loops[name][2] \in Counters \cup {"memory"}
        /\ Watched(name) \subseteq Counters
<1>1. /\ Len(Loops["put"]) = 1 /\ Loops["put"][1] = "put"
      /\ Len(Loops["evict"]) = 1 /\ Loops["evict"][1] = "evict"
      /\ Len(Loops["hit"]) = 1 /\ Loops["hit"][1] = "hit"
      /\ Len(Loops["miss"]) = 1 /\ Loops["miss"][1] = "miss"
  BY DEF Loops
<1>2. /\ Len(Loops["entries"]) = 1 /\ Loops["entries"][1] = "leaf"
      /\ Len(Loops["get"]) = 2 /\ Loops["get"][1] = "hit" /\ Loops["get"][2] = "miss"
      /\ Len(Loops["dram"]) = 2 /\ Loops["dram"][1] = "memory" /\ Loops["dram"][2] = "leaf"
  BY DEF Loops
<1>3. \A name \in Names : Watched(name) \subseteq Counters
  BY DEF Names, Watched, Counters
<1> QED BY <1>1, <1>2, <1>3 DEF Names, Counters

LEMMA WorldBounds ==
    ASSUME StatType, \A t \in Threads : ThreadOk(work[t]),
           NEW base \in Vector, NEW goal \in Vector, World(base, goal)
    PROVE  /\ Locks \in Row
           /\ \A i \in ShardIds : Bounds(count[i], base[i], goal[i], Locks[i])
<1>1. Locks \in Row
  BY DEF Locks, Row
<1> SUFFICES ASSUME NEW i \in ShardIds
             PROVE  Bounds(count[i], base[i], goal[i], Locks[i])
  BY <1>1
<1> DEFINE k == count[i]  b == base[i]  g == goal[i]
<1>2. k \in Values /\ b \in Values /\ g \in Values
  BY DEF StatType, Vector
<1>3. b["leaf"] = b["put"] - b["evict"]
  BY DEF World
<1>4. CASE ~Locked(i)
  <2>1. Locks[i] = 0 /\ Settled(k, b, g)
    BY <1>4 DEF Locks, World
  <2> HIDE DEF k, b, g
  <2>2. Bounds(k, b, g, 0)
    BY <1>2, <1>3, <2>1 DEF Bounds, Settled, Written, Values, Counters
  <2> QED BY <2>1, <2>2 DEF k, b, g
<1>5. CASE Locked(i)
  <2>1. PICK t \in Threads : work[t].locked /\ work[t].shard = i
    BY <1>5 DEF Locked
  <2>2. Locks[i] = 1
    BY <1>5 DEF Locks
  <2> DEFINE w == work[t]
  <2>3. w \in WorkType /\ Halfway(w, k, b, g) /\ (Insertion(w.add) \/ Removal(w.add))
    BY <2>1 DEF StatType, World, ThreadOk
  <2>4. w.add \in Values
    BY <2>3 DEF WorkType
  <2> HIDE DEF k, b, g, w
  <2>5. Bounds(k, b, g, 1)
    <3>1. ASSUME Insertion(w.add) PROVE Bounds(k, b, g, 1)
      BY <1>2, <1>3, <2>3, <2>4, <3>1 DEF Bounds, Halfway, Written, Values, Counters, Insertion
    <3>2. ASSUME Removal(w.add) PROVE Bounds(k, b, g, 1)
      BY <1>2, <1>3, <2>3, <2>4, <3>2 DEF Bounds, Halfway, Written, Values, Counters, Removal
    <3> QED BY <2>3, <3>1, <3>2
  <2> QED BY <2>2, <2>5 DEF k, b, g
<1> QED BY <1>4, <1>5

\* A change of the counters leaves what is known of a call true.
LEMMA CallLater ==
    ASSUME NEW s \in CallType, NEW n \in Row,
           NEW k \in Vector, NEW b \in Vector, NEW g \in Vector,
           NEW k2 \in Vector, NEW b2 \in Vector, NEW g2 \in Vector,
           \A i \in ShardIds : Bounds(k[i], b[i], g[i], n[i]),
           \A i \in ShardIds : Later(k[i], b[i], g[i], n[i], k2[i], b2[i], g2[i]),
           CallOk(s, k, b, g)
    PROVE  CallOk(s, k2, b2, g2)
<1> SUFFICES ASSUME s.name # "none"
             PROVE  \E p \in Vector, m \in Row, x \in Row, y \in Row :
                        Remembers(s, p, m, x, y) /\ Bracketed(s, k2, b2, g2, p, m, x, y)
  BY DEF CallOk
<1>1. PICK p \in Vector, m \in Row, x \in Row, y \in Row :
          Remembers(s, p, m, x, y) /\ Bracketed(s, k, b, g, p, m, x, y)
  BY DEF CallOk
<1>2. s.name \in Names
  BY DEF CallType
<1>3. \A i \in ShardIds : /\ k[i] \in Values /\ b[i] \in Values /\ g[i] \in Values
                          /\ k2[i] \in Values /\ b2[i] \in Values /\ g2[i] \in Values
                          /\ p[i] \in Values /\ x[i] \in Int /\ y[i] \in Int
  BY DEF Vector, Row
<1>4. \A i \in ShardIds : Since(k[i], b[i], p[i], m[i])
  BY <1>1 DEF Bracketed
<1>5. \A i \in ShardIds : Since(k2[i], b2[i], p[i], m[i])
  BY <1>3, <1>4, SinceLater
<1>6. ASSUME NEW i \in ShardIds, i < Done1(s)
      PROVE  Read(k2[i], g2[i], p[i], m[i], Loops[s.name][1], x[i])
  <2>1. Read(k[i], g[i], p[i], m[i], Loops[s.name][1], x[i])
    BY <1>1, <1>6 DEF Bracketed
  <2>2. Loops[s.name][1] \in Counters \cup {"memory"}
    BY <1>2, LoopFacts
  <2> QED BY <1>3, <1>4, <2>1, <2>2, ReadLater
<1>7. ASSUME NEW i \in ShardIds, Len(Loops[s.name]) = 2, i < Done2(s)
      PROVE  Read(k2[i], g2[i], p[i], m[i], Loops[s.name][2], y[i])
  <2>1. Read(k[i], g[i], p[i], m[i], Loops[s.name][2], y[i])
    BY <1>1, <1>7 DEF Bracketed
  <2>2. Loops[s.name][2] \in Counters \cup {"memory"}
    BY <1>2, <1>7, LoopFacts
  <2> QED BY <1>3, <1>4, <2>1, <2>2, ReadLater
<1>8. Bracketed(s, k2, b2, g2, p, m, x, y)
  BY <1>5, <1>6, <1>7 DEF Bracketed
<1> QED BY <1>1, <1>8

\* If the counters have only moved on, the invariant survives.
LEMMA WorldLater ==
    ASSUME StatInv, StatType', \A t \in Threads : ThreadOk(work'[t]), Exclusive', UNCHANGED stat,
           NEW base \in Vector, NEW goal \in Vector, World(base, goal),
           \A t \in Readers : CallOk(stat[t], count, base, goal),
           NEW b2 \in Vector, NEW g2 \in Vector, World(b2, g2)',
           \A i \in ShardIds : Later(count[i], base[i], goal[i], Locks[i], count'[i], b2[i], g2[i])
    PROVE  StatInv'
<1>1. Locks \in Row /\ \A i \in ShardIds : Bounds(count[i], base[i], goal[i], Locks[i])
  BY WorldBounds DEF StatInv
<1>2. count \in Vector /\ count' \in Vector /\ \A t \in Readers : stat[t] \in CallType
  BY DEF StatInv, StatType
<1>3. PICK n \in Row : n = Locks
  BY <1>1
<1>4. \A t \in Readers : CallOk(stat[t], count', b2, g2)
  <2> SUFFICES ASSUME NEW t \in Readers PROVE CallOk(stat[t], count', b2, g2)
    OBVIOUS
  <2>1. \A i \in ShardIds : /\ Bounds(count[i], base[i], goal[i], n[i])
                            /\ Later(count[i], base[i], goal[i], n[i], count'[i], b2[i], g2[i])
    BY <1>1, <1>3
  <2> QED BY <1>2, <2>1, CallLater
<1>5. \A t \in Readers : CallOk(stat'[t], count', b2, g2)
  BY <1>4
<1> QED BY <1>5 DEF StatInv

----------------------------------------------------------------------------
(* The steps of the threads *)

\* A shard is locked, and its counters are about to be changed.
LEMMA BeginKeeps ==
    ASSUME StatInv, NEW t \in Threads, NEW i \in ShardIds, NEW add \in Values,
           Idle(t), ~Locked(i), Insertion(add) \/ Removal(add), add["hit"] = 0, add["miss"] = 0,
           Start(t, i, TRUE, add)
    PROVE  StatInv'
<1>1. PICK w : w = [shard |-> i, locked |-> TRUE, todo |-> {c \in Counters : add[c] # 0}, add |-> add]
  OBVIOUS
<1>2. w \in WorkType /\ w.shard = i /\ w.locked /\ w.todo = {c \in Counters : add[c] # 0} /\ w.add = add
  BY <1>1 DEF WorkType
<1>3. StatType /\ (\A u \in Threads : ThreadOk(work[u])) /\ Exclusive
  BY DEF StatInv
<1>4. /\ work' = [work EXCEPT ![t] = w] /\ count' = count /\ stat' = stat
  BY <1>1 DEF Start
<1>5. work'[t] = w /\ \A u \in Threads : u # t => work'[u] = work[u]
  BY <1>3, <1>4 DEF StatType
<1>6. ~work[t].locked
  BY <1>3 DEF Idle, ThreadOk
<1>7. \A u \in Threads : work[u].locked => u # t /\ work[u].shard # i
  BY <1>6 DEF Locked
<1>8. PICK base \in Vector, goal \in Vector :
          World(base, goal) /\ \A r \in Readers : CallOk(stat[r], count, base, goal)
  BY DEF StatInv
<1>9. PICK g \in Values : g = [c \in Counters |-> base[i][c] + add[c]]
  <2>1. base[i] \in Values
    BY DEF Vector
  <2>2. [c \in Counters |-> base[i][c] + add[c]] \in Values
    BY <2>1 DEF Values
  <2> QED BY <2>2
<1>10. PICK g2 \in Vector : g2[i] = g /\ \A j \in ShardIds : j # i => g2[j] = goal[j]
  <2>1. [goal EXCEPT ![i] = g] \in Vector
    BY <1>9 DEF Vector
  <2> QED BY <2>1 DEF Vector
<1>11. StatType'
  BY <1>2, <1>3, <1>4 DEF StatType
<1>12. \A u \in Threads : ThreadOk(work'[u])
  <2>1. w.todo \subseteq Written
    BY <1>2 DEF Written, Counters
  <2>2. w.todo # {}
    <3>1. "leaf" \in w.todo
      BY <1>2 DEF Counters, Insertion, Removal
    <3> QED BY <3>1
  <2>3. ThreadOk(w)
    BY <1>2, <2>1, <2>2 DEF ThreadOk
  <2> QED BY <1>3, <1>5, <2>3
<1>13. Exclusive'
  <2>1. \A u, v \in Threads :
           work'[u].locked /\ work'[v].locked /\ work'[u].shard = work'[v].shard => u = v
    BY <1>2, <1>3, <1>5, <1>7 DEF Exclusive
  <2> QED BY <2>1 DEF Exclusive
<1>14. \A j \in ShardIds : ~Locked(j)' => j # i /\ ~Locked(j)
  BY <1>2, <1>5, <1>7 DEF Locked
<1>15. Settled(count[i], base[i], goal[i])
  BY <1>8 DEF World
<1>16. World(base, g2)'
  <2>1. \A j \in ShardIds : ~Locked(j)' => Settled(count'[j], base[j], g2[j])
    BY <1>4, <1>8, <1>10, <1>14 DEF World
  <2>2. Halfway(w, count[i], base[i], g)
    <3>1. count[i] \in Values /\ base[i] \in Values
      BY <1>3 DEF StatType, Vector
    <3> QED BY <1>2, <1>9, <1>15, <3>1 DEF Halfway, Settled, Written, Counters, Values
  <2>3. ASSUME NEW u \in Threads, work'[u].locked
        PROVE  Halfway(work'[u], count'[work'[u].shard], base[work'[u].shard], g2[work'[u].shard])
    <3>1. CASE u = t
      BY <1>2, <1>4, <1>5, <1>10, <2>2, <3>1
    <3>2. CASE u # t
      <4>1. work'[u] = work[u] /\ work[u].locked /\ work[u].shard # i
        BY <1>5, <1>7, <2>3, <3>2
      <4>2. work[u].shard \in ShardIds
        BY <1>3 DEF StatType, WorkType
      <4>3. Halfway(work[u], count[work[u].shard], base[work[u].shard], goal[work[u].shard])
        BY <1>8, <4>1 DEF World
      <4> QED BY <1>4, <1>10, <4>1, <4>2, <4>3
    <3> QED BY <3>1, <3>2
  <2>4. \A j \in ShardIds : base[j]["leaf"] = base[j]["put"] - base[j]["evict"]
    BY <1>8 DEF World
  <2> QED BY <2>1, <2>3, <2>4 DEF World
<1>17. ASSUME NEW j \in ShardIds
       PROVE  Later(count[j], base[j], goal[j], Locks[j], count'[j], base[j], g2[j])
  <2>1. count[j] \in Values /\ base[j] \in Values /\ goal[j] \in Values /\ add \in Values
    BY <1>3 DEF StatType, Vector
  <2>2. CASE j # i
    BY <1>4, <1>10, <2>1, <2>2 DEF Later, Values, Counters, Growing
  <2>3. CASE j = i
    <3>1. goal[i]["put"] = base[i]["put"] /\ goal[i]["evict"] = base[i]["evict"]
      BY <1>15 DEF Settled, Written
    <3>2. add["put"] >= 0 /\ add["evict"] >= 0
      BY DEF Insertion, Removal
    <3>3. g2[i]["put"] = base[i]["put"] + add["put"] /\ g2[i]["evict"] = base[i]["evict"] + add["evict"]
      BY <1>9, <1>10 DEF Counters
    <3> QED BY <1>4, <2>1, <2>3, <3>1, <3>2, <3>3 DEF Later, Values, Counters, Growing
  <2> QED BY <2>2, <2>3
<1> QED BY <1>4, <1>8, <1>11, <1>12, <1>13, <1>16, <1>17, WorldLater

\* A counter of a locked shard is changed.
LEMMA CountKeeps ==
    ASSUME StatInv, NEW t \in Threads, Count(t), work[t].locked
    PROVE  StatInv'
<1>1. StatType /\ (\A u \in Threads : ThreadOk(work[u])) /\ Exclusive
  BY DEF StatInv
<1>2. PICK w \in WorkType : w = work[t]
  BY <1>1 DEF StatType
<1>3. PICK i \in ShardIds : i = w.shard
  BY DEF WorkType
<1>4. PICK c \in w.todo :
         /\ count' = [count EXCEPT ![i][c] = @ + w.add[c]]
         /\ work' = [work EXCEPT ![t] = IF w.todo = {c} THEN NoWork ELSE [w EXCEPT !.todo = @ \ {c}]]
         /\ stat' = stat
  BY <1>2, <1>3 DEF Count
<1>5. /\ w.locked /\ w.todo \subseteq Written /\ w.add \in Values /\ w.todo \in SUBSET Counters
      /\ (Insertion(w.add) \/ Removal(w.add)) /\ w.shard = i
  BY <1>1, <1>2, <1>3 DEF ThreadOk, WorkType
<1>6. PICK w2 : w2 = IF w.todo = {c} THEN NoWork ELSE [w EXCEPT !.todo = @ \ {c}]
  OBVIOUS
<1>7. w.todo # {c} => /\ w2 \in WorkType /\ w2.shard = i /\ w2.locked /\ w2.add = w.add
                      /\ w2.todo = w.todo \ {c} /\ w2.todo # {}
  BY <1>4, <1>5, <1>6 DEF WorkType
<1>8. w.todo = {c} => w2 \in WorkType /\ ~w2.locked /\ w2.todo = {}
  <2>1. NoWork \in WorkType
    <3>1. 0 \in ShardIds
      BY IndexStatAssumption DEF ShardIds, IndexStatAssumption
    <3>2. [d \in Counters |-> 0] \in Values
      BY DEF Values
    <3> QED BY <3>1, <3>2 DEF NoWork, WorkType
  <2> QED BY <1>6, <2>1 DEF NoWork
<1>9. work'[t] = w2 /\ w2 \in WorkType /\ \A u \in Threads : u # t => work'[u] = work[u]
  BY <1>1, <1>4, <1>6, <1>7, <1>8 DEF StatType
<1>10. \A u \in Threads : u # t /\ work[u].locked => work[u].shard # i
  BY <1>1, <1>2, <1>3, <1>5 DEF Exclusive
<1>11. PICK base \in Vector, goal \in Vector :
          World(base, goal) /\ \A r \in Readers : CallOk(stat[r], count, base, goal)
  BY DEF StatInv
<1>12. Halfway(w, count[i], base[i], goal[i])
  BY <1>2, <1>3, <1>5, <1>11 DEF World
<1>13. /\ count[i] \in Values /\ base[i] \in Values /\ goal[i] \in Values
       /\ c \in Counters /\ c \in Written
  BY <1>1, <1>4, <1>5 DEF StatType, Vector
<1>14. PICK k \in Values : /\ k[c] = count[i][c] + w.add[c]
                           /\ \A d \in Counters : d # c => k[d] = count[i][d]
                           /\ count' = [count EXCEPT ![i] = k]
  <2>1. [count[i] EXCEPT ![c] = @ + w.add[c]] \in Values
    BY <1>5, <1>13 DEF Values
  <2>2. count' = [count EXCEPT ![i] = [count[i] EXCEPT ![c] = @ + w.add[c]]]
    BY <1>4
  <2> QED BY <1>13, <2>1, <2>2 DEF Values
<1>15. count' \in Vector /\ count'[i] = k /\ \A j \in ShardIds : j # i => count'[j] = count[j]
  BY <1>1, <1>14 DEF StatType, Vector
<1>16. StatType'
  BY <1>1, <1>4, <1>6, <1>9, <1>15 DEF StatType
<1>17. \A u \in Threads : ThreadOk(work'[u])
  <2>1. CASE w.todo = {c}
    BY <1>1, <1>8, <1>9, <2>1 DEF ThreadOk
  <2>2. CASE w.todo # {c}
    BY <1>1, <1>5, <1>7, <1>9, <2>2 DEF ThreadOk
  <2> QED BY <2>1, <2>2
<1>18. Exclusive'
  <2>1. \A u, v \in Threads :
           work'[u].locked /\ work'[v].locked /\ work'[u].shard = work'[v].shard => u = v
    BY <1>1, <1>7, <1>8, <1>9, <1>10 DEF Exclusive
  <2> QED BY <2>1 DEF Exclusive
<1>19. Locked(i) /\ Locks[i] = 1
  BY <1>2, <1>3, <1>5 DEF Locked, Locks
<1>20. \A j \in ShardIds : j # i => (Locked(j)' <=> Locked(j))
  <2> SUFFICES ASSUME NEW j \in ShardIds, j # i PROVE Locked(j)' <=> Locked(j)
    OBVIOUS
  <2>1. \A u \in Threads : work'[u].locked /\ work'[u].shard = j <=> work[u].locked /\ work[u].shard = j
    BY <1>2, <1>3, <1>7, <1>8, <1>9
  <2> QED BY <2>1 DEF Locked
<1>21. k["put"] >= count[i]["put"] /\ k["evict"] >= count[i]["evict"]
       /\ k["hit"] = count[i]["hit"] /\ k["miss"] = count[i]["miss"]
  <2>1. w.add["put"] >= 0 /\ w.add["evict"] >= 0 /\ c # "hit" /\ c # "miss"
    BY <1>5, <1>13 DEF Insertion, Removal, Written
  <2> QED BY <1>5, <1>13, <1>14, <2>1 DEF Values, Counters
<1>22. CASE w.todo # {c}
  <2>1. World(base, goal)'
    <3>1. Locked(i)'
      BY <1>7, <1>9, <1>22 DEF Locked
    <3>2. \A j \in ShardIds : ~Locked(j)' => Settled(count'[j], base[j], goal[j])
      BY <1>11, <1>15, <1>20, <3>1 DEF World
    <3>3. Halfway(w2, k, base[i], goal[i])
      <4> SUFFICES ASSUME NEW d \in Written
                   PROVE  /\ goal[i][d] = base[i][d] + w2.add[d]
                          /\ k[d] = base[i][d] + IF d \in w2.todo THEN 0 ELSE w2.add[d]
        BY DEF Halfway
      <4>1. d \in Counters /\ w.add[d] \in Int /\ base[i][d] \in Int
        BY <1>5, <1>13 DEF Written, Counters, Values
      <4>2. CASE d = c
        BY <1>7, <1>12, <1>14, <1>22, <4>1, <4>2 DEF Halfway
      <4>3. CASE d # c
        BY <1>7, <1>12, <1>14, <1>22, <4>1, <4>3 DEF Halfway
      <4> QED BY <4>2, <4>3
    <3>4. ASSUME NEW u \in Threads, work'[u].locked
          PROVE  Halfway(work'[u], count'[work'[u].shard], base[work'[u].shard], goal[work'[u].shard])
      <4>1. CASE u = t
        BY <1>7, <1>9, <1>15, <1>22, <3>3, <4>1
      <4>2. CASE u # t
        <5>1. work'[u] = work[u] /\ work[u].locked /\ work[u].shard # i
          BY <1>9, <1>10, <3>4, <4>2
        <5>2. work[u].shard \in ShardIds
          BY <1>1 DEF StatType, WorkType
        <5>3. Halfway(work[u], count[work[u].shard], base[work[u].shard], goal[work[u].shard])
          BY <1>11, <5>1 DEF World
        <5> QED BY <1>15, <5>1, <5>2, <5>3
      <4> QED BY <4>1, <4>2
    <3>5. \A j \in ShardIds : base[j]["leaf"] = base[j]["put"] - base[j]["evict"]
      BY <1>11 DEF World
    <3> QED BY <3>2, <3>4, <3>5 DEF World
  <2>2. ASSUME NEW j \in ShardIds
        PROVE  Later(count[j], base[j], goal[j], Locks[j], count'[j], base[j], goal[j])
    <3>1. count[j] \in Values /\ base[j] \in Values /\ goal[j] \in Values
      BY <1>1 DEF StatType, Vector
    <3>2. CASE j # i
      BY <1>15, <3>1, <3>2 DEF Later, Values, Counters, Growing
    <3>3. CASE j = i
      BY <1>15, <1>19, <1>21, <3>1, <3>3 DEF Later, Values, Counters, Growing
    <3> QED BY <3>2, <3>3
  <2> QED BY <1>4, <1>11, <1>16, <1>17, <1>18, <2>1, <2>2, WorldLater
<1>23. CASE w.todo = {c}
  <2>1. PICK b2 \in Vector : b2[i] = goal[i] /\ \A j \in ShardIds : j # i => b2[j] = base[j]
    <3>1. [base EXCEPT ![i] = goal[i]] \in Vector
      BY <1>13 DEF Vector
    <3> QED BY <3>1 DEF Vector
  <2>2. World(b2, goal)'
    <3>1. Settled(k, goal[i], goal[i])
      <4> SUFFICES ASSUME NEW d \in Written PROVE k[d] = goal[i][d]
        BY DEF Settled
      <4>1. d \in Counters /\ w.add[d] \in Int /\ base[i][d] \in Int
        BY <1>5, <1>13 DEF Written, Counters, Values
      <4>2. CASE d = c
        BY <1>12, <1>14, <1>23, <4>1, <4>2 DEF Halfway
      <4>3. CASE d # c
        BY <1>12, <1>14, <1>23, <4>1, <4>3 DEF Halfway
      <4> QED BY <4>2, <4>3
    <3>2. \A j \in ShardIds : ~Locked(j)' => Settled(count'[j], b2[j], goal[j])
      BY <1>11, <1>15, <1>20, <2>1, <3>1 DEF World
    <3>3. ASSUME NEW u \in Threads, work'[u].locked
          PROVE  Halfway(work'[u], count'[work'[u].shard], b2[work'[u].shard], goal[work'[u].shard])
      <4>1. work'[u] = work[u] /\ work[u].locked /\ work[u].shard # i
        BY <1>8, <1>9, <1>10, <1>23, <3>3
      <4>2. work[u].shard \in ShardIds
        BY <1>1 DEF StatType, WorkType
      <4>3. Halfway(work[u], count[work[u].shard], base[work[u].shard], goal[work[u].shard])
        BY <1>11, <4>1 DEF World
      <4> QED BY <1>15, <2>1, <4>1, <4>2, <4>3
    <3>4. \A j \in ShardIds : b2[j]["leaf"] = b2[j]["put"] - b2[j]["evict"]
      <4>1. \A j \in ShardIds : base[j]["leaf"] = base[j]["put"] - base[j]["evict"]
        BY <1>11 DEF World
      <4>2. goal[i]["leaf"] = goal[i]["put"] - goal[i]["evict"]
        <5>1. /\ goal[i]["leaf"] = base[i]["leaf"] + w.add["leaf"]
              /\ goal[i]["put"] = base[i]["put"] + w.add["put"]
              /\ goal[i]["evict"] = base[i]["evict"] + w.add["evict"]
          BY <1>12 DEF Halfway, Written
        <5>2. base[i]["put"] \in Int /\ base[i]["evict"] \in Int
          BY <1>13 DEF Values, Counters
        <5> QED BY <1>5, <4>1, <5>1, <5>2 DEF Insertion, Removal
      <4> QED BY <2>1, <4>1, <4>2
    <3> QED BY <3>2, <3>3, <3>4 DEF World
  <2>3. ASSUME NEW j \in ShardIds
        PROVE  Later(count[j], base[j], goal[j], Locks[j], count'[j], b2[j], goal[j])
    <3>1. count[j] \in Values /\ base[j] \in Values /\ goal[j] \in Values
      BY <1>1 DEF StatType, Vector
    <3>2. CASE j # i
      BY <1>15, <2>1, <3>1, <3>2 DEF Later, Values, Counters, Growing
    <3>3. CASE j = i
      <4>1. goal[i]["put"] >= base[i]["put"] /\ goal[i]["evict"] >= base[i]["evict"]
        <5>1. /\ goal[i]["put"] = base[i]["put"] + w.add["put"]
              /\ goal[i]["evict"] = base[i]["evict"] + w.add["evict"]
          BY <1>12 DEF Halfway, Written
        <5>2. base[i]["put"] \in Int /\ base[i]["evict"] \in Int
          BY <1>13 DEF Values, Counters
        <5> QED BY <1>5, <5>1, <5>2 DEF Insertion, Removal
      <4> QED BY <1>15, <1>19, <1>21, <2>1, <3>1, <3>3, <4>1 DEF Later, Values, Counters, Growing
    <3> QED BY <3>2, <3>3
  <2> QED BY <1>4, <1>11, <1>16, <1>17, <1>18, <2>2, <2>3, WorldLater
<1> QED BY <1>22, <1>23

\* A step that changes no lock, and no counter that is changed under a lock.
LEMMA PlainKeeps ==
    ASSUME StatInv, StatType', UNCHANGED stat, \A u \in Threads : ThreadOk(work'[u]),
           \A u \in Threads : work'[u] = work[u] \/ (~work'[u].locked /\ ~work[u].locked),
           \A i \in ShardIds : /\ \A c \in Written : count'[i][c] = count[i][c]
                               /\ \A c \in Growing : count[i][c] <= count'[i][c]
    PROVE  StatInv'
<1>1. StatType /\ Exclusive
  BY DEF StatInv
<1>2. PICK base \in Vector, goal \in Vector :
          World(base, goal) /\ \A r \in Readers : CallOk(stat[r], count, base, goal)
  BY DEF StatInv
<1>3. Exclusive'
  <2>1. \A u, v \in Threads :
           work'[u].locked /\ work'[v].locked /\ work'[u].shard = work'[v].shard => u = v
    BY <1>1 DEF Exclusive
  <2> QED BY <2>1 DEF Exclusive
<1>4. \A j \in ShardIds : Locked(j)' <=> Locked(j)
  BY DEF Locked
<1>5. World(base, goal)'
  <2>1. \A j \in ShardIds : ~Locked(j)' => Settled(count'[j], base[j], goal[j])
    BY <1>2, <1>4 DEF World, Settled
  <2>2. ASSUME NEW u \in Threads, work'[u].locked
        PROVE  Halfway(work'[u], count'[work'[u].shard], base[work'[u].shard], goal[work'[u].shard])
    <3>1. work'[u] = work[u] /\ work[u].locked
      BY <2>2
    <3>2. work[u].shard \in ShardIds
      BY <1>1 DEF StatType, WorkType
    <3>3. Halfway(work[u], count[work[u].shard], base[work[u].shard], goal[work[u].shard])
      BY <1>2, <3>1 DEF World
    <3> QED BY <3>1, <3>2, <3>3 DEF Halfway
  <2>3. \A j \in ShardIds : base[j]["leaf"] = base[j]["put"] - base[j]["evict"]
    BY <1>2 DEF World
  <2> QED BY <2>1, <2>2, <2>3 DEF World
<1>6. ASSUME NEW j \in ShardIds
      PROVE  Later(count[j], base[j], goal[j], Locks[j], count'[j], base[j], goal[j])
  <2>1. count[j] \in Values /\ base[j] \in Values /\ goal[j] \in Values
    BY <1>1 DEF StatType, Vector
  <2> QED BY <2>1 DEF Later, Values, Counters, Growing, Written
<1> QED BY <1>2, <1>3, <1>5, <1>6, WorldLater

\* A hit or a miss is counted.
LEMMA BumpKeeps ==
    ASSUME StatInv, NEW i \in ShardIds, NEW c \in {"hit", "miss"},
           count' = [count EXCEPT ![i][c] = @ + 1], UNCHANGED stat,
           work' \in [Threads -> WorkType], \A u \in Threads : ThreadOk(work'[u]),
           \A u \in Threads : work'[u] = work[u] \/ (~work'[u].locked /\ ~work[u].locked)
    PROVE  StatInv'
<1>1. StatType
  BY DEF StatInv
<1>2. count \in Vector /\ count[i] \in Values /\ c \in Counters
  BY <1>1 DEF StatType, Vector, Counters
<1>3. PICK k \in Values : /\ k[c] = count[i][c] + 1
                          /\ \A d \in Counters : d # c => k[d] = count[i][d]
                          /\ count' = [count EXCEPT ![i] = k]
  <2>1. [count[i] EXCEPT ![c] = @ + 1] \in Values
    BY <1>2 DEF Values
  <2>2. count' = [count EXCEPT ![i] = [count[i] EXCEPT ![c] = @ + 1]]
    OBVIOUS
  <2> QED BY <1>2, <2>1, <2>2 DEF Values
<1>4. count' \in Vector /\ count'[i] = k /\ \A j \in ShardIds : j # i => count'[j] = count[j]
  BY <1>2, <1>3 DEF Vector
<1>5. StatType'
  BY <1>1, <1>4 DEF StatType
<1>6. ASSUME NEW j \in ShardIds
      PROVE  /\ \A d \in Written : count'[j][d] = count[j][d]
             /\ \A d \in Growing : count[j][d] <= count'[j][d]
  <2>1. count[j] \in Values
    BY <1>2 DEF Vector
  <2>2. CASE j = i
    BY <1>3, <1>4, <2>1, <2>2 DEF Written, Growing, Counters, Values
  <2>3. CASE j # i
    BY <1>4, <2>1, <2>3 DEF Written, Growing, Counters, Values
  <2> QED BY <2>2, <2>3
<1> QED BY <1>5, <1>6, PlainKeeps

\* Every step of a thread.
LEMMA ThreadStep ==
    ASSUME StatInv, NEW t \in Threads,
           \/ \E i \in ShardIds :
                \/ \E nodes \in {0, 1}, size \in EntrySizes :
                     CountInsert(t, i, nodes, size) \/ CountRemove(t, i, nodes, size)
                \/ CountHit(t, i) \/ CountMiss(t, i)
           \/ Count(t)
    PROVE  StatInv'
<1>1. /\ StatType /\ (\A u \in Threads : ThreadOk(work[u]))
      /\ work \in [Threads -> WorkType] /\ count \in Vector
  BY DEF StatInv, StatType
<1>2. \A size \in EntrySizes : size \in Nat
  BY IndexStatAssumption DEF IndexStatAssumption
<1>3. ASSUME NEW i \in ShardIds, NEW nodes \in {0, 1}, NEW size \in EntrySizes,
             CountInsert(t, i, nodes, size)
      PROVE  StatInv'
  <2>1. PICK add : add = [c \in Counters |-> CASE c \in {"leaf", "put"} -> 1
                                               [] c = "node" -> nodes
                                               [] c = "DRAM" -> size
                                               [] OTHER -> 0]
    OBVIOUS
  <2>2. add \in Values
    BY <1>2, <2>1 DEF Values, Counters
  <2>3. Insertion(add) /\ add["hit"] = 0 /\ add["miss"] = 0
    BY <2>1 DEF Insertion, Counters
  <2>4. Idle(t) /\ ~Locked(i) /\ Start(t, i, TRUE, add)
    BY <1>3, <2>1 DEF CountInsert
  <2> QED BY <2>2, <2>3, <2>4, BeginKeeps
<1>4. ASSUME NEW i \in ShardIds, NEW nodes \in {0, 1}, NEW size \in EntrySizes,
             CountRemove(t, i, nodes, size)
      PROVE  StatInv'
  <2>1. PICK add : add = [c \in Counters |-> CASE c = "leaf" -> -1
                                               [] c = "evict" -> 1
                                               [] c = "node" -> -nodes
                                               [] c = "DRAM" -> -size
                                               [] OTHER -> 0]
    OBVIOUS
  <2>2. add \in Values
    BY <1>2, <2>1 DEF Values, Counters
  <2>3. Removal(add) /\ add["hit"] = 0 /\ add["miss"] = 0
    BY <2>1 DEF Removal, Counters
  <2>4. Idle(t) /\ ~Locked(i) /\ Start(t, i, TRUE, add)
    BY <1>4, <2>1 DEF CountRemove
  <2> QED BY <2>2, <2>3, <2>4, BeginKeeps
<1>5. ASSUME NEW i \in ShardIds, CountHit(t, i)
      PROVE  StatInv'
  <2>1. /\ count' = [count EXCEPT ![i]["hit"] = @ + 1] /\ work' = work /\ stat' = stat
    BY <1>5 DEF CountHit
  <2> QED BY <1>1, <2>1, BumpKeeps
<1>6. ASSUME NEW i \in ShardIds, CountMiss(t, i)
      PROVE  StatInv'
  <2>1. PICK add : add = [c \in Counters |-> IF c = "miss" THEN 1 ELSE 0]
    OBVIOUS
  <2>2. add \in Values /\ {c \in Counters : add[c] # 0} = {"miss"} /\ add["miss"] = 1
    BY <2>1 DEF Values, Counters
  <2>3. PICK w : w = [shard |-> i, locked |-> FALSE, todo |-> {"miss"}, add |-> add]
    OBVIOUS
  <2>4. w \in WorkType /\ ~w.locked /\ w.todo = {"miss"} /\ w.add = add
    BY <2>2, <2>3 DEF WorkType, Counters
  <2>5. work' = [work EXCEPT ![t] = w] /\ count' = count /\ stat' = stat /\ Idle(t)
    BY <1>6, <2>1, <2>2, <2>3 DEF CountMiss, Start
  <2>6. ~work[t].locked
    BY <1>1, <2>5 DEF Idle, ThreadOk
  <2>7. /\ work' \in [Threads -> WorkType] /\ work'[t] = w
        /\ \A u \in Threads : u # t => work'[u] = work[u]
    BY <1>1, <2>4, <2>5
  <2>8. ThreadOk(w)
    BY <2>2, <2>4 DEF ThreadOk
  <2>9. \A u \in Threads : /\ ThreadOk(work'[u])
                           /\ work'[u] = work[u] \/ (~work'[u].locked /\ ~work[u].locked)
    BY <1>1, <2>4, <2>6, <2>7, <2>8
  <2>10. StatType'
    BY <1>1, <2>5, <2>7 DEF StatType
  <2>11. \A j \in ShardIds : /\ \A c \in Written : count'[j][c] = count[j][c]
                             /\ \A c \in Growing : count[j][c] <= count'[j][c]
    BY <1>1, <2>5 DEF Vector, Values, Growing, Counters
  <2> QED BY <2>5, <2>9, <2>10, <2>11, PlainKeeps
<1>7. ASSUME Count(t), ~work[t].locked
      PROVE  StatInv'
  <2>1. PICK w \in WorkType : w = work[t]
    BY <1>1
  <2>2. PICK i \in ShardIds : i = w.shard
    BY DEF WorkType
  <2>3. PICK c \in w.todo :
         /\ count' = [count EXCEPT ![i][c] = @ + w.add[c]]
         /\ work' = [work EXCEPT ![t] = IF w.todo = {c} THEN NoWork ELSE [w EXCEPT !.todo = @ \ {c}]]
         /\ stat' = stat
    BY <1>7, <2>1, <2>2 DEF Count
  <2>4. w.todo \subseteq {"miss"} /\ (w.todo # {} => w.add["miss"] = 1)
    BY <1>1, <1>7, <2>1 DEF ThreadOk
  <2>5. c = "miss" /\ w.todo = {c} /\ w.add[c] = 1
    BY <2>3, <2>4
  <2>6. count' = [count EXCEPT ![i][c] = @ + 1] /\ work' = [work EXCEPT ![t] = NoWork]
    BY <2>3, <2>5
  <2>7. NoWork \in WorkType /\ ~NoWork.locked /\ ThreadOk(NoWork)
    <3>1. 0 \in ShardIds
      BY IndexStatAssumption DEF ShardIds, IndexStatAssumption
    <3>2. [d \in Counters |-> 0] \in Values
      BY DEF Values
    <3> QED BY <3>1, <3>2 DEF NoWork, WorkType, ThreadOk
  <2>8. /\ work' \in [Threads -> WorkType] /\ work'[t] = NoWork
        /\ \A u \in Threads : u # t => work'[u] = work[u]
    BY <1>1, <2>6, <2>7
  <2>9. \A u \in Threads : /\ ThreadOk(work'[u])
                           /\ work'[u] = work[u] \/ (~work'[u].locked /\ ~work[u].locked)
    BY <1>1, <1>7, <2>7, <2>8
  <2>10. c \in {"hit", "miss"} /\ stat' = stat
    BY <2>3, <2>5
  <2> QED BY <2>6, <2>8, <2>9, <2>10, BumpKeeps
<1> QED BY <1>3, <1>4, <1>5, <1>6, <1>7, CountKeeps

----------------------------------------------------------------------------
(* The steps of the readers *)

\* A step of one reader.
LEMMA CallKeeps ==
    ASSUME StatInv, NEW t \in Readers, NEW s \in CallType, UNCHANGED <<count, work>>,
           stat' = [stat EXCEPT ![t] = s],
           \A base \in Vector, goal \in Vector :
               World(base, goal) /\ CallOk(stat[t], count, base, goal)
                   => CallOk(s, count, base, goal)
    PROVE  StatInv'
<1>1. PICK base \in Vector, goal \in Vector :
          World(base, goal) /\ \A r \in Readers : CallOk(stat[r], count, base, goal)
  BY DEF StatInv
<1>2. stat \in [Readers -> CallType]
  BY DEF StatInv, StatType
<1>3. /\ stat' \in [Readers -> CallType] /\ stat'[t] = s
      /\ \A r \in Readers : r # t => stat'[r] = stat[r]
  BY <1>2
<1>4. CallOk(s, count, base, goal)
  BY <1>1
<1>5. \A r \in Readers : CallOk(stat'[r], count', base, goal)
  BY <1>1, <1>3, <1>4
<1>6. StatType' /\ \A u \in Threads : ThreadOk(work'[u])
  BY <1>3 DEF StatInv, StatType
<1>7. Exclusive'
  BY DEF StatInv, Exclusive
<1>8. World(base, goal)'
  <2>1. \A j \in ShardIds : Locked(j)' <=> Locked(j)
    BY DEF Locked
  <2> QED BY <1>1, <2>1 DEF World
<1> QED BY <1>1, <1>5, <1>6, <1>7, <1>8 DEF StatInv

LEMMA ColumnType ==
    ASSUME NEW p \in Vector, NEW c \in Counters
    PROVE  Column(p, c) \in Row
BY DEF Vector, Values, Column, Row

LEMMA TotalIs ==
    ASSUME count \in Vector
    PROVE  /\ \A c \in Counters : Total(c) = Sum(Column(count, c), NSHARDS) /\ Total(c) \in Int
           /\ Locks \in Row /\ Busy = Sum(Locks, NSHARDS) /\ Busy \in Int
           /\ \A i \in ShardIds, c \in Counters \cup {"memory"} : Value(i, c) = Val(count[i], c)
<1>1. ASSUME NEW c \in Counters
      PROVE  Total(c) = Sum(Column(count, c), NSHARDS) /\ Total(c) \in Int
  <2>1. [i \in ShardIds |-> Value(i, c)] = Column(count, c)
    BY DEF Value, Column, Counters
  <2>2. Total(c) = Sum(Column(count, c), NSHARDS)
    BY <2>1 DEF Total
  <2>3. Column(count, c) \in Row
    BY ColumnType
  <2> QED BY <2>2, <2>3, SumSteps, Shards DEF Row
<1>2. Locks \in Row
  BY DEF Locks, Row
<1>3. Busy = Sum(Locks, NSHARDS)
  BY DEF Busy, Locks
<1>4. Busy \in Int
  BY <1>2, <1>3, SumSteps, Shards DEF Row
<1>5. \A i \in ShardIds, c \in Counters \cup {"memory"} : Value(i, c) = Val(count[i], c)
  BY DEF Value, Val
<1> QED BY <1>1, <1>2, <1>3, <1>4, <1>5

LEMMA StatCallKeeps ==
    ASSUME StatInv, NEW t \in Readers, NEW name \in Names, StatCall(t, name)
    PROVE  StatInv'
<1>1. count \in Vector /\ StatType /\ \A u \in Threads : ThreadOk(work[u])
  BY DEF StatInv, StatType
<1>2. PICK start : start = [c \in Counters |-> IF c \in Watched(name) THEN Total(c) ELSE 0]
  OBVIOUS
<1>3. start \in Values
  BY <1>1, <1>2, TotalIs DEF Values
<1>4. PICK s : s = [NoCall EXCEPT !.name = name, !.start = start, !.busy = Busy]
  OBVIOUS
<1>5. /\ s.name = name /\ s.loop = 1 /\ s.shard = 0 /\ s.total = 0 /\ s.start = start
      /\ s.busy = Busy /\ s \in CallType
  <2>1. 0 \in ShardIds
    BY IndexStatAssumption DEF ShardIds, IndexStatAssumption
  <2>2. Busy \in Int
    BY <1>1, TotalIs
  <2>3. s = [name |-> name, loop |-> 1, shard |-> 0, total |-> 0, start |-> start, busy |-> Busy]
    BY <1>4 DEF NoCall
  <2> QED BY <1>3, <2>1, <2>2, <2>3 DEF CallType
<1>6. stat' = [stat EXCEPT ![t] = s] /\ UNCHANGED <<count, work>>
  BY <1>2, <1>4 DEF StatCall
<1>7. ASSUME NEW base \in Vector, NEW goal \in Vector, World(base, goal)
      PROVE  CallOk(s, count, base, goal)
  <2>1. PICK z \in Row : z = [i \in ShardIds |-> 0]
    <3>1. [i \in ShardIds |-> 0] \in Row
      BY DEF Row
    <3> QED BY <3>1
  <2>2. PICK m \in Row : m = Locks
    BY <1>1, TotalIs
  <2>3. Done1(s) = 0 /\ Done2(s) = 0
    BY <1>5 DEF Done1, Done2
  <2>4. Sum(z, 0) = 0
    BY SumSteps DEF Row
  <2>5. \A c \in Watched(s.name) : s.start[c] = Sum(Column(count, c), NSHARDS)
    BY <1>1, <1>2, <1>5, LoopFacts, TotalIs
  <2>6. s.busy = Sum(m, NSHARDS)
    BY <1>1, <1>5, <2>2, TotalIs
  <2>7. s.loop \in 1 .. Len(Loops[s.name]) + 1 /\ s.loop # Len(Loops[s.name]) + 1
    BY <1>5, LoopFacts
  <2>8. Remembers(s, count, m, z, z)
    BY <1>5, <2>3, <2>4, <2>5, <2>6, <2>7 DEF Remembers
  <2>9. \A i \in ShardIds : Since(count[i], base[i], count[i], m[i])
    <3> SUFFICES ASSUME NEW i \in ShardIds PROVE Since(count[i], base[i], count[i], m[i])
      OBVIOUS
    <3>1. count[i] \in Values /\ base[i] \in Values /\ goal[i] \in Values
      BY <1>1 DEF Vector
    <3>2. Bounds(count[i], base[i], goal[i], m[i])
      BY <1>1, <1>7, <2>2, WorldBounds
    <3> QED BY <3>1, <3>2, SinceNow
  <2>10. \A i \in ShardIds : ~(i < 0)
    BY Shards
  <2>11. Bracketed(s, count, base, goal, count, m, z, z)
    BY <2>3, <2>9, <2>10 DEF Bracketed
  <2> QED BY <1>1, <2>8, <2>11 DEF CallOk
<1> QED BY <1>5, <1>6, <1>7, CallKeeps

\* Reading one more shard extends a sum.
LEMMA SumExtend ==
    ASSUME NEW x \in Row, NEW j \in ShardIds, NEW v \in Int
    PROVE  \E z \in Row : /\ z[j] = v /\ \A i \in ShardIds : i # j => z[i] = x[i]
                          /\ Sum(z, j + 1) = Sum(x, j) + v /\ Sum(x, j) \in Int
<1>1. PICK z \in Row : z = [x EXCEPT ![j] = v]
  BY DEF Row
<1>2. z[j] = v /\ \A i \in ShardIds : i # j => z[i] = x[i]
  BY <1>1 DEF Row
<1>3. j \in Upto /\ j \in Nat
  BY Shards
<1>4. Sum(z, j) = Sum(x, j)
  <2>1. \A i \in ShardIds : i < j => z[i] = x[i]
    BY <1>2, <1>3
  <2> QED BY <1>3, <2>1, SumSame DEF Row
<1>5. Sum(z, j + 1) = Sum(z, j) + z[j] /\ Sum(x, j) \in Int
  BY <1>3, SumSteps DEF Row
<1> QED BY <1>2, <1>4, <1>5

\* A loop of a statistic reads one shard.
LEMMA StatShardKeeps ==
    ASSUME StatInv, NEW t \in Readers, StatShard(t)
    PROVE  StatInv'
<1>1. count \in Vector /\ StatType /\ (\A u \in Threads : ThreadOk(work[u])) /\ stat[t] \in CallType
  BY DEF StatInv, StatType
<1>2. PICK s \in CallType : s = stat[t]
  BY <1>1
<1>3. s.name # "none" /\ s.name \in Names /\ ~(s.loop > Len(Loops[s.name])) /\ s.loop \in {1, 2, 3}
  BY <1>2 DEF StatShard, Ended, CallType
<1>4. PICK j \in ShardIds : j = s.shard
  BY DEF CallType
<1>5. /\ Len(Loops[s.name]) \in {1, 2} /\ s.loop \in {1, 2} /\ s.loop <= Len(Loops[s.name])
      /\ Loops[s.name][s.loop] \in Counters \cup {"memory"}
  <2>1. Len(Loops[s.name]) \in {1, 2} /\ s.loop \in {1, 2} /\ s.loop <= Len(Loops[s.name])
    <3>1. PICK n \in {1, 2} : n = Len(Loops[s.name])
      BY <1>3, LoopFacts
    <3>2. PICK l \in {1, 2, 3} : l = s.loop
      BY <1>3
    <3>3. ~(l > n)
      BY <1>3, <3>1, <3>2
    <3>4. l <= n /\ l \in {1, 2}
      BY <3>3
    <3> QED BY <3>1, <3>2, <3>4
  <2>2. CASE s.loop = 1
    BY <1>3, <2>1, <2>2, LoopFacts
  <2>3. CASE s.loop = 2
    BY <1>3, <2>1, <2>3, LoopFacts
  <2> QED BY <2>1, <2>2, <2>3
<1>6. PICK c \in Counters \cup {"memory"} : c = Loops[s.name][s.loop]
  BY <1>5
<1>7. PICK v : v = Val(count[j], c)
  OBVIOUS
<1>8. v \in Int /\ s.total \in Int /\ j \in Nat
  BY <1>1, <1>7, Shards DEF Val, Vector, Values, Counters, CallType
<1>9. PICK s2 : s2 = IF j + 1 < NSHARDS
                     THEN [s EXCEPT !.total = s.total + v, !.shard = j + 1]
                     ELSE [s EXCEPT !.total = s.total + v, !.shard = 0, !.loop = s.loop + 1]
  OBVIOUS
<1>10. stat' = [stat EXCEPT ![t] = s2] /\ UNCHANGED <<count, work>>
  <2>1. Value(s.shard, Loops[s.name][s.loop]) = v
    BY <1>1, <1>4, <1>6, <1>7, TotalIs
  <2> QED BY <1>2, <1>4, <1>9, <2>1 DEF StatShard, CallType
<1>11. /\ s2 \in CallType /\ s2.name = s.name /\ s2.start = s.start /\ s2.busy = s.busy
       /\ s2.total = s.total + v
       /\ s2.shard = IF j + 1 < NSHARDS THEN j + 1 ELSE 0
       /\ s2.loop = IF j + 1 < NSHARDS THEN s.loop ELSE s.loop + 1
  <2>1. 0 \in ShardIds /\ (j + 1 < NSHARDS => j + 1 \in ShardIds)
    BY IndexStatAssumption, <1>8 DEF ShardIds, IndexStatAssumption
  <2>2. s.total + v \in Int /\ s.loop + 1 \in {1, 2, 3}
    BY <1>5, <1>8
  <2>3. CASE j + 1 < NSHARDS
    BY <1>9, <2>1, <2>2, <2>3 DEF CallType
  <2>4. CASE ~(j + 1 < NSHARDS)
    BY <1>9, <2>1, <2>2, <2>4 DEF CallType
  <2> QED BY <2>3, <2>4
<1>12. j + 1 <= NSHARDS /\ NSHARDS \in Nat
  BY <1>8, IndexStatAssumption DEF ShardIds, IndexStatAssumption
<1>13. ASSUME NEW base \in Vector, NEW goal \in Vector, World(base, goal),
              CallOk(s, count, base, goal)
       PROVE  CallOk(s2, count, base, goal)
  <2>1. PICK p \in Vector, m \in Row, x \in Row, y \in Row :
          Remembers(s, p, m, x, y) /\ Bracketed(s, count, base, goal, p, m, x, y)
    BY <1>3, <1>13 DEF CallOk
  <2>2. Read(count[j], goal[j], p[j], m[j], c, v)
    <3>1. /\ count[j] \in Values /\ base[j] \in Values /\ goal[j] \in Values /\ p[j] \in Values
      BY <1>1 DEF Vector
    <3>2. Bounds(count[j], base[j], goal[j], Locks[j])
      BY <1>1, <1>13, WorldBounds
    <3>3. Since(count[j], base[j], p[j], m[j])
      BY <2>1 DEF Bracketed
    <3> QED BY <1>7, <3>1, <3>2, <3>3, ReadNow
  <2>3. /\ \A d \in Watched(s2.name) : s2.start[d] = Sum(Column(p, d), NSHARDS)
        /\ s2.busy = Sum(m, NSHARDS)
        /\ s.total = Sum(x, Done1(s)) + Sum(y, Done2(s))
    BY <1>11, <2>1 DEF Remembers
  <2>4. /\ s2.loop \in 1 .. Len(Loops[s2.name]) + 1
        /\ s2.loop = Len(Loops[s2.name]) + 1 => s2.shard = 0
    BY <1>5, <1>11
  <2>5. /\ \A i \in ShardIds : Since(count[i], base[i], p[i], m[i])
        /\ \A i \in ShardIds : i < Done1(s) =>
             Read(count[i], goal[i], p[i], m[i], Loops[s.name][1], x[i])
        /\ \A i \in ShardIds : Len(Loops[s.name]) = 2 /\ i < Done2(s) =>
             Read(count[i], goal[i], p[i], m[i], Loops[s.name][2], y[i])
    BY <2>1 DEF Bracketed
  <2>6. \A i \in ShardIds : i \in Nat /\ (i < j + 1 => i = j \/ i < j) /\ (i # j /\ i < j + 1 => i < j)
    BY <1>8, Shards
  <2>7. CASE s.loop = 1
    <3>1. Done1(s) = j /\ Done2(s) = 0 /\ Done1(s2) = j + 1 /\ Done2(s2) = 0
      BY <1>4, <1>8, <1>11, <1>12, <2>7 DEF Done1, Done2
    <3>2. PICK z \in Row : /\ z[j] = v /\ \A i \in ShardIds : i # j => z[i] = x[i]
                           /\ Sum(z, j + 1) = Sum(x, j) + v /\ Sum(x, j) \in Int
      BY <1>8, SumExtend
    <3>3. Sum(y, 0) = 0
      BY SumSteps DEF Row
    <3>4. s2.total = Sum(z, Done1(s2)) + Sum(y, Done2(s2))
      BY <1>8, <1>11, <2>3, <3>1, <3>2, <3>3
    <3>5. Remembers(s2, p, m, z, y)
      BY <2>3, <2>4, <3>4 DEF Remembers
    <3>6. ASSUME NEW i \in ShardIds, i < Done1(s2)
          PROVE  Read(count[i], goal[i], p[i], m[i], Loops[s2.name][1], z[i])
      <4>1. CASE i = j
        BY <1>6, <1>11, <2>2, <2>7, <3>2, <4>1
      <4>2. CASE i # j
        BY <1>11, <2>5, <2>6, <3>1, <3>2, <3>6, <4>2
      <4> QED BY <4>1, <4>2
    <3>7. \A i \in ShardIds : ~(i < Done2(s2))
      BY <2>6, <3>1
    <3>8. Bracketed(s2, count, base, goal, p, m, z, y)
      BY <2>5, <3>6, <3>7 DEF Bracketed
    <3> QED BY <3>5, <3>8 DEF CallOk
  <2>8. CASE s.loop = 2
    <3>1. Done1(s) = NSHARDS /\ Done2(s) = j /\ Done1(s2) = NSHARDS /\ Done2(s2) = j + 1
      BY <1>4, <1>8, <1>11, <1>12, <2>8 DEF Done1, Done2
    <3>2. PICK z \in Row : /\ z[j] = v /\ \A i \in ShardIds : i # j => z[i] = y[i]
                           /\ Sum(z, j + 1) = Sum(y, j) + v /\ Sum(y, j) \in Int
      BY <1>8, SumExtend
    <3>3. Sum(x, NSHARDS) \in Int
      BY SumSteps, Shards DEF Row
    <3>4. s2.total = Sum(x, Done1(s2)) + Sum(z, Done2(s2))
      BY <1>8, <1>11, <2>3, <3>1, <3>2, <3>3
    <3>5. Remembers(s2, p, m, x, z)
      BY <2>3, <2>4, <3>4 DEF Remembers
    <3>6. ASSUME NEW i \in ShardIds, Len(Loops[s2.name]) = 2, i < Done2(s2)
          PROVE  Read(count[i], goal[i], p[i], m[i], Loops[s2.name][2], z[i])
      <4>1. CASE i = j
        BY <1>6, <1>11, <2>2, <2>8, <3>2, <4>1
      <4>2. CASE i # j
        BY <1>11, <2>5, <2>6, <3>1, <3>2, <3>6, <4>2
      <4> QED BY <4>1, <4>2
    <3>7. \A i \in ShardIds : i < Done1(s2) =>
             Read(count[i], goal[i], p[i], m[i], Loops[s2.name][1], x[i])
      BY <1>11, <2>5, <3>1
    <3>8. Bracketed(s2, count, base, goal, p, m, x, z)
      BY <2>5, <3>6, <3>7 DEF Bracketed
    <3> QED BY <3>5, <3>8 DEF CallOk
  <2> QED BY <1>5, <2>7, <2>8
<1> QED BY <1>2, <1>10, <1>11, <1>13, CallKeeps

LEMMA StatReturnKeeps ==
    ASSUME StatInv, NEW t \in Readers, StatReturn(t)
    PROVE  StatInv'
<1>1. NoCall \in CallType /\ NoCall.name = "none"
  <2>1. 0 \in ShardIds
    BY IndexStatAssumption DEF ShardIds, IndexStatAssumption
  <2>2. [c \in Counters |-> 0] \in Values
    BY DEF Values
  <2> QED BY <2>1, <2>2 DEF NoCall, CallType
<1>2. stat' = [stat EXCEPT ![t] = NoCall] /\ UNCHANGED <<count, work>>
  BY DEF StatReturn
<1>3. \A base \in Vector, goal \in Vector : CallOk(NoCall, count, base, goal)
  BY <1>1 DEF CallOk
<1> QED BY <1>1, <1>2, <1>3, CallKeeps

LEMMA InitOk ==
    ASSUME StatInit PROVE StatInv
<1>1. [c \in Counters |-> 0] \in Values /\ 0 \in ShardIds
  BY IndexStatAssumption DEF ShardIds, IndexStatAssumption, Values
<1>2. /\ NoWork \in WorkType /\ ~NoWork.locked /\ NoWork.todo = {}
      /\ NoCall \in CallType /\ NoCall.name = "none"
  BY <1>1 DEF NoWork, NoCall, WorkType, CallType
<1>3. count \in Vector /\ \A i \in ShardIds : count[i] = [c \in Counters |-> 0]
  BY <1>1 DEF StatInit, Vector
<1>4. StatType
  BY <1>2, <1>3 DEF StatInit, StatType
<1>5. \A t \in Threads : ThreadOk(work[t]) /\ ~work[t].locked
  BY <1>2 DEF StatInit, ThreadOk
<1>6. Exclusive /\ \A i \in ShardIds : ~Locked(i)
  BY <1>5 DEF Exclusive, Locked
<1>7. World(count, count)
  <2>1. \A i \in ShardIds : count[i]["leaf"] = count[i]["put"] - count[i]["evict"]
    BY <1>3 DEF Counters
  <2> QED BY <1>5, <1>6, <2>1 DEF World, Settled
<1>8. \A t \in Readers : CallOk(stat[t], count, count, count)
  BY <1>2 DEF StatInit, CallOk
<1> QED BY <1>3, <1>4, <1>5, <1>6, <1>7, <1>8 DEF StatInv

LEMMA NextOk ==
    ASSUME StatInv, [StatNext]_statvars PROVE StatInv'
<1>1. CASE UNCHANGED statvars
  <2>1. count' = count /\ work' = work /\ stat' = stat
    BY <1>1 DEF statvars
  <2>2. \A j : Locked(j)' <=> Locked(j)
    BY <2>1 DEF Locked
  <2> QED BY <2>1, <2>2 DEF StatInv, StatType, Exclusive, World
<1>2. CASE StatNext
  BY <1>2, ThreadStep, StatCallKeeps, StatShardKeeps, StatReturnKeeps DEF StatNext
<1> QED BY <1>1, <1>2

----------------------------------------------------------------------------
(* What a statistic says *)

LEMMA SumWithin ==
    ASSUME NEW f \in Row, NEW x \in Row, NEW g \in Row,
           \A i \in ShardIds : f[i] <= x[i] /\ x[i] <= g[i]
    PROVE  /\ Sum(f, NSHARDS) <= Sum(x, NSHARDS) /\ Sum(x, NSHARDS) <= Sum(g, NSHARDS)
           /\ Sum(f, NSHARDS) \in Int /\ Sum(x, NSHARDS) \in Int /\ Sum(g, NSHARDS) \in Int
<1>1. Below(f, x, NSHARDS) /\ Below(x, g, NSHARDS)
  BY DEF Below
<1>2. Sum(f, NSHARDS) <= Sum(x, NSHARDS) /\ Sum(x, NSHARDS) <= Sum(g, NSHARDS)
  BY <1>1, SumBelow, Shards DEF Row
<1>3. Sum(f, NSHARDS) \in Int /\ Sum(x, NSHARDS) \in Int /\ Sum(g, NSHARDS) \in Int
  BY SumSteps, Shards DEF Row
<1> QED BY <1>2, <1>3

\* If a sum of what is never less has not changed, nothing has.
LEMMA SumEqual ==
    ASSUME NEW f \in Row, NEW g \in Row, \A i \in ShardIds : f[i] <= g[i],
           Sum(f, NSHARDS) = Sum(g, NSHARDS)
    PROVE  \A i \in ShardIds : f[i] = g[i]
<1>1. Below(f, g, NSHARDS)
  BY DEF Below
<1>2. \A i \in ShardIds : i < NSHARDS
  BY IndexStatAssumption DEF ShardIds, IndexStatAssumption
<1> QED BY <1>1, <1>2, SumBelow, Shards DEF Row

LEMMA SumZero ==
    ASSUME NEW f \in Row, \A i \in ShardIds : 0 <= f[i], Sum(f, NSHARDS) = 0
    PROVE  \A i \in ShardIds : f[i] = 0
<1>1. PICK z \in Row : \A i \in ShardIds : z[i] = 0
  <2>1. [i \in ShardIds |-> 0] \in Row
    BY DEF Row
  <2> QED BY <2>1
<1>2. \A i \in ShardIds : z[i] = z[i] + z[i]
  BY <1>1
<1>3. Sum(z, NSHARDS) = Sum(z, NSHARDS) + Sum(z, NSHARDS) /\ Sum(z, NSHARDS) \in Int
  BY <1>2, SumTwo, SumSteps, Shards DEF Row
<1>4. Sum(z, NSHARDS) = Sum(f, NSHARDS)
  <2>1. PICK q \in Int : q = Sum(z, NSHARDS)
    BY <1>3
  <2>2. q = q + q
    BY <1>3, <2>1
  <2>3. q = 0
    BY <2>2
  <2> QED BY <2>1, <2>3
<1>5. \A i \in ShardIds : z[i] <= f[i]
  BY <1>1
<1> QED BY <1>1, <1>4, <1>5, SumEqual

\* The number of entries: what is added up lies between puts and evictions.
LEMMA SumApart ==
    ASSUME NEW x \in Row, NEW a \in Row, NEW m \in Row, NEW e \in Row, NEW n \in Row
    PROVE  /\ (\A i \in ShardIds : (a[i] - m[i]) - (e[i] + n[i]) <= x[i]) =>
                (Sum(a, NSHARDS) - Sum(m, NSHARDS)) - (Sum(e, NSHARDS) + Sum(n, NSHARDS))
                    <= Sum(x, NSHARDS)
           /\ (\A i \in ShardIds : x[i] <= (e[i] + n[i]) - (a[i] - m[i])) =>
                Sum(x, NSHARDS) <= (Sum(e, NSHARDS) + Sum(n, NSHARDS))
                                      - (Sum(a, NSHARDS) - Sum(m, NSHARDS))
<1>1. \A i \in ShardIds : a[i] \in Int /\ m[i] \in Int /\ e[i] \in Int /\ n[i] \in Int /\ x[i] \in Int
  BY DEF Row
<1>2. PICK d \in Row : \A i \in ShardIds : a[i] = d[i] + m[i]
  <2>1. [i \in ShardIds |-> a[i] - m[i]] \in Row
    BY <1>1 DEF Row
  <2> QED BY <1>1, <2>1
<1>3. PICK q \in Row : \A i \in ShardIds : q[i] = e[i] + n[i]
  <2>1. [i \in ShardIds |-> e[i] + n[i]] \in Row
    BY <1>1 DEF Row
  <2> QED BY <2>1
<1>4. PICK xq \in Row : \A i \in ShardIds : xq[i] = x[i] + q[i]
  <2>1. [i \in ShardIds |-> x[i] + q[i]] \in Row
    BY <1>1 DEF Row
  <2> QED BY <2>1
<1>5. PICK xd \in Row : \A i \in ShardIds : xd[i] = x[i] + d[i]
  <2>1. [i \in ShardIds |-> x[i] + d[i]] \in Row
    BY <1>1 DEF Row
  <2> QED BY <2>1
<1>6. /\ Sum(a, NSHARDS) = Sum(d, NSHARDS) + Sum(m, NSHARDS)
      /\ Sum(q, NSHARDS) = Sum(e, NSHARDS) + Sum(n, NSHARDS)
      /\ Sum(xq, NSHARDS) = Sum(x, NSHARDS) + Sum(q, NSHARDS)
      /\ Sum(xd, NSHARDS) = Sum(x, NSHARDS) + Sum(d, NSHARDS)
  BY <1>2, <1>3, <1>4, <1>5, SumTwo DEF Row
<1>7. /\ Sum(d, NSHARDS) \in Int /\ Sum(m, NSHARDS) \in Int /\ Sum(e, NSHARDS) \in Int
      /\ Sum(n, NSHARDS) \in Int /\ Sum(x, NSHARDS) \in Int
  BY SumSteps, Shards DEF Row
<1>8. \A i \in ShardIds : d[i] \in Int /\ q[i] \in Int
  BY DEF Row
<1>9. ASSUME \A i \in ShardIds : (a[i] - m[i]) - (e[i] + n[i]) <= x[i]
      PROVE  (Sum(a, NSHARDS) - Sum(m, NSHARDS)) - (Sum(e, NSHARDS) + Sum(n, NSHARDS))
                <= Sum(x, NSHARDS)
  <2>1. \A i \in ShardIds : d[i] <= xq[i]
    BY <1>1, <1>2, <1>3, <1>4, <1>8, <1>9
  <2>2. Sum(d, NSHARDS) <= Sum(xq, NSHARDS)
    <3>1. Below(d, xq, NSHARDS)
      BY <2>1 DEF Below
    <3> QED BY <3>1, SumBelow, Shards DEF Row
  <2> QED BY <1>6, <1>7, <2>2
<1>10. ASSUME \A i \in ShardIds : x[i] <= (e[i] + n[i]) - (a[i] - m[i])
       PROVE  Sum(x, NSHARDS) <= (Sum(e, NSHARDS) + Sum(n, NSHARDS))
                                    - (Sum(a, NSHARDS) - Sum(m, NSHARDS))
  <2>1. \A i \in ShardIds : xd[i] <= q[i]
    BY <1>1, <1>2, <1>3, <1>5, <1>8, <1>10
  <2>2. Sum(xd, NSHARDS) <= Sum(q, NSHARDS)
    <3>1. Below(xd, q, NSHARDS)
      BY <2>1 DEF Below
    <3> QED BY <3>1, SumBelow, Shards DEF Row
  <2> QED BY <1>6, <1>7, <2>2
<1> QED BY <1>9, <1>10

LEMMA InvBrackets ==
    ASSUME StatInv PROVE StatBracketed
<1>1. StatType /\ count \in Vector /\ \A u \in Threads : ThreadOk(work[u])
  BY DEF StatInv, StatType
<1>2. PICK base \in Vector, goal \in Vector :
          World(base, goal) /\ \A r \in Readers : CallOk(stat[r], count, base, goal)
  BY DEF StatInv
<1>3. Locks \in Row /\ \A i \in ShardIds : Bounds(count[i], base[i], goal[i], Locks[i])
  BY <1>1, <1>2, WorldBounds
<1>4. PICK n \in Row : n = Locks
  BY <1>3
<1>5. ASSUME NEW t \in Readers, NEW s \in CallType, s = stat[t], s.name # "none", Ended(s)
      PROVE  /\ \A c \in {"put", "evict", "hit", "miss"} :
                   s.name = c => s.total \in s.start[c] .. Total(c)
             /\ s.name = "get" =>
                   s.total \in s.start["hit"] + s.start["miss"] .. Total("hit") + Total("miss")
             /\ s.name = "entries" =>
                  s.total \in (s.start["put"] - s.busy) - (Total("evict") + Busy) ..
                                (Total("put") + Busy) - (s.start["evict"] - s.busy)
             /\ /\ s.name = "dram" /\ s.busy = 0 /\ Busy = 0
                /\ s.start["put"] = Total("put") /\ s.start["evict"] = Total("evict")
                => s.total = Total("memory") + Total("leaf")
  <2>1. PICK p \in Vector, m \in Row, x \in Row, y \in Row :
          Remembers(s, p, m, x, y) /\ Bracketed(s, count, base, goal, p, m, x, y)
    BY <1>2, <1>5 DEF CallOk
  <2>2. s.name \in Names
    BY <1>5 DEF CallType
  <2>3. PICK len \in {1, 2} : len = Len(Loops[s.name])
    BY <2>2, LoopFacts
  <2>4. s.loop = len + 1 /\ s.shard = 0
    <3>1. PICK l \in {1, 2, 3} : l = s.loop
      BY DEF CallType
    <3>2. l > len /\ l \in 1 .. len + 1
      BY <1>5, <2>1, <2>3, <3>1 DEF Ended, Remembers
    <3>3. l = len + 1
      BY <3>2
    <3> QED BY <2>1, <2>3, <3>1, <3>3 DEF Remembers
  <2>5. Done1(s) = NSHARDS /\ Done2(s) = IF len = 1 THEN 0 ELSE NSHARDS
    <3>1. CASE len = 1
      BY <2>4, <3>1 DEF Done1, Done2
    <3>2. CASE len = 2
      BY <2>4, <3>2 DEF Done1, Done2
    <3> QED BY <3>1, <3>2
  <2>6. \A i \in ShardIds :
          /\ i < NSHARDS /\ count[i] \in Values /\ base[i] \in Values /\ goal[i] \in Values
          /\ p[i] \in Values /\ x[i] \in Int /\ y[i] \in Int /\ m[i] \in Int /\ n[i] \in Int
          /\ Bounds(count[i], base[i], goal[i], n[i]) /\ Since(count[i], base[i], p[i], m[i])
    <3>1. \A i \in ShardIds : i < NSHARDS
      BY IndexStatAssumption DEF ShardIds, IndexStatAssumption
    <3> QED BY <1>1, <1>3, <1>4, <2>1, <3>1 DEF Vector, Row, Bracketed
  <2>7. \A i \in ShardIds : Read(count[i], goal[i], p[i], m[i], Loops[s.name][1], x[i])
    BY <2>1, <2>5, <2>6 DEF Bracketed
  <2>8. len = 2 => \A i \in ShardIds :
                      Read(count[i], goal[i], p[i], m[i], Loops[s.name][2], y[i])
    BY <2>1, <2>3, <2>5, <2>6 DEF Bracketed
  <2>9. /\ \A c \in Watched(s.name) : s.start[c] = Sum(Column(p, c), NSHARDS)
        /\ s.busy = Sum(m, NSHARDS) /\ Busy = Sum(n, NSHARDS)
        /\ s.total = Sum(x, Done1(s)) + Sum(y, Done2(s))
    BY <1>1, <1>4, <2>1, TotalIs DEF Remembers
  <2>10. Sum(y, 0) = 0 /\ Sum(x, NSHARDS) \in Int /\ Sum(y, NSHARDS) \in Int
    BY SumSteps, Shards DEF Row
  <2>11. /\ len = 1 => s.total = Sum(x, NSHARDS)
         /\ len = 2 => s.total = Sum(x, NSHARDS) + Sum(y, NSHARDS)
    BY <2>5, <2>9, <2>10
  <2>12. \A c \in Counters :
           /\ Column(p, c) \in Row /\ Column(count, c) \in Row
           /\ Total(c) = Sum(Column(count, c), NSHARDS)
           /\ \A i \in ShardIds : Column(p, c)[i] = p[i][c] /\ Column(count, c)[i] = count[i][c]
    BY <1>1, ColumnType, TotalIs DEF Column
  <2>13. ASSUME NEW c \in Growing, NEW z \in Row,
                \A i \in ShardIds : Read(count[i], goal[i], p[i], m[i], c, z[i])
         PROVE  /\ Sum(Column(p, c), NSHARDS) <= Sum(z, NSHARDS)
                /\ Sum(z, NSHARDS) <= Total(c)
                /\ Sum(Column(p, c), NSHARDS) \in Int /\ Sum(z, NSHARDS) \in Int /\ Total(c) \in Int
    <3>1. \A i \in ShardIds : p[i][c] <= z[i] /\ z[i] <= count[i][c]
      BY <2>13 DEF Read
    <3>2. PICK f \in Row : f = Column(p, c)
      BY <2>12 DEF Growing, Counters
    <3>3. PICK g \in Row : g = Column(count, c)
      BY <2>12 DEF Growing, Counters
    <3>4. \A i \in ShardIds : f[i] <= z[i] /\ z[i] <= g[i]
      BY <2>12, <3>1, <3>2, <3>3 DEF Growing, Counters
    <3>5. Total(c) = Sum(g, NSHARDS)
      BY <2>12, <3>3 DEF Growing, Counters
    <3> QED BY <3>2, <3>4, <3>5, SumWithin
  <2>14. ASSUME NEW c \in {"put", "evict", "hit", "miss"}, s.name = c
         PROVE  s.total \in s.start[c] .. Total(c)
    <3>1. Loops[s.name][1] = c /\ Len(Loops[s.name]) = 1 /\ c \in Watched(s.name) /\ c \in Growing
      BY <2>14 DEF Loops, Watched, Growing
    <3>2. /\ Sum(Column(p, c), NSHARDS) <= Sum(x, NSHARDS) /\ Sum(x, NSHARDS) <= Total(c)
          /\ Sum(Column(p, c), NSHARDS) \in Int /\ Total(c) \in Int
      BY <2>7, <2>13, <3>1
    <3>3. s.start[c] = Sum(Column(p, c), NSHARDS) /\ s.total = Sum(x, NSHARDS)
      BY <2>3, <2>9, <2>11, <3>1
    <3> QED BY <2>10, <3>2, <3>3
  <2>15. ASSUME s.name = "get"
         PROVE  s.total \in s.start["hit"] + s.start["miss"] .. Total("hit") + Total("miss")
    <3>1. /\ Loops[s.name][1] = "hit" /\ Loops[s.name][2] = "miss" /\ Len(Loops[s.name]) = 2
          /\ "hit" \in Watched(s.name) /\ "miss" \in Watched(s.name)
          /\ "hit" \in Growing /\ "miss" \in Growing
      BY <2>15 DEF Loops, Watched, Growing
    <3>2. /\ Sum(Column(p, "hit"), NSHARDS) <= Sum(x, NSHARDS) /\ Sum(x, NSHARDS) <= Total("hit")
          /\ Sum(Column(p, "hit"), NSHARDS) \in Int /\ Total("hit") \in Int
      BY <2>7, <2>13, <3>1
    <3>3. /\ Sum(Column(p, "miss"), NSHARDS) <= Sum(y, NSHARDS) /\ Sum(y, NSHARDS) <= Total("miss")
          /\ Sum(Column(p, "miss"), NSHARDS) \in Int /\ Total("miss") \in Int
      BY <2>3, <2>8, <2>13, <3>1
    <3>4. /\ s.start["hit"] = Sum(Column(p, "hit"), NSHARDS)
          /\ s.start["miss"] = Sum(Column(p, "miss"), NSHARDS)
          /\ s.total = Sum(x, NSHARDS) + Sum(y, NSHARDS)
      BY <2>3, <2>9, <2>11, <3>1
    <3> QED BY <2>10, <3>2, <3>3, <3>4
  <2>16. PICK ap \in Row, ae \in Row, kp \in Row, ke \in Row :
            /\ ap = Column(p, "put") /\ ae = Column(p, "evict")
            /\ kp = Column(count, "put") /\ ke = Column(count, "evict")
    BY <2>12 DEF Counters
  <2>17. /\ \A i \in ShardIds : /\ ap[i] = p[i]["put"] /\ ae[i] = p[i]["evict"]
                                /\ kp[i] = count[i]["put"] /\ ke[i] = count[i]["evict"]
         /\ Total("put") = Sum(kp, NSHARDS) /\ Total("evict") = Sum(ke, NSHARDS)
    BY <2>12, <2>16 DEF Counters
  <2>18. s.name \in {"entries", "dram"} =>
            s.start["put"] = Sum(ap, NSHARDS) /\ s.start["evict"] = Sum(ae, NSHARDS)
    BY <2>9, <2>16 DEF Watched
  <2>19. ASSUME s.name = "entries"
         PROVE  s.total \in (s.start["put"] - s.busy) - (Total("evict") + Busy) ..
                              (Total("put") + Busy) - (s.start["evict"] - s.busy)
    <3>1. Loops[s.name][1] = "leaf" /\ Len(Loops[s.name]) = 1
      BY <2>19 DEF Loops
    <3>2. \A i \in ShardIds : /\ (p[i]["put"] - m[i]) - goal[i]["evict"] <= x[i]
                              /\ x[i] <= goal[i]["put"] - (p[i]["evict"] - m[i])
      BY <2>7, <3>1 DEF Read
    <3>3. \A i \in ShardIds : /\ (ap[i] - m[i]) - (ke[i] + n[i]) <= x[i]
                              /\ x[i] <= (kp[i] + n[i]) - (ae[i] - m[i])
      <4> SUFFICES ASSUME NEW i \in ShardIds
                   PROVE  /\ (ap[i] - m[i]) - (ke[i] + n[i]) <= x[i]
                          /\ x[i] <= (kp[i] + n[i]) - (ae[i] - m[i])
        OBVIOUS
      <4>1. /\ goal[i]["evict"] <= count[i]["evict"] + n[i] /\ goal[i]["put"] <= count[i]["put"] + n[i]
        BY <2>6 DEF Bounds, Values, Counters
      <4>2. /\ goal[i]["evict"] \in Int /\ goal[i]["put"] \in Int /\ p[i]["put"] \in Int
            /\ p[i]["evict"] \in Int /\ count[i]["evict"] \in Int /\ count[i]["put"] \in Int
            /\ m[i] \in Int /\ n[i] \in Int /\ x[i] \in Int
        BY <2>6 DEF Values, Counters
      <4> QED BY <2>17, <3>2, <4>1, <4>2
    <3>4. /\ (Sum(ap, NSHARDS) - Sum(m, NSHARDS)) - (Sum(ke, NSHARDS) + Sum(n, NSHARDS))
                <= Sum(x, NSHARDS)
          /\ Sum(x, NSHARDS) <= (Sum(kp, NSHARDS) + Sum(n, NSHARDS))
                                   - (Sum(ae, NSHARDS) - Sum(m, NSHARDS))
      BY <3>3, SumApart
    <3>5. /\ Sum(ap, NSHARDS) \in Int /\ Sum(ae, NSHARDS) \in Int /\ Sum(kp, NSHARDS) \in Int
          /\ Sum(ke, NSHARDS) \in Int /\ Sum(m, NSHARDS) \in Int /\ Sum(n, NSHARDS) \in Int
      BY SumSteps, Shards DEF Row
    <3>6. s.total = Sum(x, NSHARDS)
      BY <2>3, <2>11, <3>1
    <3> QED BY <2>9, <2>10, <2>17, <2>18, <2>19, <3>4, <3>5, <3>6
  <2>20. ASSUME s.name = "dram", s.busy = 0, Busy = 0,
                s.start["put"] = Total("put"), s.start["evict"] = Total("evict")
         PROVE  s.total = Total("memory") + Total("leaf")
    <3>1. /\ Loops[s.name][1] = "memory" /\ Loops[s.name][2] = "leaf" /\ Len(Loops[s.name]) = 2
      BY <2>20 DEF Loops
    <3>2. \A i \in ShardIds : 0 <= m[i] /\ 0 <= n[i]
      BY <2>6 DEF Bounds, Since
    <3>3. \A i \in ShardIds : m[i] = 0 /\ n[i] = 0
      BY <2>9, <2>20, <3>2, SumZero
    <3>4. \A i \in ShardIds : ap[i] <= kp[i] /\ ae[i] <= ke[i]
      BY <2>6, <2>17 DEF Since, Growing
    <3>5. \A i \in ShardIds : ap[i] = kp[i] /\ ae[i] = ke[i]
      BY <2>17, <2>18, <2>20, <3>4, SumEqual
    <3>6. \A i \in ShardIds : p[i]["put"] = goal[i]["put"] /\ p[i]["evict"] = goal[i]["evict"]
      <4> SUFFICES ASSUME NEW i \in ShardIds
                   PROVE  p[i]["put"] = goal[i]["put"] /\ p[i]["evict"] = goal[i]["evict"]
        OBVIOUS
      <4>1. count[i] \in Values /\ base[i] \in Values /\ goal[i] \in Values /\ n[i] = 0
            /\ Bounds(count[i], base[i], goal[i], n[i])
        BY <2>6, <3>3
      <4>2. count[i]["put"] = goal[i]["put"] /\ count[i]["evict"] = goal[i]["evict"]
        BY <4>1 DEF Bounds, Values, Counters
      <4> QED BY <2>17, <3>5, <4>2
    <3>7. \A i \in ShardIds : x[i] = Val(count[i], "memory") /\ y[i] = Val(count[i], "leaf")
      BY <2>3, <2>7, <2>8, <3>1, <3>3, <3>6 DEF Read
    <3>8. x = [i \in ShardIds |-> Value(i, "memory")] /\ y = [i \in ShardIds |-> Value(i, "leaf")]
      BY <1>1, <3>7, TotalIs DEF Row, Counters
    <3>9. Total("memory") = Sum(x, NSHARDS) /\ Total("leaf") = Sum(y, NSHARDS)
      BY <3>8 DEF Total
    <3> QED BY <2>3, <2>11, <3>1, <3>9
  <2> QED BY <2>14, <2>15, <2>19, <2>20
<1>6. \A t \in Readers : stat[t] \in CallType
  BY <1>1 DEF StatType
<1> QED BY <1>5, <1>6 DEF StatBracketed, CallType, Names

\* The counters, the threads that change them and the calls in progress always fit
\* together: a shard that is being changed is on the way from one balanced state to the
\* next, and what a statistic has read so far lies within bounds that the counters
\* at its call and those of now set (vmemcache_index.c, counters changed under the
\* lock, vmemcache_index_get_stat without it).
THEOREM StatInvariant == StatSpec => []StatInv
<1>1. StatInit => StatInv
  BY InitOk
<1>2. StatInv /\ [StatNext]_statvars => StatInv'
  BY NextOk
<1> QED BY <1>1, <1>2, PTL DEF StatSpec

\* A statistic read without any lock while other threads change the counters
\* (vmemcache_index_get_stat) lies between the values of its counter at the call
\* and at the return; the number of entries is off by no more than the puts and the
\* evictions meanwhile or under way; the memory used is exact if there were none.
THEOREM StatisticsBracketed == StatSpec => []StatBracketed
<1>1. StatInv => StatBracketed
  BY InvBrackets
<1> QED BY <1>1, StatInvariant, PTL


----------------------------------------------------------------------------
(* The trees of the shards *)

\* The invariant of the trees: every shard has one, for the keys of that shard.
TreesOk ==
    /\ sharding \in BOOLEAN
    /\ bucket = [i \in ShardIds |-> bucket[i]]
    /\ \A i \in ShardIds : TreeOf(bucket[i], Here(i)) /\ IsFiniteSet(Here(i))

LEMMA ShardType ==
    ASSUME TreesOk PROVE \A k \in Keys : Shard(k) \in ShardIds
BY IndexAssumption, IndexStatAssumption
   DEF TreesOk, Shard, IndexAssumption, IndexStatAssumption, ShardIds

LEMMA HereIs ==
    ASSUME TreesOk
    PROVE  /\ \A k \in Keys : k \in Present <=> k \in Here(Shard(k))
           /\ \A i \in ShardIds : Here(i) \subseteq Keys /\ \A k \in Here(i) : Shard(k) = i
           /\ \A i \in ShardIds : \A k \in Keys : Shard(k) = i =>
                 (critnib_get(bucket[i], k) <=> k \in Here(i))
BY DEF Here, Present

\* What the trees of the shards hold after a step that replaces one of them.
LEMMA HereNext ==
    ASSUME TreesOk, NEW i \in ShardIds, NEW T, NEW K \in SUBSET Keys,
           sharding' = sharding, bucket' = [bucket EXCEPT ![i] = T], TreeOf(T, K),
           \A k \in K : Shard(k) = i, IsFiniteSet(K)
    PROVE  /\ TreesOk' /\ Here(i)' = K /\ bucket'[i] = T
           /\ \A j \in ShardIds : j # i => Here(j)' = Here(j) /\ bucket'[j] = bucket[j]
<1>1. \A k \in Keys : Shard(k)' = Shard(k) /\ Shard(k) \in ShardIds
  BY ShardType DEF Shard
<1>2. /\ bucket' = [j \in ShardIds |-> bucket'[j]] /\ bucket'[i] = T
      /\ \A j \in ShardIds : j # i => bucket'[j] = bucket[j]
  BY DEF TreesOk
<1>3. \A k \in Keys : critnib_get(T, k) <=> k \in K
  BY TreeIs
<1>4. \A j \in ShardIds : Here(j)' = {k \in Keys : critnib_get(bucket'[j], k) /\ Shard(k) = j}
  BY <1>1 DEF Here, Present
<1>5. \A j \in ShardIds : Here(j) = {k \in Keys : critnib_get(bucket[j], k) /\ Shard(k) = j}
  BY DEF Here, Present
<1>6. Here(i)' = K
  BY <1>2, <1>3, <1>4
<1>7. \A j \in ShardIds : j # i => Here(j)' = Here(j)
  BY <1>2, <1>4, <1>5
<1>8. \A j \in ShardIds : TreeOf(bucket'[j], Here(j)') /\ IsFiniteSet(Here(j)')
  <2> SUFFICES ASSUME NEW j \in ShardIds
               PROVE  TreeOf(bucket'[j], Here(j)') /\ IsFiniteSet(Here(j)')
    OBVIOUS
  <2>1. CASE j = i
    BY <1>2, <1>6, <2>1
  <2>2. CASE j # i
    <3>1. TreeOf(bucket[j], Here(j)) /\ IsFiniteSet(Here(j))
      BY DEF TreesOk
    <3> QED BY <1>2, <1>7, <2>2, <3>1
  <2> QED BY <2>1, <2>2
<1>9. sharding' \in BOOLEAN
  BY DEF TreesOk
<1>10. TreesOk'
  BY <1>2, <1>8, <1>9 DEF TreesOk
<1> QED BY <1>2, <1>6, <1>7, <1>10

LEMMA TreesSame ==
    ASSUME TreesOk, UNCHANGED <<sharding, bucket>>
    PROVE  TreesOk' /\ Present' = Present /\ \A i : Here(i)' = Here(i)
<1>1. \A k : Shard(k)' = Shard(k)
  BY DEF Shard
<1>2. Present' = Present
  BY <1>1 DEF Present
<1>3. \A i : Here(i)' = Here(i)
  BY <1>1, <1>2 DEF Here
<1> QED BY <1>2, <1>3 DEF TreesOk

\* What an insertion does to the trees.
Grows(i, k, r) ==
    /\ k \notin Here(i) /\ i = Shard(k) /\ bucket' = [bucket EXCEPT ![i] = r.tree] /\ sharding' = sharding
    /\ TreeOf(r.tree, Here(i) \cup {k})
    /\ \/ r.nodes = 0 /\ NodesOf(r.tree) = NodesOf(bucket[i])
       \/ /\ r.nodes = 1
          /\ \E a : a \notin NodesOf(bucket[i]) /\ NodesOf(r.tree) = NodesOf(bucket[i]) \cup {a}

Shrinks(i, k, r) ==
    /\ k \in Here(i) /\ i = Shard(k) /\ bucket' = [bucket EXCEPT ![i] = r.tree] /\ sharding' = sharding
    /\ TreeOf(r.tree, Here(i) \ {k})
    /\ \/ r.nodes = 0 /\ NodesOf(r.tree) = NodesOf(bucket[i])
       \/ r.nodes = 1 /\ \E m \in NodesOf(bucket[i]) : NodesOf(r.tree) = NodesOf(bucket[i]) \ {m}

LEMMA SetIs ==
    ASSUME TreesOk, NEW k \in Keys, NEW a \in alloc_node(Shard(k))
    PROVE  SetDone(bucket[Shard(k)], Here(Shard(k)), k, critnib_set(bucket[Shard(k)], k, a))
<1>1. PICK i \in ShardIds : i = Shard(k)
  BY ShardType
<1>2. PICK B : TreeOk(bucket[i], Here(i), B)
  BY DEF TreesOk, TreeOf
<1>3. a \in {Null} \cup (Addrs \ NodesOf(bucket[i]))
  BY <1>1 DEF alloc_node
<1> QED BY <1>1, <1>2, <1>3, SetOk

\* The changes of the trees that the steps of the index make.
LEMMA Steps ==
    ASSUME TreesOk, Next
    PROVE  \/ \E t \in Threads, k \in Keys, i \in ShardIds : \E r :
                Grows(i, k, r) /\ CountInsert(t, i, r.nodes, UsableSize(k))
           \/ \E t \in Threads, k \in Keys, i \in ShardIds : \E r :
                Shrinks(i, k, r) /\ CountRemove(t, i, r.nodes, UsableSize(k))
           \/ /\ UNCHANGED <<sharding, bucket>>
              /\ \/ \E t \in Threads : \/ \E i \in ShardIds : CountHit(t, i) \/ CountMiss(t, i)
                                       \/ Count(t)
                 \/ \E t \in Readers : \/ \E name \in Names : StatCall(t, name)
                                       \/ StatShard(t) \/ StatReturn(t)
                 \/ UNCHANGED statvars
<1>1. ASSUME NEW t \in Threads, NEW k \in Keys, IndexInsert(t, k)
      PROVE  \/ \E i \in ShardIds : \E r : Grows(i, k, r) /\ CountInsert(t, i, r.nodes, UsableSize(k))
             \/ UNCHANGED <<sharding, bucket>> /\ UNCHANGED statvars
  <2>1. PICK i \in ShardIds : i = Shard(k)
    BY ShardType
  <2>2. PICK a \in alloc_node(i) :
          LET r == critnib_set(bucket[i], k, a)
          IN  /\ \/ /\ r.err = "0" /\ MorePuts
                    /\ bucket' = [bucket EXCEPT ![i] = r.tree]
                    /\ CountInsert(t, i, r.nodes, UsableSize(k))
                 \/ /\ r.err # "0" /\ Idle(t) /\ ~Locked(i)
                    /\ UNCHANGED <<bucket, statvars>>
              /\ UNCHANGED sharding
    BY <1>1, <2>1 DEF IndexInsert
  <2>3. PICK r : r = critnib_set(bucket[i], k, a)
    OBVIOUS
  <2>4. SetDone(bucket[i], Here(i), k, r)
    BY <2>1, <2>2, <2>3, SetIs
  <2>5. CASE UNCHANGED <<bucket, statvars>> /\ UNCHANGED sharding
    BY <2>5
  <2>6. CASE /\ r.err = "0" /\ bucket' = [bucket EXCEPT ![i] = r.tree]
             /\ CountInsert(t, i, r.nodes, UsableSize(k)) /\ UNCHANGED sharding
    <3>1. Grows(i, k, r)
      BY <2>1, <2>4, <2>6 DEF Grows, SetDone
    <3> QED BY <2>6, <3>1
  <2> QED BY <2>2, <2>3, <2>5, <2>6
<1>2. ASSUME NEW t \in Threads, NEW k \in Keys, IndexRemove(t, k)
      PROVE  \E i \in ShardIds : \E r : Shrinks(i, k, r) /\ CountRemove(t, i, r.nodes, UsableSize(k))
  <2>1. PICK i \in ShardIds : i = Shard(k)
    BY ShardType
  <2>2. PICK r : r = critnib_remove(bucket[i], k)
    OBVIOUS
  <2>3. /\ critnib_get(bucket[i], k) /\ bucket' = [bucket EXCEPT ![i] = r.tree]
        /\ CountRemove(t, i, r.nodes, UsableSize(k)) /\ sharding' = sharding
    BY <1>2, <2>1, <2>2 DEF IndexRemove
  <2>4. k \in Here(i)
    BY <2>1, <2>3, HereIs
  <2>5. PICK B : TreeOk(bucket[i], Here(i), B)
    BY DEF TreesOk, TreeOf
  <2>6. RemoveDone(bucket[i], Here(i), k, r)
    BY <2>2, <2>4, <2>5, RemoveOk
  <2>7. Shrinks(i, k, r)
    BY <2>1, <2>3, <2>4, <2>6 DEF Shrinks, RemoveDone
  <2> QED BY <2>3, <2>7
<1>3. ASSUME NEW t \in Threads, NEW k \in Keys, IndexGet(t, k)
      PROVE  /\ UNCHANGED <<sharding, bucket>>
             /\ \/ \E i \in ShardIds : CountHit(t, i) \/ CountMiss(t, i)
                \/ UNCHANGED statvars
  BY <1>3, ShardType DEF IndexGet
<1>4. ASSUME NEW t \in Threads, OfStat(Count(t))
      PROVE  UNCHANGED <<sharding, bucket>> /\ Count(t)
  BY <1>4 DEF OfStat
<1>5. ASSUME NEW t \in Readers,
             \/ \E name \in Names : OfStat(StatCall(t, name))
             \/ OfStat(StatShard(t)) \/ OfStat(StatReturn(t))
      PROVE  /\ UNCHANGED <<sharding, bucket>>
             /\ (\E name \in Names : StatCall(t, name)) \/ StatShard(t) \/ StatReturn(t)
  BY <1>5 DEF OfStat
<1>6. CASE \E t \in Threads : \/ \E k \in Keys : \/ IndexInsert(t, k) \/ IndexRemove(t, k)
                                                 \/ IndexGet(t, k)
                              \/ OfStat(Count(t))
  BY <1>1, <1>2, <1>3, <1>4, <1>6
<1>7. CASE \E t \in Readers : \/ /\ FewPuts
                                 /\ \E name \in Names : OfStat(StatCall(t, name))
                              \/ OfStat(StatShard(t)) \/ OfStat(StatReturn(t))
  BY <1>5, <1>7
<1> QED BY <1>6, <1>7 DEF Next

LEMMA TreesInit ==
    ASSUME Init PROVE TreesOk /\ Present = {} /\ \A i \in ShardIds : Here(i) = {} /\ NodesOf(bucket[i]) = {}
<1>1. sharding \in BOOLEAN /\ bucket = [i \in ShardIds |-> EmptyTree]
  BY DEF Init
<1>2. \A k \in Keys : Shard(k) \in ShardIds
  BY <1>1, IndexAssumption, IndexStatAssumption
     DEF Shard, IndexAssumption, IndexStatAssumption, ShardIds
<1>3. TreeOf(EmptyTree, {}) /\ NodesOf(EmptyTree) = {}
  BY EmptyIs
<1>4. \A k \in Keys : ~critnib_get(EmptyTree, k)
  BY <1>3, TreeIs
<1>5. Present = {}
  BY <1>1, <1>2, <1>4 DEF Present
<1>6. \A i \in ShardIds : Here(i) = {} /\ bucket[i] = EmptyTree
  BY <1>1, <1>5 DEF Here
<1>7. \A i \in ShardIds : TreeOf(bucket[i], Here(i)) /\ IsFiniteSet(Here(i))
  BY <1>3, <1>6, FS_EmptySet
<1>8. bucket = [i \in ShardIds |-> bucket[i]]
  BY <1>1
<1> QED BY <1>1, <1>3, <1>5, <1>6, <1>7, <1>8 DEF TreesOk

\* An insertion adds the key, and changes what is found under no other key.
LEMMA GrowsKeys ==
    ASSUME TreesOk, NEW k \in Keys, NEW i \in ShardIds, NEW r, Grows(i, k, r)
    PROVE  /\ TreesOk' /\ Here(i)' = Here(i) \cup {k} /\ bucket'[i] = r.tree
           /\ \A j \in ShardIds : j # i => Here(j)' = Here(j) /\ bucket'[j] = bucket[j]
           /\ k \notin Present /\ Present' = Present \cup {k}
<1>1. PICK K : K = Here(i) \cup {k}
  OBVIOUS
<1>2. K \in SUBSET Keys /\ (\A x \in K : Shard(x) = i) /\ IsFiniteSet(K)
  <2>1. IsFiniteSet(Here(i))
    BY DEF TreesOk
  <2>2. IsFiniteSet(Here(i) \cup {k})
    BY <2>1, FS_AddElement
  <2> QED BY <1>1, <2>2, HereIs DEF Grows
<1>3. PICK T : T = r.tree
  OBVIOUS
<1>4. sharding' = sharding /\ bucket' = [bucket EXCEPT ![i] = T] /\ TreeOf(T, K)
  BY <1>1, <1>3 DEF Grows
<1>5. /\ TreesOk' /\ Here(i)' = K /\ bucket'[i] = T
      /\ \A j \in ShardIds : j # i => Here(j)' = Here(j) /\ bucket'[j] = bucket[j]
  BY <1>2, <1>4, HereNext
<1>6. \A x \in Keys : Shard(x)' = Shard(x) /\ Shard(x) \in ShardIds
  BY <1>4, ShardType DEF Shard
<1>7. \A x \in Keys : x \in Present' <=> x \in Here(Shard(x))'
  BY <1>6 DEF Present, Here
<1>8. \A x \in Keys : x \in Present <=> x \in Here(Shard(x))
  BY HereIs
<1>9. Present \subseteq Keys /\ Present' \subseteq Keys
  BY DEF Present
<1>10. k \notin Present /\ Shard(k) = i
  BY <1>8 DEF Grows
<1>11. ASSUME NEW x \in Keys PROVE x \in Present' <=> x \in Present \/ x = k
  <2>1. PICK j \in ShardIds : j = Shard(x) /\ j = Shard(x)'
    BY <1>6
  <2>2. x \in Present' <=> x \in Here(j)'
    BY <1>7, <2>1
  <2>3. x \in Present <=> x \in Here(j)
    BY <1>8, <2>1
  <2>4. CASE j = i
    BY <1>1, <1>5, <2>2, <2>3, <2>4
  <2>5. CASE j # i
    BY <1>5, <1>10, <2>1, <2>2, <2>3, <2>5
  <2> QED BY <2>4, <2>5
<1>12. Present' = Present \cup {k}
  BY <1>9, <1>11
<1> QED BY <1>1, <1>3, <1>5, <1>10, <1>12

LEMMA ShrinksKeys ==
    ASSUME TreesOk, NEW k \in Keys, NEW i \in ShardIds, NEW r, Shrinks(i, k, r)
    PROVE  /\ TreesOk' /\ Here(i)' = Here(i) \ {k} /\ bucket'[i] = r.tree
           /\ \A j \in ShardIds : j # i => Here(j)' = Here(j) /\ bucket'[j] = bucket[j]
           /\ k \in Present /\ Present' = Present \ {k}
<1>1. PICK K : K = Here(i) \ {k}
  OBVIOUS
<1>2. K \in SUBSET Keys /\ (\A x \in K : Shard(x) = i) /\ IsFiniteSet(K)
  <2>1. IsFiniteSet(Here(i))
    BY DEF TreesOk
  <2>2. IsFiniteSet(Here(i) \ {k})
    BY <2>1, FS_RemoveElement
  <2> QED BY <1>1, <2>2, HereIs
<1>3. PICK T : T = r.tree
  OBVIOUS
<1>4. sharding' = sharding /\ bucket' = [bucket EXCEPT ![i] = T] /\ TreeOf(T, K)
  BY <1>1, <1>3 DEF Shrinks
<1>5. /\ TreesOk' /\ Here(i)' = K /\ bucket'[i] = T
      /\ \A j \in ShardIds : j # i => Here(j)' = Here(j) /\ bucket'[j] = bucket[j]
  BY <1>2, <1>4, HereNext
<1>6. \A x \in Keys : Shard(x)' = Shard(x) /\ Shard(x) \in ShardIds
  BY <1>4, ShardType DEF Shard
<1>7. \A x \in Keys : x \in Present' <=> x \in Here(Shard(x))'
  BY <1>6 DEF Present, Here
<1>8. \A x \in Keys : x \in Present <=> x \in Here(Shard(x))
  BY HereIs
<1>9. Present \subseteq Keys /\ Present' \subseteq Keys
  BY DEF Present
<1>10. k \in Present /\ Shard(k) = i
  BY <1>8 DEF Shrinks
<1>11. ASSUME NEW x \in Keys PROVE x \in Present' <=> x \in Present /\ x # k
  <2>1. PICK j \in ShardIds : j = Shard(x) /\ j = Shard(x)'
    BY <1>6
  <2>2. x \in Present' <=> x \in Here(j)'
    BY <1>7, <2>1
  <2>3. x \in Present <=> x \in Here(j)
    BY <1>8, <2>1
  <2>4. CASE j = i
    BY <1>1, <1>5, <2>2, <2>3, <2>4
  <2>5. CASE j # i
    BY <1>5, <1>10, <2>1, <2>2, <2>3, <2>5
  <2> QED BY <2>4, <2>5
<1>12. Present' = Present \ {k}
  BY <1>9, <1>11
<1> QED BY <1>1, <1>3, <1>5, <1>10, <1>12

\* Every step keeps the trees and is one of the set of keys and one of the counters.
LEMMA TreesNext ==
    ASSUME TreesOk, [Next]_vars
    PROVE  TreesOk' /\ [Set!KNext]_Present /\ [StatNext]_statvars
<1>1. ASSUME UNCHANGED <<sharding, bucket>>
      PROVE  TreesOk' /\ Present' = Present
  BY <1>1, TreesSame
<1>2. CASE UNCHANGED vars
  BY <1>1, <1>2 DEF vars
<1>3. ASSUME NEW t \in Threads, NEW k \in Keys, NEW i \in ShardIds, NEW r,
             Grows(i, k, r), CountInsert(t, i, r.nodes, UsableSize(k))
      PROVE  TreesOk' /\ [Set!KNext]_Present /\ [StatNext]_statvars
  <2>1. TreesOk' /\ k \notin Present /\ Present' = Present \cup {k}
    BY <1>3, GrowsKeys
  <2>2. Set!KNext
    BY <2>1 DEF Set!KNext, Set!Insertion
  <2>3. r.nodes \in {0, 1} /\ UsableSize(k) \in EntrySizes
    BY <1>3, IndexAssumption DEF Grows, IndexAssumption
  <2>4. StatNext
    BY <1>3, <2>3 DEF StatNext
  <2> QED BY <2>1, <2>2, <2>4
<1>4. ASSUME NEW t \in Threads, NEW k \in Keys, NEW i \in ShardIds, NEW r,
             Shrinks(i, k, r), CountRemove(t, i, r.nodes, UsableSize(k))
      PROVE  TreesOk' /\ [Set!KNext]_Present /\ [StatNext]_statvars
  <2>1. TreesOk' /\ k \in Present /\ Present' = Present \ {k}
    BY <1>4, ShrinksKeys
  <2>2. Set!KNext
    BY <2>1 DEF Set!KNext, Set!Removal
  <2>3. r.nodes \in {0, 1} /\ UsableSize(k) \in EntrySizes
    BY <1>4, IndexAssumption DEF Shrinks, IndexAssumption
  <2>4. StatNext
    BY <1>4, <2>3 DEF StatNext
  <2> QED BY <2>1, <2>2, <2>4
<1>5. CASE /\ UNCHANGED <<sharding, bucket>>
           /\ \/ \E t \in Threads : \/ \E i \in ShardIds : CountHit(t, i) \/ CountMiss(t, i)
                                    \/ Count(t)
              \/ \E t \in Readers : \/ \E name \in Names : StatCall(t, name)
                                    \/ StatShard(t) \/ StatReturn(t)
              \/ UNCHANGED statvars
  <2>1. StatNext \/ UNCHANGED statvars
    BY <1>5 DEF StatNext
  <2> QED BY <1>1, <1>5, <2>1
<1>6. CASE Next
  BY <1>3, <1>4, <1>5, <1>6, Steps
<1> QED BY <1>2, <1>6

\* Every shard always has a tree of the keys that are found in it.
THEOREM TreesInvariant == Spec => []TreesOk
<1>1. Init => TreesOk
  BY TreesInit
<1>2. TreesOk /\ [Next]_vars => TreesOk'
  BY TreesNext
<1> QED BY <1>1, <1>2, PTL DEF Spec

\* The sharded trees (critnib_set, critnib_get and critnib_remove under the locks
\* of the shards) implement a plain set of keys.
THEOREM IndexImplementsKeySet == Spec => ImplementsKeySet
<1>1. Init => Set!KInit
  BY TreesInit DEF Set!KInit
<1>2. TreesOk /\ [Next]_vars => [Set!KNext]_Present
  BY TreesNext
<1> QED BY <1>1, <1>2, TreesInvariant, PTL DEF Spec, ImplementsKeySet, Set!KSpec

\* vmcache_index_insert is refused if, and only if, vmcache_index_get finds the
\* key, whatever keys are prefixes of each other.
THEOREM OnlyPresentRefused == Spec => []RefusesOnlyPresent
<1>1. TreesOk => RefusesOnlyPresent
  <2> SUFFICES ASSUME TreesOk, NEW k \in Keys
               PROVE  critnib_set(bucket[Shard(k)], k, Null).err = "EEXIST" <=> k \in Present
    BY DEF RefusesOnlyPresent
  <2>1. Null \in alloc_node(Shard(k))
    BY DEF alloc_node
  <2>2. PICK r : r = critnib_set(bucket[Shard(k)], k, Null)
    OBVIOUS
  <2>3. SetDone(bucket[Shard(k)], Here(Shard(k)), k, r)
    BY <2>1, <2>2, SetIs
  <2>4. r.err = "EEXIST" <=> k \in Here(Shard(k))
    BY <2>3 DEF SetDone
  <2> QED BY <2>2, <2>4, HereIs
<1> QED BY <1>1, TreesInvariant, PTL

\* Whatever was inserted and removed, every node of a tree branches, and the keys
\* below it agree on what comes before it: what the descents of critnib.c need.
THEOREM TreesAlwaysWellFormed == Spec => []TreesWellFormed
<1>1. TreesOk => TreesWellFormed
  BY TreeWellFormed DEF TreesOk, TreesWellFormed
<1> QED BY <1>1, TreesInvariant, PTL

\* vmcache_index_delete frees every entry that can be found and every node, each
\* of them once.
THEOREM EachFreedOnce == Spec => []DeleteFreesEachOnce
<1>1. TreesOk => DeleteFreesEachOnce
  <2> SUFFICES ASSUME TreesOk, NEW i \in ShardIds
               PROVE  LET freed == vmcache_index_delete[i]
                      IN  /\ Elements(freed) = Here(i) \cup NodesOf(bucket[i])
                          /\ \A m, n \in 1 .. Len(freed) : freed[m] = freed[n] => m = n
    BY DEF DeleteFreesEachOnce
  <2>1. TreeOf(bucket[i], Here(i))
    BY DEF TreesOk
  <2>2. Lists(delete_node(bucket[i], bucket[i].root), Here(i) \cup NodesOf(bucket[i]))
    BY <2>1, DeleteAll
  <2>3. vmcache_index_delete[i] = delete_node(bucket[i], bucket[i].root)
    BY DEF vmcache_index_delete
  <2> QED BY <2>2, <2>3 DEF Lists
<1> QED BY <1>1, TreesInvariant, PTL

\* The index changes the counters of its shards as module IndexStat says, so what
\* is proved of the statistics holds of the whole index.
THEOREM IndexImplementsStat == Spec => StatSpec
<1>1. Init => StatInit
  BY DEF Init
<1>2. TreesOk /\ [Next]_vars => [StatNext]_statvars
  BY TreesNext
<1> QED BY <1>1, <1>2, TreesInvariant, PTL DEF Spec, StatSpec

\* The statistics of the whole index are as good as those of module IndexStat: they
\* are read without a lock while puts and evictions go on.
THEOREM IndexStatisticsBracketed == Spec => []StatBracketed
BY IndexImplementsStat, StatisticsBracketed, PTL

----------------------------------------------------------------------------
(* The counters of the shards *)

Blocks(K) == UNION {{k} \X (1 .. UsableSize(k)) : k \in K}

LEMMA BlocksAdd ==
    ASSUME NEW K \in SUBSET Keys, NEW k \in Keys, k \notin K, IsFiniteSet(Blocks(K))
    PROVE  /\ IsFiniteSet(Blocks(K \cup {k}))
           /\ Cardinality(Blocks(K \cup {k})) = Cardinality(Blocks(K)) + UsableSize(k)
<1>1. PICK n \in Nat : n = UsableSize(k)
  BY Constants DEF UsableSize
<1>2. IsFiniteSet(1 .. n) /\ Cardinality(1 .. n) = n
  <2>1. 1 \in Int /\ n \in Int
    OBVIOUS
  <2>2. IsFiniteSet(1 .. n) /\ Cardinality(1 .. n) = IF 1 > n THEN 0 ELSE n - 1 + 1
    BY <2>1, FS_Interval
  <2> QED BY <2>2
<1>3. IsFiniteSet({k}) /\ Cardinality({k}) = 1
  BY FS_Singleton
<1>4. PICK X : X = {k} \X (1 .. n)
  OBVIOUS
<1>5. IsFiniteSet(X) /\ Cardinality(X) = n
  <2>1. IsFiniteSet(X) /\ Cardinality(X) = Cardinality({k}) * Cardinality(1 .. n)
    BY <1>2, <1>3, <1>4, FS_Product
  <2> QED BY <1>2, <1>3, <2>1
<1>6. Blocks(K \cup {k}) = Blocks(K) \cup X
  BY <1>1, <1>4 DEF Blocks
<1>7. Blocks(K) \cap X = {}
  BY <1>4 DEF Blocks
<1>8. PICK Y : Y = Blocks(K)
  OBVIOUS
<1>9. /\ IsFiniteSet(Y \cup X) /\ Cardinality(Y) \in Nat
      /\ Cardinality(Y \cup X) = Cardinality(Y) + Cardinality(X) - Cardinality(Y \cap X)
  BY <1>5, <1>8, FS_Union, FS_CardinalityType
<1>10. Cardinality(Y \cap X) = 0
  BY <1>7, <1>8, FS_EmptySet
<1>11. Cardinality(Y \cup X) = Cardinality(Y) + n
  <2>1. PICK z, y, e : z = Cardinality(Y \cup X) /\ y = Cardinality(Y) /\ e = Cardinality(Y \cap X)
    OBVIOUS
  <2>2. y \in Nat /\ e = 0 /\ z = y + n - e
    BY <1>5, <1>9, <1>10, <2>1, Zenon
  <2>3. z = y + n
    BY <2>2
  <2> QED BY <2>1, <2>3, Zenon
<1> QED BY <1>1, <1>6, <1>8, <1>9, <1>11, Zenon

LEMMA BlocksRemove ==
    ASSUME NEW K \in SUBSET Keys, NEW k \in K, IsFiniteSet(Blocks(K))
    PROVE  /\ IsFiniteSet(Blocks(K \ {k}))
           /\ Cardinality(Blocks(K \ {k})) = Cardinality(Blocks(K)) - UsableSize(k)
<1>1. PICK J \in SUBSET Keys : J = K \ {k}
  OBVIOUS
<1>2. Blocks(J) \subseteq Blocks(K) /\ K = J \cup {k} /\ k \notin J /\ k \in Keys
  BY <1>1 DEF Blocks
<1>3. IsFiniteSet(Blocks(J)) /\ Cardinality(Blocks(J)) \in Nat
  BY <1>2, FS_Subset, FS_CardinalityType
<1>4. Cardinality(Blocks(K)) = Cardinality(Blocks(J)) + UsableSize(k)
  BY <1>2, <1>3, BlocksAdd
<1>5. UsableSize(k) \in Nat
  BY <1>2, Constants DEF UsableSize
<1> QED BY <1>1, <1>3, <1>4, <1>5

Exact == {"leaf", "node", "DRAM"}

\* What the counters of a shard should say.
Numbers(K, N) ==
    [c \in Exact |-> IF c = "leaf" THEN Cardinality(K)
                     ELSE IF c = "node" THEN Cardinality(N) ELSE Cardinality(Blocks(K))]

Num == [i \in ShardIds |-> Numbers(Here(i), NodesOf(bucket[i]))]

\* The counters k of a shard with the changes that w still has to make say n.
Owes(k, w, n) == \A c \in Exact : k[c] + (IF c \in w.todo THEN w.add[c] ELSE 0) = n[c]

TallyOk(n) ==
    /\ \A i \in ShardIds : ~Locked(i) => \A c \in Exact : count[i][c] = n[i][c]
    /\ \A t \in Threads : work[t].locked =>
          Owes(count[work[t].shard], work[t], n[work[t].shard])

CountInv == TallyOk(Num) /\ \A i \in ShardIds : IsFiniteSet(Blocks(Here(i)))

LEMMA StatFacts ==
    ASSUME StatInv
    PROVE  /\ count \in Vector /\ work \in [Threads -> WorkType] /\ Exclusive
           /\ \A i \in ShardIds, c \in Counters : count[i][c] \in Int
           /\ \A t \in Threads : /\ work[t].shard \in ShardIds /\ work[t].add \in Values
                                 /\ work[t].todo \subseteq Counters /\ ThreadOk(work[t])
                                 /\ \A c \in Counters : work[t].add[c] \in Int
BY DEF StatInv, StatType, WorkType, Vector, Values

\* A thread begins to change the counters of a shard.
LEMMA BeginTally ==
    ASSUME StatInv, NEW n, NEW n2, TallyOk(n), NEW t \in Threads, NEW i \in ShardIds,
           NEW add \in Values, Idle(t), ~Locked(i), Start(t, i, TRUE, add),
           \A c \in Exact : n2[i][c] = n[i][c] + add[c],
           \A j \in ShardIds : j # i => n2[j] = n[j]
    PROVE  TallyOk(n2)'
<1>1. PICK w : w = [shard |-> i, locked |-> TRUE, todo |-> {c \in Counters : add[c] # 0}, add |-> add]
  OBVIOUS
<1>2. /\ count' = count /\ work'[t] = w
      /\ \A u \in Threads : u # t => work'[u] = work[u]
  BY <1>1, StatFacts DEF Start
<1>3. /\ w.shard = i /\ w.locked = TRUE /\ w.add = add
      /\ \A c \in Counters : c \in w.todo <=> add[c] # 0
  BY <1>1
<1>4. ~work[t].locked
  BY StatFacts DEF Idle, ThreadOk
<1>5. \A u \in Threads : work[u].locked => u # t /\ work[u].shard # i /\ work[u].shard \in ShardIds
  BY <1>4, StatFacts DEF Locked
<1>6. \A j \in ShardIds : ~Locked(j)' => j # i /\ ~Locked(j)
  BY <1>2, <1>3, <1>5 DEF Locked
<1>7. \A j \in ShardIds : ~Locked(j)' => \A c \in Exact : count'[j][c] = n2[j][c]
  BY <1>2, <1>6 DEF TallyOk
<1>8. Owes(count'[i], w, n2[i])
  <2> SUFFICES ASSUME NEW c \in Exact
               PROVE  count'[i][c] + (IF c \in w.todo THEN w.add[c] ELSE 0) = n2[i][c]
    BY DEF Owes
  <2>1. c \in Counters
    BY DEF Exact, Counters
  <2>2. count[i][c] = n[i][c] /\ count[i][c] \in Int /\ add[c] \in Int
    BY <2>1, StatFacts DEF TallyOk, Values
  <2> QED BY <1>2, <1>3, <2>1, <2>2
<1>9. ASSUME NEW u \in Threads, work'[u].locked
      PROVE  Owes(count'[work'[u].shard], work'[u], n2[work'[u].shard])
  <2>1. CASE u = t
    BY <1>2, <1>3, <1>8, <2>1
  <2>2. CASE u # t
    <3>1. work'[u] = work[u] /\ work[u].locked
      BY <1>2, <1>9, <2>2
    <3>2. Owes(count[work[u].shard], work[u], n[work[u].shard])
      BY <3>1 DEF TallyOk
    <3>3. n2[work[u].shard] = n[work[u].shard]
      BY <1>5, <3>1
    <3> QED BY <1>2, <3>1, <3>2, <3>3
  <2> QED BY <2>1, <2>2
<1> QED BY <1>7, <1>9 DEF TallyOk

\* A thread changes a counter, and releases the lock with the last one.
LEMMA CountTally ==
    ASSUME StatInv, NEW n, TallyOk(n), NEW t \in Threads, Count(t)
    PROVE  TallyOk(n)'
<1>1. PICK w : w = work[t]
  OBVIOUS
<1>2. PICK c \in w.todo : /\ count' = [count EXCEPT ![w.shard][c] = @ + w.add[c]]
                          /\ work' = [work EXCEPT ![t] = IF w.todo = {c} THEN NoWork
                                                         ELSE [w EXCEPT !.todo = @ \ {c}]]
  BY <1>1 DEF Count
<1>3. /\ w \in WorkType /\ w.shard \in ShardIds /\ w.todo \subseteq Counters /\ c \in Counters /\ ThreadOk(w)
      /\ w.add[c] \in Int
  BY <1>1, <1>2, StatFacts
<1>4. /\ \A j \in ShardIds, x \in Counters :
            count'[j][x] = IF j = w.shard /\ x = c THEN count[j][x] + w.add[x] ELSE count[j][x]
      /\ \A j \in ShardIds, x \in Counters : count[j][x] \in Int
  BY <1>2, <1>3, StatFacts DEF Vector, Values
<1>5. PICK w2 : w2 = IF w.todo = {c} THEN NoWork ELSE [w EXCEPT !.todo = @ \ {c}]
  OBVIOUS
<1>6. /\ w2.todo = w.todo \ {c}
      /\ w.todo # {c} => w2.add = w.add /\ w2.shard = w.shard /\ w2.locked = w.locked
      /\ w.todo = {c} => ~w2.locked
  <2>1. NoWork.todo = {} /\ ~NoWork.locked
    BY DEF NoWork
  <2>2. CASE w.todo = {c}
    BY <1>5, <2>1, <2>2
  <2>3. CASE w.todo # {c}
    <3>1. w = [shard |-> w.shard, locked |-> w.locked, todo |-> w.todo, add |-> w.add]
      BY <1>3 DEF WorkType
    <3>2. w2 = [shard |-> w.shard, locked |-> w.locked, todo |-> w.todo \ {c}, add |-> w.add]
      BY <1>5, <2>3, <3>1
    <3> QED BY <2>3, <3>2
  <2> QED BY <2>2, <2>3
<1>7. work'[t] = w2 /\ \A u \in Threads : u # t => work'[u] = work[u]
  BY <1>2, <1>5, StatFacts
<1>8. Exact \subseteq Counters
  BY DEF Exact, Counters
<1>9. CASE ~w.locked
  <2>1. c \notin Exact /\ ~w2.locked
    BY <1>2, <1>3, <1>6, <1>9 DEF ThreadOk, Exact
  <2>2. \A j \in ShardIds, x \in Exact : count'[j][x] = count[j][x]
    BY <1>4, <1>8, <2>1
  <2>3. \A u \in Threads : IF work'[u].locked THEN work'[u] = work[u] ELSE ~work[u].locked
    BY <1>1, <1>7, <1>9, <2>1
  <2>4. \A j \in ShardIds : ~Locked(j)' => ~Locked(j)
    BY <2>3 DEF Locked
  <2>5. \A j \in ShardIds : ~Locked(j)' => \A x \in Exact : count'[j][x] = n[j][x]
    BY <2>2, <2>4 DEF TallyOk
  <2>6. ASSUME NEW u \in Threads, work'[u].locked
        PROVE  Owes(count'[work'[u].shard], work'[u], n[work'[u].shard])
    <3>1. work'[u] = work[u] /\ work[u].locked /\ work[u].shard \in ShardIds
      BY <2>3, <2>6, StatFacts
    <3>2. Owes(count[work[u].shard], work[u], n[work[u].shard])
      BY <3>1 DEF TallyOk
    <3> QED BY <2>2, <3>1, <3>2 DEF Owes
  <2> QED BY <2>5, <2>6 DEF TallyOk
<1>10. CASE w.locked
  <2>1. PICK i \in ShardIds : i = w.shard
    BY <1>3
  <2>2. \A u \in Threads : u # t /\ work[u].locked => work[u].shard # i
    BY <1>1, <1>10, <2>1, StatFacts DEF Exclusive
  <2>3. Owes(count[i], w, n[i])
    BY <1>1, <1>10, <2>1 DEF TallyOk
  <2>4. Owes(count'[i], [w EXCEPT !.todo = w.todo \ {c}], n[i])
    <3>0. [w EXCEPT !.todo = w.todo \ {c}].todo = w.todo \ {c} /\ [w EXCEPT !.todo = w.todo \ {c}].add = w.add
      BY <1>3 DEF WorkType
    <3> SUFFICES ASSUME NEW x \in Exact
                 PROVE  count'[i][x] + (IF x \in w.todo \ {c} THEN w.add[x] ELSE 0) = n[i][x]
      BY <3>0 DEF Owes
    <3>1. count[i][x] + (IF x \in w.todo THEN w.add[x] ELSE 0) = n[i][x]
      BY <2>3 DEF Owes
    <3>2. x \in Counters /\ count[i][x] \in Int
      BY <1>4, <1>8
    <3>3. CASE x = c
      <4>1. count'[i][x] = count[i][x] + w.add[x] /\ x \in w.todo /\ w.add[x] \in Int
        BY <1>2, <1>3, <1>4, <2>1, <3>2, <3>3
      <4> QED BY <3>1, <3>2, <3>3, <4>1
    <3>4. CASE x # c
      <4>1. count'[i][x] = count[i][x]
        BY <1>4, <3>2, <3>4
      <4> QED BY <3>1, <3>4, <4>1
    <3> QED BY <3>3, <3>4
  <2>5. \A j \in ShardIds, x \in Exact : j # i => count'[j][x] = count[j][x]
    BY <1>4, <1>8, <2>1
  <2>6. \A j \in ShardIds : j # i /\ ~Locked(j)' => ~Locked(j)
    <3> SUFFICES ASSUME NEW j \in ShardIds, j # i, Locked(j) PROVE Locked(j)'
      OBVIOUS
    <3>1. PICK u \in Threads : work[u].locked /\ work[u].shard = j
      BY DEF Locked
    <3>2. u # t
      BY <1>1, <2>1, <3>1
    <3> QED BY <1>7, <3>1, <3>2 DEF Locked
  <2>7. ASSUME NEW j \in ShardIds, ~Locked(j)', NEW x \in Exact
        PROVE  count'[j][x] = n[j][x]
    <3>1. CASE j # i
      BY <2>5, <2>6, <2>7, <3>1 DEF TallyOk
    <3>2. CASE j = i
      <4>1. w.todo = {c}
        BY <1>6, <1>7, <1>10, <2>1, <2>7, <3>2 DEF Locked
      <4>2. [w EXCEPT !.todo = w.todo \ {c}].todo = {}
        BY <1>3, <4>1 DEF WorkType
      <4>3. count'[i][x] + 0 = n[i][x]
        BY <2>4, <4>2 DEF Owes
      <4>4. count'[i][x] \in Int
        BY <1>3, <1>4, <1>8
      <4> QED BY <3>2, <4>3, <4>4
    <3> QED BY <3>1, <3>2
  <2>8. ASSUME NEW u \in Threads, work'[u].locked
        PROVE  Owes(count'[work'[u].shard], work'[u], n[work'[u].shard])
    <3>1. CASE u = t
      <4>1. w.todo # {c} /\ w2 = [w EXCEPT !.todo = w.todo \ {c}] /\ w2.shard = i
        BY <1>5, <1>6, <1>7, <2>1, <2>8, <3>1
      <4> QED BY <1>7, <2>4, <3>1, <4>1
    <3>2. CASE u # t
      <4>1. /\ work'[u] = work[u] /\ work[u].locked /\ work[u].shard \in ShardIds /\ work[u].shard # i
        BY <1>7, <2>2, <2>8, <3>2, StatFacts
      <4>2. Owes(count[work[u].shard], work[u], n[work[u].shard])
        BY <4>1 DEF TallyOk
      <4> QED BY <2>5, <4>1, <4>2 DEF Owes
    <3> QED BY <3>1, <3>2
  <2> QED BY <2>7, <2>8 DEF TallyOk
<1> QED BY <1>9, <1>10

\* A hit and a miss change none of these counters.
LEMMA LookupTally ==
    ASSUME StatInv, NEW n, TallyOk(n), NEW t \in Threads, NEW i \in ShardIds,
           CountHit(t, i) \/ CountMiss(t, i)
    PROVE  TallyOk(n)'
<1>1. \A j \in ShardIds, x \in Exact : count'[j][x] = count[j][x]
  <2>1. CASE CountHit(t, i)
    <3>1. count' = [count EXCEPT ![i]["hit"] = @ + 1]
      BY <2>1 DEF CountHit
    <3> QED BY <3>1, StatFacts DEF Vector, Values, Exact, Counters
  <2>2. CASE CountMiss(t, i)
    BY <2>2 DEF CountMiss, Start
  <2> QED BY <2>1, <2>2
<1>2. \A u \in Threads : IF work'[u].locked THEN work'[u] = work[u] ELSE ~work[u].locked
  <2>1. CASE CountHit(t, i)
    BY <2>1 DEF CountHit
  <2>2. CASE CountMiss(t, i)
    <3>1. ~work[t].locked
      BY <2>2, StatFacts DEF CountMiss, Idle, ThreadOk
    <3>2. ~work'[t].locked /\ \A u \in Threads : u # t => work'[u] = work[u]
      BY <2>2, StatFacts DEF CountMiss, Start
    <3> QED BY <3>1, <3>2
  <2> QED BY <2>1, <2>2
<1>3. \A j \in ShardIds : ~Locked(j)' => ~Locked(j)
  BY <1>2 DEF Locked
<1>4. \A j \in ShardIds : ~Locked(j)' => \A x \in Exact : count'[j][x] = n[j][x]
  BY <1>1, <1>3 DEF TallyOk
<1>5. ASSUME NEW u \in Threads, work'[u].locked
      PROVE  Owes(count'[work'[u].shard], work'[u], n[work'[u].shard])
  <2>1. work'[u] = work[u] /\ work[u].locked /\ work[u].shard \in ShardIds
    BY <1>2, <1>5, StatFacts
  <2>2. Owes(count[work[u].shard], work[u], n[work[u].shard])
    BY <2>1 DEF TallyOk
  <2> QED BY <1>1, <2>1, <2>2 DEF Owes
<1> QED BY <1>4, <1>5 DEF TallyOk

LEMMA CountInit ==
    ASSUME Init PROVE CountInv
<1>1. \A i \in ShardIds : Here(i) = {} /\ NodesOf(bucket[i]) = {}
  BY TreesInit
<1>2. Blocks({}) = {} /\ Cardinality({}) = 0 /\ IsFiniteSet({})
  BY FS_EmptySet DEF Blocks
<1>3. \A i \in ShardIds : \A c \in Exact : Num[i][c] = 0
  BY <1>1, <1>2 DEF Num, Numbers
<1>4. \A i \in ShardIds : \A c \in Exact : count[i][c] = 0
  BY DEF Init, StatInit, Exact, Counters
<1>5. \A t \in Threads : ~work[t].locked
  BY DEF Init, StatInit, NoWork
<1>6. TallyOk(Num)
  BY <1>3, <1>4, <1>5 DEF TallyOk
<1> QED BY <1>1, <1>2, <1>6 DEF CountInv

\* The numbers after a step that changes one shard.
LEMMA NumNext ==
    ASSUME NEW i \in ShardIds,
           \A j \in ShardIds : j # i => Here(j)' = Here(j) /\ bucket'[j] = bucket[j]
    PROVE  \A j \in ShardIds : j # i => Num'[j] = Num[j]
BY DEF Num

LEMMA GrowsTally ==
    ASSUME StatInv, TreesOk, CountInv, NEW t \in Threads, NEW k \in Keys, NEW i \in ShardIds, NEW r,
           Grows(i, k, r), CountInsert(t, i, r.nodes, UsableSize(k))
    PROVE  CountInv'
<1>1. /\ Here(i)' = Here(i) \cup {k} /\ bucket'[i] = r.tree
      /\ \A j \in ShardIds : j # i => Here(j)' = Here(j) /\ bucket'[j] = bucket[j]
  BY GrowsKeys
<1>2. PICK add : add = [c \in Counters |-> CASE c \in {"leaf", "put"} -> 1
                                             [] c = "node" -> r.nodes
                                             [] c = "DRAM" -> UsableSize(k)
                                             [] OTHER -> 0]
  OBVIOUS
<1>3. UsableSize(k) \in Nat /\ r.nodes \in {0, 1}
  BY Constants DEF UsableSize, Grows
<1>4. add \in Values /\ add["leaf"] = 1 /\ add["node"] = r.nodes /\ add["DRAM"] = UsableSize(k)
  BY <1>2, <1>3 DEF Values, Counters
<1>5. Idle(t) /\ ~Locked(i) /\ Start(t, i, TRUE, add)
  BY <1>2 DEF CountInsert
<1>6. PICK K \in SUBSET Keys : K = Here(i) /\ k \notin K
  BY HereIs DEF Grows
<1>7. IsFiniteSet(K) /\ IsFiniteSet(Blocks(K))
  BY <1>6 DEF TreesOk, CountInv
<1>8. Cardinality(K \cup {k}) = Cardinality(K) + 1
  BY <1>6, <1>7, FS_AddElement
<1>9. /\ IsFiniteSet(Blocks(K \cup {k}))
      /\ Cardinality(Blocks(K \cup {k})) = Cardinality(Blocks(K)) + UsableSize(k)
  BY <1>6, <1>7, BlocksAdd
<1>10. PICK N : N = NodesOf(bucket[i])
  OBVIOUS
<1>11. PICK N2 : N2 = NodesOf(r.tree)
  OBVIOUS
<1>12. Cardinality(N2) = Cardinality(N) + r.nodes
  <2>1. IsFiniteSet(N) /\ Cardinality(N) \in Nat
    <3>1. TreeOf(bucket[i], K)
      BY <1>6 DEF TreesOk
    <3> QED BY <1>10, <3>1, TreeIs, FS_CardinalityType
  <2>2. CASE r.nodes = 0 /\ N2 = N
    BY <2>1, <2>2
  <2>3. CASE r.nodes = 1 /\ \E a : a \notin N /\ N2 = N \cup {a}
    BY <2>1, <2>3, FS_AddElement
  <2> QED BY <1>10, <1>11, <2>2, <2>3 DEF Grows
<1>13. PICK n : n = Num
  OBVIOUS
<1>14. PICK n2 : n2 = Num'
  OBVIOUS
<1>15. n[i] = Numbers(K, N)
  BY <1>6, <1>10, <1>13 DEF Num
<1>16. n2[i] = Numbers(K \cup {k}, N2)
  BY <1>1, <1>6, <1>11, <1>14 DEF Num
<1>17. \A c \in Exact : n2[i][c] = n[i][c] + add[c]
  <2>1. n2[i]["leaf"] = Cardinality(K \cup {k}) /\ n[i]["leaf"] = Cardinality(K)
    BY <1>15, <1>16, Zenon DEF Numbers, Exact
  <2>2. n2[i]["node"] = Cardinality(N2) /\ n[i]["node"] = Cardinality(N)
    BY <1>15, <1>16 DEF Numbers, Exact
  <2>3. n2[i]["DRAM"] = Cardinality(Blocks(K \cup {k})) /\ n[i]["DRAM"] = Cardinality(Blocks(K))
    BY <1>15, <1>16 DEF Numbers, Exact
  <2> QED BY <1>4, <1>8, <1>9, <1>12, <2>1, <2>2, <2>3, Zenon DEF Exact
<1>18. \A j \in ShardIds : j # i => n2[j] = n[j]
  BY <1>1, <1>13, <1>14, NumNext
<1>19. TallyOk(n)
  BY <1>13 DEF CountInv
<1>20. TallyOk(n2)'
  BY <1>4, <1>5, <1>17, <1>18, <1>19, BeginTally
<1>21. TallyOk(Num)'
  BY <1>14, <1>20 DEF TallyOk
<1>22. \A j \in ShardIds : IsFiniteSet(Blocks(Here(j)'))
  BY <1>1, <1>6, <1>9 DEF CountInv
<1>23. \A j \in ShardIds : IsFiniteSet(Blocks(Here(j)))'
  BY <1>22 DEF Blocks, UsableSize
<1> QED BY <1>21, <1>23 DEF CountInv

LEMMA ShrinksTally ==
    ASSUME StatInv, TreesOk, CountInv, NEW t \in Threads, NEW k \in Keys, NEW i \in ShardIds, NEW r,
           Shrinks(i, k, r), CountRemove(t, i, r.nodes, UsableSize(k))
    PROVE  CountInv'
<1>1. /\ Here(i)' = Here(i) \ {k} /\ bucket'[i] = r.tree
      /\ \A j \in ShardIds : j # i => Here(j)' = Here(j) /\ bucket'[j] = bucket[j]
  BY ShrinksKeys
<1>2. PICK add : add = [c \in Counters |-> CASE c = "leaf" -> -1
                                             [] c = "evict" -> 1
                                             [] c = "node" -> -r.nodes
                                             [] c = "DRAM" -> -UsableSize(k)
                                             [] OTHER -> 0]
  OBVIOUS
<1>3. UsableSize(k) \in Nat /\ r.nodes \in {0, 1}
  BY Constants DEF UsableSize, Shrinks
<1>4. add \in Values /\ add["leaf"] = -1 /\ add["node"] = -r.nodes /\ add["DRAM"] = -UsableSize(k)
  BY <1>2, <1>3 DEF Values, Counters
<1>5. Idle(t) /\ ~Locked(i) /\ Start(t, i, TRUE, add)
  BY <1>2 DEF CountRemove
<1>6. PICK K \in SUBSET Keys : K = Here(i) /\ k \in K
  BY HereIs DEF Shrinks
<1>7. IsFiniteSet(K) /\ IsFiniteSet(Blocks(K))
  BY <1>6 DEF TreesOk, CountInv
<1>70. Cardinality(K) \in Nat /\ Cardinality(Blocks(K)) \in Nat
  BY <1>7, FS_CardinalityType
<1>8. Cardinality(K \ {k}) = Cardinality(K) + -1
  <2>1. Cardinality(K \ {k}) = Cardinality(K) - 1
    BY <1>6, <1>7, FS_RemoveElement
  <2> QED BY <1>70, <2>1
<1>90. /\ IsFiniteSet(Blocks(K \ {k}))
       /\ Cardinality(Blocks(K \ {k})) = Cardinality(Blocks(K)) - UsableSize(k)
  BY <1>6, <1>7, BlocksRemove
<1>9. Cardinality(Blocks(K \ {k})) = Cardinality(Blocks(K)) + -UsableSize(k)
  BY <1>3, <1>70, <1>90
<1>10. PICK N : N = NodesOf(bucket[i])
  OBVIOUS
<1>11. PICK N2 : N2 = NodesOf(r.tree)
  OBVIOUS
<1>12. Cardinality(N2) = Cardinality(N) + -r.nodes
  <2>1. IsFiniteSet(N) /\ Cardinality(N) \in Nat
    <3>1. TreeOf(bucket[i], K)
      BY <1>6 DEF TreesOk
    <3> QED BY <1>10, <3>1, TreeIs, FS_CardinalityType
  <2>2. CASE r.nodes = 0 /\ N2 = N
    BY <2>1, <2>2
  <2>3. CASE r.nodes = 1 /\ \E a \in N : N2 = N \ {a}
    BY <2>1, <2>3, FS_RemoveElement
  <2> QED BY <1>10, <1>11, <2>2, <2>3 DEF Shrinks
<1>13. PICK n : n = Num
  OBVIOUS
<1>14. PICK n2 : n2 = Num'
  OBVIOUS
<1>15. n[i] = Numbers(K, N)
  BY <1>6, <1>10, <1>13 DEF Num
<1>16. n2[i] = Numbers(K \ {k}, N2)
  BY <1>1, <1>6, <1>11, <1>14 DEF Num
<1>17. \A c \in Exact : n2[i][c] = n[i][c] + add[c]
  <2>1. n2[i]["leaf"] = Cardinality(K \ {k}) /\ n[i]["leaf"] = Cardinality(K)
    BY <1>15, <1>16, Zenon DEF Numbers, Exact
  <2>2. n2[i]["node"] = Cardinality(N2) /\ n[i]["node"] = Cardinality(N)
    BY <1>15, <1>16 DEF Numbers, Exact
  <2>3. n2[i]["DRAM"] = Cardinality(Blocks(K \ {k})) /\ n[i]["DRAM"] = Cardinality(Blocks(K))
    BY <1>15, <1>16 DEF Numbers, Exact
  <2> QED BY <1>4, <1>8, <1>9, <1>12, <2>1, <2>2, <2>3, Zenon DEF Exact
<1>18. \A j \in ShardIds : j # i => n2[j] = n[j]
  BY <1>1, <1>13, <1>14, NumNext
<1>19. TallyOk(n)
  BY <1>13 DEF CountInv
<1>20. TallyOk(n2)'
  BY <1>4, <1>5, <1>17, <1>18, <1>19, BeginTally
<1>21. TallyOk(Num)'
  BY <1>14, <1>20 DEF TallyOk
<1>22. \A j \in ShardIds : IsFiniteSet(Blocks(Here(j)'))
  BY <1>1, <1>6, <1>90 DEF CountInv
<1>23. \A j \in ShardIds : IsFiniteSet(Blocks(Here(j)))'
  BY <1>22 DEF Blocks, UsableSize
<1> QED BY <1>21, <1>23 DEF CountInv

LEMMA CountNext ==
    ASSUME StatInv, TreesOk, CountInv, [Next]_vars PROVE CountInv'
<1>1. ASSUME UNCHANGED <<sharding, bucket>>, NEW n, TallyOk(n) /\ n = Num => TallyOk(n)', n = Num
      PROVE  CountInv'
  <2>1. \A i \in ShardIds : Here(i)' = Here(i) /\ bucket'[i] = bucket[i]
    BY <1>1, TreesSame
  <2>2. Num' = Num
    BY <2>1 DEF Num
  <2>3. TallyOk(n)'
    BY <1>1 DEF CountInv
  <2>4. TallyOk(Num)'
    BY <1>1, <2>2, <2>3 DEF TallyOk
  <2>5. \A i \in ShardIds : IsFiniteSet(Blocks(Here(i)'))
    BY <2>1 DEF CountInv
  <2>6. \A i \in ShardIds : IsFiniteSet(Blocks(Here(i)))'
    BY <2>5 DEF Blocks, UsableSize
  <2> QED BY <2>4, <2>6 DEF CountInv
<1>2. ASSUME NEW n, TallyOk(n), count' = count, work' = work
      PROVE  TallyOk(n)'
  BY <1>2 DEF TallyOk, Locked
<1>3. PICK n : n = Num
  OBVIOUS
<1>4. CASE UNCHANGED vars
  BY <1>1, <1>2, <1>3, <1>4 DEF vars, statvars
<1>5. CASE /\ UNCHANGED <<sharding, bucket>>
           /\ \/ \E t \in Threads : \/ \E i \in ShardIds : CountHit(t, i) \/ CountMiss(t, i)
                                    \/ Count(t)
              \/ \E t \in Readers : \/ \E name \in Names : StatCall(t, name)
                                    \/ StatShard(t) \/ StatReturn(t)
              \/ UNCHANGED statvars
  <2>1. ASSUME TallyOk(n) PROVE TallyOk(n)'
    <3>1. ASSUME NEW t \in Threads, NEW i \in ShardIds, CountHit(t, i) \/ CountMiss(t, i)
          PROVE  TallyOk(n)'
      BY <2>1, <3>1, LookupTally
    <3>2. ASSUME NEW t \in Threads, Count(t) PROVE TallyOk(n)'
      BY <2>1, <3>2, CountTally
    <3>3. ASSUME NEW t \in Readers, (\E name \in Names : StatCall(t, name)) \/ StatShard(t) \/ StatReturn(t)
          PROVE  count' = count /\ work' = work
      BY <3>3 DEF StatCall, StatShard, StatReturn
    <3>4. CASE UNCHANGED statvars
      BY <1>2, <2>1, <3>4 DEF statvars
    <3> QED BY <1>2, <1>5, <2>1, <3>1, <3>2, <3>3, <3>4
  <2> QED BY <1>1, <1>3, <1>5, <2>1
<1>6. CASE Next
  BY <1>5, <1>6, Steps, GrowsTally, ShrinksTally
<1> QED BY <1>4, <1>6

\* The counters of a shard with the changes under way always say what its tree holds.
THEOREM CountInvariant == Spec => []CountInv
<1>1. Spec => []StatInv
  BY IndexImplementsStat, StatInvariant, PTL
<1>2. Init => CountInv
  BY CountInit
<1>3. StatInv /\ TreesOk /\ CountInv /\ [Next]_vars => CountInv'
  BY CountNext
<1> QED BY <1>1, <1>2, <1>3, TreesInvariant, PTL DEF Spec

\* Whenever nobody holds the lock of a shard, its counters give the number of its
\* entries, of its nodes and the memory of its entries exactly, after any history of
\* successful and failed insertions and removals (vmcache_index_insert and
\* vmcache_index_remove, critnib_set and critnib_remove).
THEOREM CountersAlwaysExact == Spec => []CountersExact
<1>1. StatInv /\ CountInv => CountersExact
  <2> SUFFICES ASSUME StatInv, CountInv, NEW i \in ShardIds, ~Locked(i)
               PROVE  /\ count[i]["leaf"] = Cardinality(Here(i))
                      /\ count[i]["leaf"] = count[i]["put"] - count[i]["evict"]
                      /\ count[i]["node"] = Cardinality(NodesOf(bucket[i]))
                      /\ count[i]["DRAM"] = Cardinality(UNION {{k} \X (1 .. UsableSize(k)) : k \in Here(i)})
    BY DEF CountersExact
  <2>1. \A c \in Exact : count[i][c] = Numbers(Here(i), NodesOf(bucket[i]))[c]
    BY DEF CountInv, TallyOk, Num
  <2>2. /\ count[i]["leaf"] = Cardinality(Here(i)) /\ count[i]["node"] = Cardinality(NodesOf(bucket[i]))
        /\ count[i]["DRAM"] = Cardinality(Blocks(Here(i)))
    BY <2>1 DEF Numbers, Exact
  <2>3. count[i]["leaf"] = count[i]["put"] - count[i]["evict"]
    <3>1. PICK base \in Vector, goal \in Vector : World(base, goal)
      BY DEF StatInv
    <3>2. base[i]["leaf"] = base[i]["put"] - base[i]["evict"] /\ Settled(count[i], base[i], goal[i])
      BY <3>1 DEF World
    <3> QED BY <3>2 DEF Settled, Written
  <2> QED BY <2>2, <2>3 DEF Blocks
<1>2. Spec => []StatInv
  BY IndexImplementsStat, StatInvariant, PTL
<1> QED BY <1>1, <1>2, CountInvariant, PTL
=============================================================================
