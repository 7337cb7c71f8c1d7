------------------------------ MODULE IndexStat ------------------------------
(***************************************************************************)
(* The counters of the shards of vmemcache_index.c, and the statistics     *)
(* that vmemcache_get_stat adds up from them.  A writer changes the        *)
(* counters of a shard under that shard's lock, one after the other; they  *)
(* are plain variables, so the order in which another thread sees the      *)
(* changes is open.  A statistic takes no lock at all: it walks over the   *)
(* shards while other threads go on.                                       *)
(***************************************************************************)
EXTENDS Integers, Sequences

CONSTANTS
    Threads,      \* threads that put, get and evict
    Readers,      \* threads that read statistics
    NSHARDS,
    EntrySizes    \* what malloc_usable_size may say of an entry

ASSUME IndexStatAssumption == NSHARDS \in Nat \ {0} /\ EntrySizes \subseteq Nat

ShardIds == 0 .. NSHARDS - 1

VARIABLES
    count,   \* shard -> its counters
    work,    \* thread -> the changes of counters it is about to make
    stat     \* reader -> its vmemcache_get_stat call

statvars == <<count, work, stat>>

Counters == {"leaf", "node", "put", "evict", "hit", "miss", "DRAM"}

NoWork == [shard |-> 0, locked |-> FALSE, todo |-> {}, add |-> [c \in Counters |-> 0]]

Idle(t) == work[t].todo = {}

\* Some thread holds the lock of the shard for writing.
Locked(i) == \E t \in Threads : work[t].locked /\ work[t].shard = i

\* The first n shards added up.
Sum(f, n) ==
    LET upto[i \in 0 .. NSHARDS] == IF i = 0 THEN 0 ELSE upto[i - 1] + f[i - 1]
    IN  upto[n]

\* What one iteration of a loop of vmemcache_index_get_stat reads; "memory" is
\* the loop that adds up the nodes and the entries.
Value(i, c) ==
    IF c = "memory" THEN count[i]["node"] + count[i]["DRAM"] ELSE count[i][c]

Total(c) == Sum([i \in ShardIds |-> Value(i, c)], NSHARDS)

\* How many shards are being changed.
Busy == Sum([i \in ShardIds |-> IF Locked(i) THEN 1 ELSE 0], NSHARDS)

\* The loops that make up a statistic.
Loops ==
    [put     |-> <<"put">>,
     evict   |-> <<"evict">>,
     hit     |-> <<"hit">>,
     miss    |-> <<"miss">>,
     entries |-> <<"leaf">>,
     get     |-> <<"hit", "miss">>,
     dram    |-> <<"memory", "leaf">>]

Names == {"put", "evict", "hit", "miss", "entries", "get", "dram"}

\* Counters whose values at the call are remembered to judge the answer.
Watched(name) ==
    CASE name \in {"entries", "dram"} -> {"put", "evict"}
      [] name = "get" -> {"hit", "miss"}
      [] OTHER -> {name}

NoCall == [name |-> "none", loop |-> 1, shard |-> 0, total |-> 0,
           start |-> [c \in Counters |-> 0], busy |-> 0]

StatInit ==
    /\ count = [i \in ShardIds |-> [c \in Counters |-> 0]]
    /\ work = [t \in Threads |-> NoWork]
    /\ stat = [t \in Readers |-> NoCall]

----------------------------------------------------------------------------
(* Changes of the counters *)

Start(t, i, locked, add) ==
    /\ work' = [work EXCEPT ![t] =
                  [shard |-> i, locked |-> locked,
                   todo |-> {c \in Counters : add[c] # 0}, add |-> add]]
    /\ UNCHANGED <<count, stat>>

\* A key has been inserted; the lock is held until everything is counted.
CountInsert(t, i, nodes, size) ==
    /\ Idle(t) /\ ~Locked(i)
    /\ Start(t, i, TRUE,
             [c \in Counters |-> CASE c \in {"leaf", "put"} -> 1
                                   [] c = "node" -> nodes
                                   [] c = "DRAM" -> size
                                   [] OTHER -> 0])

\* A key has been removed.
CountRemove(t, i, nodes, size) ==
    /\ Idle(t) /\ ~Locked(i)
    /\ Start(t, i, TRUE,
             [c \in Counters |-> CASE c = "leaf" -> -1
                                   [] c = "evict" -> 1
                                   [] c = "node" -> -nodes
                                   [] c = "DRAM" -> -size
                                   [] OTHER -> 0])

\* A hit is counted while the lock is held for reading.
CountHit(t, i) ==
    /\ Idle(t) /\ ~Locked(i)
    /\ count' = [count EXCEPT ![i]["hit"] = @ + 1]
    /\ UNCHANGED <<work, stat>>

\* A miss is counted after the lock is released.
CountMiss(t, i) ==
    /\ Idle(t) /\ ~Locked(i)
    /\ Start(t, i, FALSE, [c \in Counters |-> IF c = "miss" THEN 1 ELSE 0])

\* One counter is changed; with the last one the lock is released.
Count(t) ==
    \E c \in work[t].todo :
        LET w == work[t] IN
        /\ count' = [count EXCEPT ![w.shard][c] = @ + w.add[c]]
        /\ work' = [work EXCEPT ![t] =
                      IF w.todo = {c} THEN NoWork ELSE [w EXCEPT !.todo = @ \ {c}]]
        /\ UNCHANGED stat

----------------------------------------------------------------------------
(* vmemcache_get_stat *)

StatCall(t, name) ==
    /\ stat[t].name = "none"
    /\ stat' = [stat EXCEPT ![t] =
                  [NoCall EXCEPT !.name = name,
                                 !.start = [c \in Counters |->
                                     IF c \in Watched(name) THEN Total(c) ELSE 0],
                                 !.busy = Busy]]
    /\ UNCHANGED <<count, work>>

Ended(s) == s.loop > Len(Loops[s.name])

\* Faulty variant: the last shard is left out.
StatShard_OffByOne(t) ==
    LET s == stat[t] IN
    /\ s.name # "none" /\ ~Ended(s)
    /\ stat' = [stat EXCEPT ![t] =
         IF s.shard + 1 < NSHARDS
         THEN [s EXCEPT !.total = @ + Value(s.shard, Loops[s.name][s.loop]),
                        !.shard = @ + 1]
         ELSE [s EXCEPT !.shard = 0, !.loop = @ + 1]]
    /\ UNCHANGED <<count, work>>

\* One iteration of a loop of vmemcache_index_get_stat.
StatShard(t) ==
    LET s == stat[t]
        total == s.total + Value(s.shard, Loops[s.name][s.loop])
    IN  /\ s.name # "none" /\ ~Ended(s)
        /\ stat' = [stat EXCEPT ![t] =
             IF s.shard + 1 < NSHARDS
             THEN [s EXCEPT !.total = total, !.shard = @ + 1]
             ELSE [s EXCEPT !.total = total, !.shard = 0, !.loop = @ + 1]]
        /\ UNCHANGED <<count, work>>

StatReturn(t) ==
    /\ stat[t].name # "none" /\ Ended(stat[t])
    /\ stat' = [stat EXCEPT ![t] = NoCall]
    /\ UNCHANGED <<count, work>>

----------------------------------------------------------------------------

StatNext ==
    \/ \E t \in Threads :
        \/ \E i \in ShardIds :
             \/ \E nodes \in {0, 1}, size \in EntrySizes :
                  CountInsert(t, i, nodes, size) \/ CountRemove(t, i, nodes, size)
             \/ CountHit(t, i) \/ CountMiss(t, i)
        \/ Count(t)
    \/ \E t \in Readers : \/ \E name \in Names : StatCall(t, name)
                         \/ StatShard(t) \/ StatReturn(t)

StatSpec == StatInit /\ [][StatNext]_statvars

----------------------------------------------------------------------------
(* Properties *)

\* A statistic is read without a lock, shard by shard.  What can be relied on is
\* that a counter that only grows lies between its values at the call and at the
\* return; that the number of entries is off by no more than the puts and the
\* evictions in between and those under way at the call or at the return; and
\* that the memory used is exact if there were none.
StatBracketed ==
    \A t \in Readers :
        LET s == stat[t]
        IN  s.name # "none" /\ Ended(s) =>
              CASE s.name \in {"put", "evict", "hit", "miss"} ->
                     s.total \in s.start[s.name] .. Total(s.name)
                [] s.name = "get" ->
                     s.total \in s.start["hit"] + s.start["miss"] ..
                                   Total("hit") + Total("miss")
                [] s.name = "entries" ->
                     s.total \in (s.start["put"] - s.busy) - (Total("evict") + Busy) ..
                                   (Total("put") + Busy) - (s.start["evict"] - s.busy)
                [] s.name = "dram" ->
                     /\ s.busy = 0 /\ Busy = 0
                     /\ s.start["put"] = Total("put") /\ s.start["evict"] = Total("evict")
                     => s.total = Total("memory") + Total("leaf")
=============================================================================
