# A TLA+ specification of libvmemcache

libvmemcache is a volatile key-value cache in a memory-mapped pool. Any number of
threads call `vmemcache_put`, `_get`, `_exists` and `_evict` on one cache at the
same time. This directory specifies the library in TLA+: its concurrent core, its
allocator, its index, its callbacks, and how a cache is set up and torn down. It
checks the modules with TLC on small instances, and proves with TLAPS, for instances of any
size, every safety property that a passing run checks. File names below are relative to `src/` of the repository.

## 1. The system

| Component | State | Operations | Talks to |
|---|---|---|---|
| Cache operations, `vmemcache.c` | entries: `refcount`, `evicting`, `p_entry`, extents, key | put, get, exists, evict; callbacks `on_evict`, `on_miss` | all below |
| Index, `vmemcache_index.c` | 256 shards, each a critnib and a read-write lock | insert (refcount := 1), get (acquires), remove (releases) | critnib, entries |
| Critnib, `critnib.c` | radix tree over nibbles of the key | set, get, remove, always under the shard's lock | - |
| Replacement policy LRU, `vmemcache_repl.c` | TAILQ, mutex, ring buffer, one node per entry | insert, use, evict, `dequeue_all` | ring, entries (`p_entry`, `refcount`) |
| Replacement policy none, `vmemcache_repl.c` | - | insert (acquires), use, evict | entries |
| Ring buffer, `ringbuf.c` | `read_pos`, `write_pos`, two semaphores, slots | tryenqueue, trydequeue | - |
| Heap, `vmemcache_heap.c` | free list, headers and footers in the pool, mutex | alloc (gives what there is), free (merges neighbours) | - |
| Life cycle, `vmemcache.c` | `ready`, size, extent size, policy | new, setters, add, delete | all |
| Mapping of the pool, `mmap.c`, `mmap_posix.c`, `file.c`, `file_posix.c` | descriptor, mapping, temporary file, signal and mode masks | file type, device size, map whole device, map temporary file, unmap | operating system |
| Errors, `out.c` | last message per thread, `errno` | `ERR`, `LOG` | all |
| Wrappers, hashing | - | `os*.c`, `util*.c`, `fast-hash.c` | operating system |

How an operation runs through them:

* **put** copies the key, allocates extents until the value fits (each time the heap
  is empty it evicts the oldest entry), copies the value, inserts the entry in the
  index (from here on every thread can find it) and only then tells the policy.
* **get** looks the key up under the shard's read lock and acquires the entry, tells
  the policy that it is used, copies, and releases it.
* **evict(NULL)** asks the policy for a victim, which gives up its reference with it,
  claims the `evicting` flag, calls `on_evict`, releases, and removes the key from
  the index. **evict(key)** looks the key up, claims the flag, calls `on_evict`, and
  then asks the policy for this entry; the policy may refuse.
* The **buffered LRU**: a use does not take the mutex. It swaps the entry's `p_entry`
  to NULL, which locks the node, and enqueues the node in the ring. Whoever holds the
  mutex next (an eviction, or a user who finds the ring full) drains the ring, moves
  each node to the tail and restores `p_entry`.

What is hard here is the interplay of four synchronisation devices without a common
lock: the swap on `p_entry`, the ring with its semaphores, the mutex of the list, and
`refcount`/`evicting` of an entry that is reachable through the index, the list, the
ring and the hands of other threads. `PROJECT.json` lists the places under "hazards".
What makes the parts correct:

* ring: no pointer lost or doubled, FIFO for one consumer, no operation spins for ever;
* policy: a node has one owner, is in the list exactly once, is freed once and is not
  reachable afterwards; the mutex comes back; an eviction fails only for a reason;
* cache: the reference count is exact, nothing is used after it was freed, values are
  whole, memory is conserved, an entry can be evicted again after any race, some call
  always returns;
* heap: entries tile the pool, tags are true wherever a merge reads them, free
  neighbours are merged, a value reads back in any piece;
* index: the trees find what a set of keys would hold, counters and statistics are right;
* callbacks: a get that missed is answered by the put in its callback, and no put writes
  to a buffer that is gone;
* life cycle: an `add` that fails at any point undoes what it did and tells why, and
  `delete` takes things apart in an order in which nothing freed is used.

## 2. Modules

| Module | Stands for |
|---|---|
| `RingQueue` | What the ring promises: a bounded FIFO; an enqueue is visible as reserve, claim, write, post. |
| `RingBuf` | `ringbuf.c`, one action per atomic instruction. Refines `RingQueue` for one consumer. |
| `Repl` | The LRU policy, on top of the actions of `RingQueue`. Also a specification of its own, with any client. |
| `Cache` | put, get, exists and evict over the index, reference counts and heap, with `Repl` (or no policy) inside. Refines `Repl`. |
| `Heap` | `vmemcache_heap.c` and the two copy loops of `vmemcache.c`, over a pool of cells. |
| `Critnib` | `critnib.c`: trees as nodes in memory; set, get, remove and delete as operators on them. |
| `IndexStat` | The counters of `vmemcache_index.c` and the statistics that are added up from them. |
| `Index` | `vmemcache_index.c`: shards and their locks over `Critnib`, with `IndexStat`. Refines `KeySet` and `IndexStat`. |
| `KeySet` | What the index promises: a set of keys. |
| `MissHook` | `on_miss`, `on_evict` and `get_req` of one thread. |
| `Out` | `errno` and the last error message. |
| `PoolMap` | Getting hold of the pool's memory and giving it back; extends `Out`. |
| `Lifecycle` | new, setters, add, delete; extends `PoolMap`. |
| `ReplProofs` | Theorems about `Repl`: ownership and the list; the ring and the scan of an eviction. |
| `RingBufProofs` | Theorems about `RingBuf`, among them that it refines `RingQueue`. |
| `CacheProofs` | Theorems about `Cache`: it obeys `Repl`, reference counts, readers, victims; memory. |
| `HeapProofs` | Theorems about `Heap`: the pool, the lists of extents, the statistics, the copies. |
| `CritnibProofs` | Lemmas about `Critnib`: what each operation does to a well-formed tree. |
| `IndexProofs` | Theorems about `IndexStat` and `Index`: the statistics, the trees, the counters. |
| `MissHookProofs`, `LifecycleProofs` | Theorems about `MissHook` and `Lifecycle`. |
| `MCRingBuf`, `MCRepl`, `MCCache`, `MCHeap`, `MCIndex`, `MCMissHook`, `MCLifecycle` | Instances for TLC: symmetry, sizes, who calls what. |

So the composition is `RingBuf` => `RingQueue`, `Repl` uses `RingQueue`, `Cache` uses
`Repl` and is shown to obey it; `Index` => `KeySet`, which is what the index is in `Cache`;
`Out`, `PoolMap` and `Lifecycle` extend one another. `Heap` and `MissHook` detail parts of
the operations that `Cache` abstracts: there the heap is a number of units and a callback
one step.

**RingBuf.** `nfree`, `nused` are the semaphores, `data` the slots, `w` and `r` the
position a producer or consumer has fetched. Positions are taken modulo `PosMod`
(2^64 in the code) and reduced to a slot modulo `RingLen`. The load and the
compare-and-swap of the dequeue loop are one step, since a failed swap goes back to the
load. The clients give a pointer away at most once before they get it back, which
`NodeOwnership` of `Repl` shows they do.

**Repl.** An entry's node is named by the entry: a node is made for one entry and freed
before the entry is. `p_entry[e]` is None or e, `first` is the TAILQ, `rpc[t]` says where a
thread is in insert, use or evict. Every swap on `p_entry`, every step of the ring and
every critical section of the mutex between two of these is an action of its own; a
dequeue is one action, as nothing but another consumer can tell its steps apart and the
mutex excludes other consumers. Unlinking a node that is not linked sets `fault`
(`TAILQ_REMOVE` stores through a NULL pointer there) and ends the run. The constant
`Disciplined` restricts the clients: TRUE means that nobody touches an entry while its
insertion is under way.

**Cache.** `cpc[t]` is the thread's place in the public operation, `pent` the entry a put
builds, `cent` the entry a lookup or an eviction has a pointer to. The heap is a number
of units and a value takes `VSize[k]` of them: what counts at this level is that an
allocation gives what there is and that an eviction may be needed in the middle of it.
The index maps keys to entries; a critical section of a shard is one action. A release
that drops the last reference takes place when the extents go back to the heap: nobody
can look at a count that drops to zero, so this is the only visible point. Freed memory
is not handed out again while somebody still has a pointer to it, so that a dangling
pointer shows instead of being covered up by reuse. `orphans` is a history variable for
references that nobody holds any more (they exist, see finding 1). `Ops`, `AllocFails`
and `Policies` choose what threads call, whether malloc may fail where the code carries
on, and the policies that Init chooses from. Both spin loops and both waits for a mutex are guards.

**Heap.** The pool is a function from addresses to cells; a header and a footer take one
cell each. Tags are found by address arithmetic as in the code, so that an old tag left
behind, or a byte of a value, is what a wrong merge would read. An action is one iteration
of the loop of `vmcache_alloc` or `vmcache_free` under the mutex, or what follows the loop;
`Values` are entries that a put fills and a last release frees, with evictions in between that succeed or fail.
`heap.asserts` collects the assertions of `vmemcache_heap.c`. A header with its footer (32 bytes)
takes two cells, so a cell is 16 bytes, the guard of 4096 bytes 256 cells and the smallest extent that
`vmemcache_set_extent_size` accepts 16 cells. Any extent size is allowed, as in the code, which only asks
for 256 bytes. The pool is then seldom a whole number of extents; the rest stays with the last entry.
Whether that does harm depends on its length: `RestFits` says when it does not. It does not if the
extent size is a multiple of 64 bytes, as the manual recommends; finding 3 shows what happens otherwise.

**Critnib and Index.** A tree is a root pointer and the nodes in memory (`node`, from addresses to
byte, bit and children); a pointer is NULL, a node or the key of a leaf. A key is a sequence of bytes,
the size first, as `struct key` is laid out; a byte is `SLICES` slices with `SLNODES` values each (2
and 16 in the code). A loop that goes down the tree is an iteration (`Walk`) of one step of it, as
many times as there are nodes (a descent meets each node once, which is proved); the recursion of
`delete_node` is a function of the depth. `alloc_node` takes any free address or fails. What a call does to a tree is one action, since it holds the shard's
lock. The counters are changed after that, one per action and in any order, since they are
plain variables that others read without the lock: `work[t]` says which changes are left, and
`Locked` that the lock is held until all are made. A hit is counted under the lock, a miss after
the unlock. A statistic is one action per shard and takes no lock; `stat[t]` remembers what the
counters were at the call and how many shards were locked then (`busy`), for the property only.

**MissHook.** `stack` holds the calls that are inside a callback; a callback may call
anything, to the depth `MaxDepth`. `get_req` is thread-local, so one thread suffices; other
threads appear as `OtherThread`, which puts or evicts a key at any moment. The number of a
put identifies its value, and byte i of it is <<put, i>>. A get may come without a buffer (`null`),
and `vbuf` holds what was copied to the one it has.

**Out, PoolMap, Lifecycle.** A thread has one cache at a time. Each system call or
allocation whose failure the code handles may fail (`Fault`, at most `MaxFaults` times in a
behaviour). `live[t]` is what the allocator has given out, apart from the pointers `ptrs[t]`,
so that a lost pointer shows as a leak; what a function frees on its way out of a failure is taken
out of what it had allocated by then (`Undone`, `ReplUndone`); `maps`, `fd`, `file`, `sigmask` and `umask` are the
same for the operating system. `umask` belongs to the process, the rest to the thread.
`failed[t]` is a history variable: what went wrong last, for comparison with `errno` and the
message. Calls that may change `errno` between a save and a restore are one step with them.
Of a cache in use, only what `vmemcache_delete` depends on is kept: one entry, its node, and
whether the node is in the ring.

The variants called `X_Something` next to an operator X are faulty versions of it; they
are used to make sure that the properties notice.

## 3. Runs

| Run | Instance | Shows |
|---|---|---|
| `repl_safety` | 3 threads, 3 entries, ring of 2, undisciplined | ownership, no lost node, exact list, exact semaphores; an eviction of the oldest finds nothing only while somebody is in `repl_p_lru_use` |
| `ring_one_consumer` | 3 producers, 1 consumer, ring of 2 | refinement of the FIFO, producers never spin, operations end |
| `cache_lru` | 3 threads, 2 keys, 3 entries, 3 units, ring of 1, undisciplined | the safety of the cache, up to the fault of finding 2 |
| `cache_disciplined` | the same with 2 threads, disciplined, both policies, malloc may fail, with fairness | no fault; exact counts; the cache implements `Repl`; one of two concurrent calls returns; the mutex comes back |
| `heap` | 3 values of sizes 0, 6, 7, 10, 13 in a mapping of 36 cells (3 extents of 8 and a rest) | tiling, merging, statistics, assertions, no superfluous extent, every piece reads back |
| `index` | 5 keys of 3 lengths, 2 shards, sharding on and off, 1 thread, 1 reader of statistics, 4 addresses, up to 5 insertions | refinement of `KeySet`, refusals, well-formed trees, counters, deletion; statistics lie between true values |
| `miss` | 2 keys, 2 puts, values of 0, 1 and 3 bytes in a cache of 2, with and without a buffer, calls 3 deep | requests belong to running gets; a miss is answered |
| `life_cycle` | 2 threads, 2 failures, 2 attempts for one thread, devices of 7 and 3 units with pages of 2 | nothing leaks, the pool is mapped, masks and errors are right, the order of deletion |

Four more runs are expected to fail; each shows a point where the code and a statement
in the repository disagree (section 5).

Bounds. Two threads are enough for each race between a pair of operations; the third
one lets a bystander use, drain or steal space in between. Two keys make entries of the
same key and of different keys meet; with three blocks of memory a put can rebuild a key
while its former entry is still held. Values of 1 and 2 units in a pool of 3 make a put
evict none, one or two entries, and find the pool partly filled. The ring has one slot
where the cache is around it, so that it is full after one use, and two where it is
checked alone; the position counters wrap within the run. These modules have no counter
that grows without limit, so nothing else bounds their runs.

In `heap`, 6 fills an extent of 8 exactly, 7 spills into a second one with almost nothing,
10 and 13 need two that may or may not be adjacent; the mapping leaves a rest, and three
values let a freed one lie between two others. The guard of 4 cells and the extent of 8 are multiples
of 4 (64 bytes), as in the code with a recommended extent size; `heap_rest` has extents of 17 cells
(272 bytes). In `index`, the keys contain a pair that
differs in the low slice of a byte, one that differs in the high slice, an empty key, and a
key that extends another; `MaxPuts` (5 insertions) stops the counters, which is enough for every key
to come, or for some to go and come back around the others. Four addresses hold the nodes of five
keys, and allocation may fail before they are used up. Statistics are asked for, and lookups counted
(`MaxGets`, 1), while at most one insertion has been counted (`MaxStatPuts`); the reader then comes
by in the middle of a change of the counters. There is one thread next to the reader, since
calls on a shard exclude each other; several threads on several shards are covered by the
theorems of `IndexProofs`, which hold for any number. In `miss`, `MaxPuts` (2)
and `MaxDepth` (3) allow a put in the callback of a get in the callback of a get. In
`life_cycle`, `MaxFaults` (2) lets the undoing of a failure fail too; `MaxAdds` gives one
thread a second attempt after one that failed, which meets the size the first one left
behind; the sizes 3, 5 and 7 are too small, rounded up, and rounded up beyond the device.
The second thread only adds a pool in a directory: what the two share is the mode mask. The
constraint `Alone` leaves out the combinations of two failures or of unusual settings of the
first thread with the existence of the second one's cache, which share nothing.

Fairness. Weak fairness of every thread's next step once a call has begun
(`CFairness`, `Fairness` of `RingBuf`): the operating system schedules every runnable
thread. Nobody has to begin a call. A thread that waits for the mutex is only promised
it if it stays free, so the properties do not claim that each call returns, which the
code does not guarantee (a user can lose the race for the freed slot again and again), only
that some call does.

## 4. Proofs

A theorem holds for every value of the constants that the assumptions named below allow; TLC
evaluates the assumptions in every run. Each proof has an inductive invariant, and one lemma or
step per action that shows that the action keeps it.

**The policy (`ReplProofs`)**, any number of threads and entries, any ring
length, any client:

* `ReplTypeCorrect`: `ReplTypeOK`, with `ArgOK` (a thread in a call has an entry at hand).
* `ReplOwnership`: `NodeOwnership`, inductive over the types: a swap of `p_entry` from a node to
  NULL is the only way to become a user or to evict, and it fails for whoever does not own
  the node; the ring passes the ownership on.
* `ReplList`: `ListExact`, with `InsertingOwned`, because an insertion is split: a node exists
  before it is linked, and without knowing that only one thread is about to link it, linking
  could double it.
* `ReplNoFault`: `NoFault` under `Disciplined`. The invariant adds `LockDiscipline` (only the
  holder of the mutex is in a drain or in an eviction), `EvictNonEmpty` (the list an eviction works
  on does not become empty under it) and `DisciplineKept` (a node that is not linked yet is
  unlocked and nobody is evicting it).
* `ReplNoNodeLost` and `ReplRingAccounting`: `NoNodeLost` and `RingAccounting` are inductive over
  what is proved before; the second counts the threads at each step of an enqueue.
* `ReplEsrchOnlyUnderUse`: the action property `EsrchOnlyUnderUse`. `ScanInv` adds to
  `LockDiscipline` what a scan has seen: the nodes it has passed were locked, and nobody can unlock
  a node in the list while the mutex is held, so at the end all of them are. By `NoNodeLost` a
  locked node is in the ring or in a user's hands, and by `RingAccounting` a ring without a posted
  pointer holds only pointers of threads that are still inside the enqueue.

**The ring (`RingBufProofs`)**, any number of producers and pointers, any ring length, any counter
width that is a multiple of it, one consumer (`OneConsumer`; the policy's mutex provides it):

* `RingStoreNeverWaits`: `StoreNeverWaits`, and `RingFifo`: the refinement `Spec => FifoQueue`.
* The invariant `RingInv` says that there are positions R <= W, counted without wrapping
  around, with W - R at most `RingLen`, such that the counters are R and W modulo `PosMod`,
  every slot that is full belongs to a position in between, every such position is full or
  claimed by exactly one producer, and the two semaphores with the threads in between
  account for all slots (`Tokens`, `Counters`, `Contents`). The lemma `Wrapping` has the arithmetic: two
  positions less than `RingLen` apart have different slots and different counter values. A claim
  moves W, an emptied slot moves R; the abstract queue is the window from R to W, so these are
  its `Claim` and its `Take`, a store is its `Write`, and a fetched read position is no step at all.

**The cache (`CacheProofs`)**, any number of threads, keys and entries, any
pool, sizes and ring length. `NoneIsDisciplined` is assumed: if the policy "none" is among
those that may be chosen, nobody touches a key during its put (section 5 says what happens otherwise);
with LRU only, the clients are arbitrary.

* `CacheObeysPolicy`: `CSpec => ObeysPolicy`: every step of the cache is a step that `Repl`
  allows its clients, or none that it sees.
* `CacheRefcountExact`, `CacheNoUseAfterFree`, `CacheReadersSeeWholeValue`, `CacheVictimStaysIndexed`.
* `CacheNoFault`: with disciplined clients, from `CacheObeysPolicy` and `ReplNoFault`.
* `CacheTypeCorrect` (with the bound on reference counts) and `CacheQuiescentNoLeak`.
* None of these is inductive alone; `CInv` proves them together: exact counts show that an
  entry in somebody's hands is not freed, and who may hold which entry at which step
  (`ThreadEntries`, `ThreadInPolicy`) shows that the counts stay exact. `PutInv` says that an entry
  belongs to one put, and to that put only until the index has it, `ClaimInv` that one thread
  claims an entry and the entry stays indexed until that thread removes it, `VictimInv` that what
  the policy knows is indexed and that it gives up an entry to one thread, `IndexInv` that the
  index leads to complete entries of that key, and `NoneInv` that the policy "none" keeps no
  state. The invariants of `Repl` (`PolicyInv`) come in through the
  refinement. `PoolInv` adds that free units and allocated units make up the pool and no
  entry has more than it needs, `LiveInv` that every entry in memory is indexed or in a
  thread's hands. `QuiescentNoLeak` counts the allocated units as a set
  (`Allocated`), which is the same sum.

**The heap (`HeapProofs`)**, any number of values, any sizes, any guard, extent size and size of the
pool (`HeapAssumption`: addresses and sizes are numbers; a guard is at least as long as a header with its
footer, an extent at least three times as long, where the code has 128 and 8 times; and the pool between
the guards is longer than that):

* `HeapInvariant`: `HeapInv`, of four parts. `TypeInv`. `Shape`: there is a sequence of entries that
  tile the pool from its first to its last cell, each with equal tags at both ends and the
  neighbours' flags in them, no two free ones side by side, and the list of every value and the list
  of free entries are doubly linked, disjoint, and hold exactly the entries that are theirs
  (`HeapOk`; the sequence and the ranks that decrease along the lists are its witnesses).
  `StatsInv`: the two counters are what the entries add up to. `ValueInv`: the extents of a value that
  is being filled are too few by what is left to allocate, those of a complete one are enough and
  one of them at most is superfluous, none if `RestFits`, and what has been copied is there.
* `PoolIsTiled`, `FreeEntriesAreMerged`, `StatsAreExact`, `AssertionsHold`, `ExtentsAllNeeded` and
  `ValuesReadBack`: the six properties of the run, each from `HeapInv`. They hold for every extent
  size; the parts of `AssertsHold` and `NoSuperfluousExtent` that need `RestFits` say so.
* `RecommendedSizesFit`: `RestFits` holds if the extent size and the guard are multiples of twice a
  header with its footer, which are the 64 bytes of the manual.
* Why the rest matters: every entry but the last is a whole number of extents, so one that is taken
  whole exceeds the request by less than an extent; this may cover what one extent holds without its
  tags, and one is given back. The last entry has the rest on top. If it was taken before, it
  is never given back, and is needed for sure only if it holds a whole extent without its tags,
  so the rest must be as long as the tags. If it is taken at the end, the excess may grow by the
  rest, and must not cover two extents without their tags.
* The argument per action: an allocation takes the head of the free list, splits it or not, and
  a free merges with none, one or both neighbours; each is a change of the sequence at
  one place (a piece is replaced by one or two others), for which a lemma says that everything else
  stays as it was, in memory as well as in the lists.
* Following a list, adding up its sizes and copying along it are recursive functions over the
  natural numbers. They are determined by their equations, which is shown with the least
  counterexample (`WFMin` with the order of the natural numbers), and so are the inductions
  over the length of a list.

**The statistics of the index (`IndexProofs`)**, any number of shards, threads and readers
(`IndexStatAssumption`: at least one shard; sizes are natural numbers):

* `StatisticsBracketed`: `StatBracketed`, from `StatInvariant`. `StatInv` has for every shard the
  counters when its lock was taken (`base`) and those when it will be released (`goal`); `base` is
  balanced (as many entries as puts less evictions), a shard that is not locked is at both
  (`Settled`), and one that is locked has the changes that were made (`Halfway`). For every call in
  progress it has the counters and the locks at the call and the values read so far; each of these
  lies where `Since` and `Read` say, which mention only what never decreases: `base`, `goal` and
  the counters of puts, evictions, hits and misses. So one lemma (`CallLater`) covers every step
  of every other thread, and the property is `Read` added up over the shards (`SumBelow`: a
  sum grows with its parts, and is the same only if all of them are).
* `IndexImplementsStat`: every step of `Index` is a step of `IndexStat`, so `StatBracketed` holds of
  `Index` as well (`IndexStatisticsBracketed`).

**The trees (`CritnibProofs`)**, any slices, keys and addresses (`CritnibAssumption`: at least one
slice with at least one value; a key is a nonempty sequence of bytes and no key is a prefix of a
longer one, which the size in front provides; keys, addresses and NULL differ):

* `TreeOf(T, K)` says that T is a tree of the keys K: there is for every node the set of keys below it,
  such that a node has at least two children, is pointed to from one place, branches later in the
  key than the node above it, and the keys below it agree up to where it branches.
* A descent meets later and later nodes, so it ends before it has made as many steps as there are
  nodes (`Stops`, `DescendRoute`); `FindEnds` and `Get`: a lookup finds exactly the keys of K.
* `RelativeIs`: the leaf that the first descent of `critnib_set` ends at shares with the new key a
  prefix that no other leaf exceeds; so the keys below the place where the second descent
  stops all differ from the new key at the same slice (`ForkIs`, `SecondDescent`). `SetOk`: a set
  that succeeds gives `TreeOf(T', K \cup {key})`, and it is refused only if the key is in K.
* `RemoveOk`: a removal gives `TreeOf(T', K \ {key})`; the node that is left with one child goes.
* `DeleteLists`: `delete_node` lists every node and every leaf below a pointer once, by
  induction over the number of nodes below it (`EarliestIn`, `UnderIs`).

**The index (`IndexProofs`)**, any number of shards and threads (`IndexAssumption`: the hash picks a
shard, sizes are among `EntrySizes`):

* `TreesInvariant`: `TreesOk`, every shard has a tree of the keys that hash to it; from the lemmas above.
* `IndexImplementsKeySet`: the refinement of `KeySet`. `OnlyPresentRefused`: `RefusesOnlyPresent`.
  `TreesAlwaysWellFormed`: `TreesWellFormed`. `EachFreedOnce`: `DeleteFreesEachOnce`.
* `CountersAlwaysExact`: `CountersExact`, from `CountInvariant`. `CountInv` says that a counter and the
  change to it that its thread has still to make (`TallyOk`) are what there is in the tree: leaves,
  nodes and bytes. A set adds one node and one leaf at most, a removal takes away as many; the
  cardinalities are those of finite sets (`BlocksAdd`, `BlocksRemove`).

**The callbacks (`MissHookProofs`)**, any keys, sizes, offsets and depth: `MissHookRequest` and
`MissHookAnswered`, from `MissInv`: the pending request belongs to the innermost get that waits for
its callback (`RequestInv`), and the innermost get still has its request pending or has been
served from the value that was put (`AnswerInv`).

**The life cycle (`LifecycleProofs`)**, any number of threads, caches, devices, sizes, failures and
attempts: all six invariants, from `LifeInv`, which says for every place of a call what is live and
pointed to (`ObjInv`), mapped (`MapInv`), open, named and blocked (`FileInv`), who has
changed the mode mask (`UmaskInv`) and what `errno` and the message tell (`ErrInv`).

The assumptions: `RingLenAssumption`, `RingBufAssumption` (at least one slot; the counter's range is a
multiple of the ring's length; finitely many threads, whom the semaphores count);
`ConstantsAssumption`, `ThreadsAssumption`, `CacheAssumption` and `MissAssumption` (NULL is not an entry, a
thread, a key or a value; finitely many threads; sizes are numbers); `PoolAssumption`,
`ConfigAssumption` (a device, a page and the smallest pool are not empty; arguments are of the
types of the interface); `HeapAssumption`, `IndexStatAssumption`, `CritnibAssumption` and `IndexAssumption` (above).

Only model-checked is liveness (`SomeCallEnds`, `LockReleased`, `OperationsEnd`), as fairness is out
of the prover's reach.

## 5. Findings

1. `cache_orphan`: evict(NULL) against a failing evict(key) leaves an entry in the index
   that is in no list; it can never be evicted. `tests/vmemcache_test_mt.c:65` expects
   that evicting until nothing is left frees everything.
2. `cache_insert_race`: evict(key) between the publication of `p_entry` and the linking of
   the node in `repl_p_lru_insert` unlinks an unlinked node. Excluded by `Disciplined`.
3. `heap_rest`: with an extent size that is not a multiple of 64, `vmcache_alloc` may keep an extent
   that the value does not need, and `ASSERT(size_left > 0)` in `vmemcache_populate_extents`
   (`vmemcache.c:292`, in builds with assertions) fails. With extents of 272 bytes, a pool of a
   number of extents and 16 bytes, and a put of 512 bytes: it takes the last entry (256 bytes), evicts a
   value of two extents, and takes these whole (512 bytes). The last entry is not remembered as one
   to give back, since it is not exactly an extent (`vmemcache_heap.c:405`). The manual recommends a
   multiple of 64 and `vmemcache.c:118` accepts any size from 256.
4. `miss_offset`: a put in `on_miss` that answers a get with an offset copies the beginning of
   the value (`vmemcache.c:317`); the manual says that `offset` bytes are skipped.

Known limitations met while modelling, which the properties name or leave out, without a run
of their own:

* With policy none, evict(key) between the index insertion and `repl_p_none_insert` of a put
  drops a reference that was not taken yet, and the put acquires a freed entry
  (`cache_disciplined` has both policies, but disciplined callers).
* evict(key) calls `on_evict` before it asks the policy, which may refuse; the entry stays.
* An eviction may give up although an entry is not "in the middle of being used", as the
  comment at `vmemcache_repl.c:395` has it; `EsrchOnlyUnderUse` is what holds instead.
* A get that misses inside `on_miss` overwrites the request of the outer get, whose answer is
  lost (`MissAnswered` leaves it out); `get_req` is per thread and not per cache, so a put
  into another cache inside `on_miss` answers as well.
* A get without a buffer (`vbuf` NULL) that is answered in `on_miss` returns the length that a buffer
  would have received; a hit returns 0 (`vmemcache.c:316`, `vmemcache.c:412`), and the manual has the
  "number of bytes successfully copied" (`MissAnswered` says what the code does).
* A device that is mapped as a whole is unmapped with the size of the pool only; the rest
  stays mapped (`MappingReleased`).
* Two `vmemcache_add` without `O_TMPFILE` at the same time may leave the process with the mode
  mask of one of them (`MasksRestored`).
* The result of `ringbuf_new` is not looked at (`NoUseOfFreed` allows that crash only).
* Failures of the index and of the policy, and a character device that is not DAX, leave the
  message of an earlier error (`Speechless`); a device size that is not a number leaves
  `errno` 0 (`ErrorTold`).
* `cache->size` keeps what a failed `vmemcache_add` rounded it to or took from a device, and
  the extent size is compared with the size only if that was set before.

## 6. Not modelled, and the plan

Not modelled: the benchmark modes (`index_only`, `no_alloc`, `no_memcpy`) and the prefault of
`vmemcache_bench_set`, which switch parts of the cache off for measurements; hashing (any function
does); log output and formatting; wrappers of the operating system without state; valgrind
annotations; limits beyond the model's range (2^56 bytes, EFBIG); `env_yesno10`, which
aborts on a malformed setting; the FreeBSD branch of `util_unmap`; and what is compiled out
(`#if 0`), which is most of `file.c`, `file_posix.c` and `util.c`. The size of a device is
taken not to change between the two times it is read. Freed memory is not reused in `Cache`
while somebody has a pointer to it.

What is left: liveness, which only TLC checks; and the heap inside `Cache`, where it is a number of units
and not the pool of `Heap`.
