------------------------------ MODULE Lifecycle ------------------------------
(***************************************************************************)
(* The life of a cache: vmemcache_new, the setters, vmemcache_add with its  *)
(* error exits, and vmemcache_delete (src/src/vmemcache.c), with what they  *)
(* call to create and to destroy the heap, the index and the replacement    *)
(* policy.  Each thread has one cache at a time.                            *)
(*                                                                          *)
(* live[t] is the set of objects that the allocator has given out for the   *)
(* cache of t and not got back.  It is kept apart from the pointers, so     *)
(* that a pointer set to NULL too early shows as a leak.  A cache in use    *)
(* holds at most one entry here: what put, get and evict do to entries is   *)
(* the subject of module Cache.                                             *)
(***************************************************************************)
EXTENDS PoolMap

CONSTANTS
    VMEMCACHE_MIN_EXTENT,
    NSHARDS,        \* shards of the index
    MaxAdds         \* bound: MaxAdds[t] calls of vmemcache_add by thread t

VARIABLES
    ready,          \* cache->ready
    repl_p,         \* cache->repl_p
    extent_size,    \* cache->extent_size
    ptrs,           \* ptrs[t]: which of cache->heap, ->index, ->repl are not NULL
    live,           \* live[t]: objects allocated for the cache of t
    adds,           \* adds[t]: calls of vmemcache_add so far
    queued,         \* queued[t]: is the node of the entry in the ring buffer?
    crash           \* "none", or what the program died of

lifeVars == <<ready, repl_p, extent_size, ptrs, live, queued, crash>>
vars == <<outVars, poolVars, lifeVars, adds>>

Shards == {"shard"} \X (0 .. NSHARDS - 1)
IndexParts == {<<"index">>} \union Shards
ReplParts == {<<"repl">>, <<"head">>, <<"ring">>}

Init ==
    /\ OutInit
    /\ PoolInit
    /\ ready = [t \in Threads |-> FALSE]
    /\ repl_p = [t \in Threads |-> "LRU"]
    /\ extent_size = [t \in Threads |-> 0]
    /\ ptrs = [t \in Threads |-> {}]
    /\ live = [t \in Threads |-> {}]
    /\ adds = [t \in Threads |-> 0]
    /\ queued = [t \in Threads |-> FALSE]
    /\ crash = "none"

Exists(t) == <<"cache">> \in live[t]
Allocate(t, os) == live' = [live EXCEPT ![t] = @ \union os]
Free(t, os) == live' = [live EXCEPT ![t] = @ \ os]

\* A call that is over without having failed.
Succeeds(t) ==
    /\ failed' = [failed EXCEPT ![t] = Fine]
    /\ UNCHANGED <<errno, errormsg>>

------------------------------------------------------------------------------
vmemcache_new(t) ==
    /\ At(t, "idle")
    /\ ~Exists(t)
    /\ \/ Fault(t) /\ Perror(t, "Zalloc", "ENOMEM") /\ UNCHANGED <<live, repl_p, extent_size>>
       \/ /\ Allocate(t, {<<"cache">>})
          /\ repl_p' = [repl_p EXCEPT ![t] = "LRU"]
          /\ extent_size' = [extent_size EXCEPT ![t] = VMEMCACHE_MIN_EXTENT]
          /\ NoFailure
          /\ Succeeds(t)
    /\ size' = [size EXCEPT ![t] = 0]
    /\ addr' = [addr EXCEPT ![t] = "null"]
    /\ UNCHANGED <<pc, path, osVars, ready, ptrs, queued, crash>>

\* A setter: refused once the cache is in use, or if the value is not valid.
Setter(t, valid, assignment) ==
    /\ At(t, "idle")
    /\ Exists(t)
    /\ \/ ready[t] /\ Report(t, "in use", "EALREADY") /\ UNCHANGED <<repl_p, size, extent_size>>
       \/ /\ ~ready[t] /\ ~valid
          /\ Report(t, "argument", "EINVAL")
          /\ UNCHANGED <<repl_p, size, extent_size>>
       \/ ~ready[t] /\ valid /\ assignment /\ Succeeds(t)
    /\ NoFailure
    /\ UNCHANGED <<pc, path, addr, osVars, ready, ptrs, live, queued, crash>>

vmemcache_set_eviction_policy(t) ==
    \E p \in Config[t].policies :
        Setter(t, TRUE, repl_p' = [repl_p EXCEPT ![t] = p] /\ UNCHANGED <<size, extent_size>>)

\* The upper limit of 2^56 is out of the model's range.
vmemcache_set_size(t) ==
    \E n \in Config[t].sizes :
        Setter(t, n >= VMEMCACHE_MIN_POOL,
               size' = [size EXCEPT ![t] = n] /\ UNCHANGED <<repl_p, extent_size>>)

vmemcache_set_extent_size(t) ==
    \E n \in Config[t].extents :
        Setter(t, n >= VMEMCACHE_MIN_EXTENT,
               extent_size' = [extent_size EXCEPT ![t] = n] /\ UNCHANGED <<repl_p, size>>)

------------------------------------------------------------------------------
(***************************************************************************)
(* vmemcache_add                                                            *)
(***************************************************************************)

\* The extent size is compared with a size that was set, by vmemcache_set_size
\* or by an earlier vmemcache_add that failed.
AddRefused(t) ==
    \/ ready[t] /\ Report(t, "already initialized", "EBUSY")
    \/ /\ ~ready[t] /\ size[t] # 0
       /\ extent_size[t] > size[t]
       /\ Report(t, "extent larger than cache", "EINVAL")
    \/ /\ ~ready[t] /\ size[t] # 0
       /\ extent_size[t] <= size[t] /\ size[t] < VMEMCACHE_MIN_POOL
       /\ Report(t, "cache too small", "EINVAL")

AddAccepted(t) ==
    /\ ~ready[t]
    /\ size[t] # 0 => size[t] >= extent_size[t] /\ size[t] >= VMEMCACHE_MIN_POOL

AddStart(t) ==
    /\ At(t, "idle")
    /\ Exists(t)
    /\ adds[t] < MaxAdds[t]
    /\ adds' = [adds EXCEPT ![t] = @ + 1]
    /\ \E p \in Config[t].paths :
          \/ AddRefused(t) /\ UNCHANGED <<pc, path>>
          \/ AddAccepted(t) /\ path' = [path EXCEPT ![t] = p] /\ Goto(t, "type") /\ Succeeds(t)
    /\ NoFailure
    /\ UNCHANGED <<size, addr, osVars, lifeVars>>

GetPool(t) == PoolStep(t) /\ UNCHANGED lifeVars

\* vmcache_heap_create
HeapCreate(t) ==
    /\ At(t, "heap")
    /\ \/ Fault(t) /\ Perror(t, "Zalloc heap", "ENOMEM") /\ Goto(t, "unmap") /\ UNCHANGED <<live, ptrs>>
       \/ /\ Allocate(t, {<<"heap">>})
          /\ ptrs' = [ptrs EXCEPT ![t] = @ \union {"heap"}]
          /\ Goto(t, "index")
          /\ NoFailure
          /\ NoError
    /\ UNCHANGED <<path, size, addr, osVars, ready, repl_p, extent_size, queued, crash>>

\* What vmcache_index_new has when it comes to shard number i.
IndexUpTo(i) == {<<"index">>} \union ({"shard"} \X (0 .. i - 1))

\* Faulty variant: the loop stops before the first shard.
Undone_OffByOne(i) == {<<"index">>} \union ({"shard"} \X (1 .. i - 1))

\* What it frees when that shard cannot be had: the loop over the shards made so
\* far, and the index itself.
Undone(i) == {<<"index">>} \union ({"shard"} \X (0 .. i - 1))

\* vmcache_index_new: neither failure writes a message.
IndexNew(t) ==
    /\ At(t, "index")
    /\ \/ Fault(t) /\ Silent(t, "index", "ENOMEM") /\ Goto(t, "destroy_heap") /\ UNCHANGED <<live, ptrs>>
       \/ \E i \in 0 .. NSHARDS - 1 :
             /\ Fault(t)
             /\ Silent(t, "index", "ENOMEM")
             /\ live' = [live EXCEPT ![t] = (@ \union IndexUpTo(i)) \ Undone(i)]
             /\ Goto(t, "destroy_heap")
             /\ UNCHANGED ptrs
       \/ /\ Allocate(t, IndexParts)
          /\ ptrs' = [ptrs EXCEPT ![t] = @ \union {"index"}]
          /\ Goto(t, "repl")
          /\ NoFailure
          /\ NoError
    /\ UNCHANGED <<path, size, addr, osVars, ready, repl_p, extent_size, queued, crash>>

\* What repl_p_new allocates; the result of ringbuf_new is not looked at.
ReplMade(t, made) ==
    /\ Allocate(t, made)
    /\ ptrs' = [ptrs EXCEPT ![t] = @ \union {"repl"}]
    /\ ready' = [ready EXCEPT ![t] = TRUE]
    /\ path' = [path EXCEPT ![t] = "null"]
    /\ Goto(t, "idle")

\* What repl_p_init frees when repl_p_new cannot allocate the head.
ReplUndone == {<<"repl">>}

\* repl_p_init; the last step of a vmemcache_add that succeeds.
ReplInit(t) ==
    /\ At(t, "repl")
    /\ \/ /\ Fault(t)
          /\ Silent(t, "repl", "ENOMEM")
          /\ Goto(t, "destroy_index")
          /\ UNCHANGED <<live, ptrs, ready, path>>
       \/ /\ repl_p[t] = "LRU"
          /\ Fault(t)
          /\ Silent(t, "repl", "ENOMEM")
          /\ live' = [live EXCEPT ![t] = (@ \union {<<"repl">>}) \ ReplUndone]
          /\ Goto(t, "destroy_index")
          /\ UNCHANGED <<ptrs, ready, path>>
       \/ repl_p[t] = "LRU" /\ Fault(t) /\ ReplMade(t, ReplParts \ {<<"ring">>}) /\ NoError
       \/ repl_p[t] = "LRU" /\ NoFailure /\ ReplMade(t, ReplParts) /\ NoError
       \/ repl_p[t] = "NONE" /\ NoFailure /\ ReplMade(t, {<<"repl">>}) /\ NoError
    /\ UNCHANGED <<size, addr, osVars, repl_p, extent_size, queued, crash>>

\* The labels error_destroy_index, error_destroy_heap and error_unmap; a call
\* that failed before it had a mapping comes in at the end.
UndoIndex(t) ==
    /\ At(t, "destroy_index")
    /\ Free(t, IndexParts \union {<<"entry">>})
    /\ ptrs' = [ptrs EXCEPT ![t] = @ \ {"index"}]
    /\ Goto(t, "destroy_heap")
    /\ NoFailure
    /\ NoError
    /\ UNCHANGED <<path, size, addr, osVars, ready, repl_p, extent_size, queued, crash>>

UndoHeap(t) ==
    /\ At(t, "destroy_heap")
    /\ Free(t, {<<"heap">>})
    /\ ptrs' = [ptrs EXCEPT ![t] = @ \ {"heap"}]
    /\ Goto(t, "unmap")
    /\ NoFailure
    /\ NoError
    /\ UNCHANGED <<path, size, addr, osVars, ready, repl_p, extent_size, queued, crash>>

UndoMap(t) ==
    /\ At(t, "unmap")
    /\ util_unmap(t)
    /\ addr' = [addr EXCEPT ![t] = "null"]
    /\ Goto(t, "fail")
    /\ UNCHANGED <<path, size, lifeVars>>

\* return -1
AddFails(t) ==
    /\ At(t, "fail")
    /\ Goto(t, "idle")
    /\ path' = [path EXCEPT ![t] = "null"]
    /\ NoFailure
    /\ NoError
    /\ UNCHANGED <<size, addr, osVars, lifeVars>>

------------------------------------------------------------------------------
(***************************************************************************)
(* The cache in use, as far as its end depends on it                        *)
(***************************************************************************)

\* The first put makes an entry, and the LRU policy a node for it.
Put(t) ==
    /\ At(t, "idle")
    /\ ~Config[t].keeps
    /\ ready[t]
    /\ <<"entry">> \notin live[t]
    /\ Allocate(t, {<<"entry">>} \union IF repl_p[t] = "LRU" THEN {<<"node">>} ELSE {})
    /\ NoFailure
    /\ Succeeds(t)
    /\ UNCHANGED <<pc, path, size, addr, osVars, ready, repl_p, extent_size, ptrs, queued, crash>>

\* A get that hits puts the node into the ring, if there is one.
Hit(t) ==
    /\ At(t, "idle")
    /\ ~Config[t].keeps
    /\ ready[t]
    /\ {<<"entry">>, <<"node">>} \subseteq live[t]
    /\ IF <<"ring">> \in live[t]
       THEN queued' = [queued EXCEPT ![t] = TRUE] /\ UNCHANGED crash
       ELSE crash' = "no ring" /\ UNCHANGED queued
    /\ NoFailure
    /\ Succeeds(t)
    /\ UNCHANGED <<pc, path, size, addr, osVars, ready, repl_p, extent_size, ptrs, live>>

------------------------------------------------------------------------------
(***************************************************************************)
(* vmemcache_delete                                                         *)
(***************************************************************************)

\* Faulty variant: the entries are freed before the policy.
DeleteFrom_IndexFirst(l) ==
    CASE l = "start" -> "delete_index" [] l = "delete_index" -> "delete_repl"
      [] l = "delete_repl" -> "delete_heap" [] l = "delete_heap" -> "delete_map"
      [] l = "delete_map" -> "delete_cache"

\* The order in which vmemcache_delete takes a cache apart.
DeleteFrom(l) ==
    CASE l = "start" -> "delete_repl" [] l = "delete_repl" -> "delete_index"
      [] l = "delete_index" -> "delete_heap" [] l = "delete_heap" -> "delete_map"
      [] l = "delete_map" -> "delete_cache"

DeleteStart(t) ==
    /\ At(t, "idle")
    /\ ~Config[t].keeps
    /\ Exists(t)
    /\ Goto(t, IF ready[t] THEN DeleteFrom("start") ELSE "delete_cache")
    /\ NoFailure
    /\ Succeeds(t)
    /\ UNCHANGED <<path, size, addr, osVars, lifeVars>>

\* repl_p_lru_delete: dequeue_all reads the ring and stores into the entry of
\* every node in it; then the nodes, the ring and the list are freed.
LruDelete(t) ==
    crash' = CASE <<"ring">> \notin live[t] -> "no ring"
               [] queued[t] /\ <<"entry">> \notin live[t] -> "freed entry"
               [] OTHER -> crash

\* repl_p_destroy
DeleteRepl(t) ==
    /\ At(t, "delete_repl")
    /\ \/ repl_p[t] = "LRU" /\ LruDelete(t)
       \/ repl_p[t] = "NONE" /\ UNCHANGED crash
    /\ queued' = [queued EXCEPT ![t] = FALSE]
    /\ Free(t, ReplParts \union {<<"node">>})
    /\ Goto(t, DeleteFrom("delete_repl"))
    /\ NoFailure
    /\ NoError
    /\ UNCHANGED <<path, size, addr, osVars, ready, repl_p, extent_size, ptrs>>

\* vmcache_index_delete with vmemcache_delete_entry_cb
DeleteIndex(t) ==
    /\ At(t, "delete_index")
    /\ Free(t, IndexParts \union {<<"entry">>})
    /\ Goto(t, DeleteFrom("delete_index"))
    /\ NoFailure
    /\ NoError
    /\ UNCHANGED <<path, size, addr, osVars, ready, repl_p, extent_size, ptrs, queued, crash>>

DeleteHeap(t) ==
    /\ At(t, "delete_heap")
    /\ Free(t, {<<"heap">>})
    /\ Goto(t, DeleteFrom("delete_heap"))
    /\ NoFailure
    /\ NoError
    /\ UNCHANGED <<path, size, addr, osVars, ready, repl_p, extent_size, ptrs, queued, crash>>

DeleteMap(t) ==
    /\ At(t, "delete_map")
    /\ util_unmap(t)
    /\ Goto(t, DeleteFrom("delete_map"))
    /\ UNCHANGED <<path, size, addr, lifeVars>>

\* Free(cache): the fields are gone with it.
DeleteCache(t) ==
    /\ At(t, "delete_cache")
    /\ Free(t, {<<"cache">>})
    /\ ready' = [ready EXCEPT ![t] = FALSE]
    /\ ptrs' = [ptrs EXCEPT ![t] = {}]
    /\ size' = [size EXCEPT ![t] = 0]
    /\ addr' = [addr EXCEPT ![t] = "null"]
    /\ repl_p' = [repl_p EXCEPT ![t] = "LRU"]
    /\ extent_size' = [extent_size EXCEPT ![t] = 0]
    /\ Goto(t, "idle")
    /\ NoFailure
    /\ NoError
    /\ UNCHANGED <<path, osVars, queued, crash>>

------------------------------------------------------------------------------
Step(t) ==
    \/ vmemcache_new(t) \/ vmemcache_set_eviction_policy(t)
    \/ vmemcache_set_size(t) \/ vmemcache_set_extent_size(t)
    \/ GetPool(t) \/ HeapCreate(t) \/ IndexNew(t) \/ ReplInit(t)
    \/ UndoIndex(t) \/ UndoHeap(t) \/ UndoMap(t) \/ AddFails(t)
    \/ Put(t) \/ Hit(t)
    \/ DeleteStart(t) \/ DeleteRepl(t) \/ DeleteIndex(t) \/ DeleteHeap(t)
    \/ DeleteMap(t) \/ DeleteCache(t)

Crashed == crash # "none" /\ UNCHANGED vars

Next ==
    \/ Crashed
    \/ crash = "none" /\ \E t \in Threads : AddStart(t) \/ (Step(t) /\ UNCHANGED adds)

Spec == Init /\ [][Next]_vars

------------------------------------------------------------------------------
\* The cache pointers of t and the objects behind them.
Owned(t) ==
    UNION {{<<"cache">>},
           IF "heap" \in ptrs[t] THEN {<<"heap">>} ELSE {},
           IF "index" \in ptrs[t] THEN IndexParts ELSE {},
           IF "repl" \notin ptrs[t] THEN {}
           ELSE IF repl_p[t] = "LRU" THEN ReplParts ELSE {<<"repl">>}}

\* Between calls a cache owns exactly what its pointers reach: nothing at all
\* before vmemcache_new and after vmemcache_delete, only itself before it is
\* added and after a vmemcache_add that failed at any step, and heap, index and
\* policy with all their parts (but perhaps the ring) when it is ready.
NothingLeaks ==
    \A t \in Threads : At(t, "idle") =>
        IF ~Exists(t) THEN live[t] = {}
        ELSE /\ ptrs[t] = IF ready[t] THEN {"heap", "index", "repl"} ELSE {}
             /\ live[t] \ {<<"ring">>, <<"entry">>, <<"node">>} = Owned(t) \ {<<"ring">>}
             /\ ~ready[t] => live[t] = {<<"cache">>}

\* Between calls no descriptor is open, and a cache that is not ready has no
\* mapping and no address.  Of a pool in a temporary file nothing stays mapped for
\* good; of a DAX device the rest may, if the pool was smaller (util_unmap gives
\* back cache->size bytes of a device that was mapped as a whole).
MappingReleased ==
    \A t \in Threads :
        /\ At(t, "idle") => ~fd[t]
        /\ At(t, "idle") /\ ~ready[t] => maps[t] = 0 /\ addr[t] = "null"
        /\ lost[t] # "tmp"

\* A cache in use has its whole pool inside its mapping, for every size, device
\* and history of failed attempts: the heap writes its guards at both ends.
PoolInsideMapping ==
    \A t \in Threads : ready[t] /\ At(t, "idle") =>
        /\ 0 < size[t] /\ size[t] <= maps[t]
        /\ addr[t] = "tmp" => maps[t] = size[t] /\ size[t] >= VMEMCACHE_MIN_POOL

\* A temporary file that has a name, because the file system knows no O_TMPFILE,
\* has it only while the thread that made it has all signals blocked (or for
\* ever, if unlink failed).  After the call the signals are as they were, and so
\* is the mode mask of the process once nobody is in the middle of a call; unless
\* two calls changed it at the same time, when the one that began second puts
\* back the mask of the first.
MasksRestored ==
    /\ \A t \in Threads :
          /\ file[t] = "named" => sigmask[t] = "full"
          /\ At(t, "idle") => sigmask[t] = "open" /\ file[t] # "named"
    /\ (\A t \in Threads : At(t, "idle")) /\ ~overlap => umask = "user"

\* The places that fail without a message: the file type of a device that is not
\* DAX, and the allocations of the index and the replacement policy.
Speechless == {"not dax", "index", "repl"}

\* A call that failed returns the errno of the last thing that failed in it,
\* whatever was closed, freed, restored or printed on the way out; only a device
\* size that is not a number leaves no errno.  And vmemcache_errormsg describes
\* this failure and not an earlier one, unless it was a speechless one, and the
\* errno it quotes is the one returned.
ErrorTold ==
    \A t \in Threads :
        At(t, "idle") /\ failed[t] # Fine =>
            /\ errno[t] = failed[t].err
            /\ errno[t] = "OK" => failed[t].site = "device size"
            /\ failed[t].site \notin Speechless =>
                  /\ errormsg[t].site = failed[t].site
                  /\ errormsg[t].err \in {"OK", errno[t]}

\* The policy is destroyed while the entries that its nodes point to are still
\* there.  The one way to crash is a ring that could not be allocated.
NoUseOfFreed == crash \in {"none", "no ring"}
==============================================================================
