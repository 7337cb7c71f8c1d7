------------------------------ MODULE MissHook ------------------------------
(***************************************************************************)
(* The callbacks on_miss and on_evict as one thread of vmemcache.c runs    *)
(* them, and the thread-local request get_req through which a put answers  *)
(* the get that missed.                                                    *)
(*                                                                         *)
(* stack holds the calls that are inside a callback, the innermost one     *)
(* last: a get in on_miss, a put or an evict in on_evict.  A callback may  *)
(* call the cache again, whatever it likes.  Calls that run no callback    *)
(* are one step.  get_req is per thread and a get's buffer belongs to its  *)
(* caller, so one thread is the whole story; what the others do to the     *)
(* cache in the meantime is covered by the choice of hits and evictions.   *)
(***************************************************************************)
EXTENDS Integers, FiniteSetsExt, SequencesExt

CONSTANTS
    Keys,
    Sizes,      \* sizes of values
    BufSizes,   \* vbufsize arguments of get
    Offsets,    \* offset arguments of get
    CacheSize,  \* larger values do not fit
    MaxPuts,    \* bound: puts
    MaxDepth,   \* bound: calls inside callbacks
    None

ASSUME MissAssumption ==
    /\ None \notin Keys
    /\ None \notin [put : Nat, size : Nat]
    /\ Sizes \subseteq Nat /\ BufSizes \subseteq Nat /\ Offsets \subseteq Nat
    /\ CacheSize \in Nat /\ MaxPuts \in Nat /\ MaxDepth \in Nat

VARIABLES
    on_miss,    \* is the callback installed?
    on_evict,
    store,      \* key -> the value in the cache, or None
    get_req,    \* key, depth of the get it belongs to, is vbuf NULL?, vbufsize, offset
    stack,      \* the calls that are inside a callback
    puts,       \* puts so far; the number of a put identifies its value
    result      \* the get that has just returned from on_miss, or None

vars == <<on_miss, on_evict, store, get_req, stack, puts, result>>

\* Byte i of the value of put number n is <<n, i>>.
Value(n, size) == [put |-> n, size |-> size]
Bytes(v, offset, len) == [i \in 1 .. len |-> <<v.put, offset + i>>]

NoRequest == [key |-> None, depth |-> 0, null |-> TRUE, vbufsize |-> 0, offset |-> 0]

\* vbuf holds what has been copied to the buffer.
GetFrame(k, null, n, offset) ==
    [op |-> "get", key |-> k, null |-> null, vbufsize |-> n, offset |-> offset,
     vbuf |-> <<>>, offered |-> None, overwritten |-> FALSE]

\* A put, or an evict (whose value is None), in on_evict for its victim.
EvictFrame(k, v, victim) == [op |-> "evict", key |-> k, value |-> v, victim |-> victim]

Init ==
    /\ on_miss \in BOOLEAN /\ on_evict \in BOOLEAN
    /\ store = [k \in Keys |-> None]
    /\ get_req = NoRequest
    /\ stack = <<>>
    /\ puts = 0
    /\ result = None

MayCall == Len(stack) < MaxDepth

Top == stack[Len(stack)]
Gets == {d \in 1 .. Len(stack) : stack[d].op = "get"}

\* The entry is in the cache and nobody evicts it already.
Evictable(k) ==
    /\ store[k] # None
    /\ \A d \in 1 .. Len(stack) : stack[d].op = "evict" => stack[d].victim # k

----------------------------------------------------------------------------
(* vmemcache_get *)

GetHit(k) ==
    /\ MayCall /\ store[k] # None
    /\ result' = None
    /\ UNCHANGED <<on_miss, on_evict, store, get_req, stack, puts>>

GetNoHook(k) ==
    /\ MayCall /\ store[k] = None /\ ~on_miss
    /\ result' = None
    /\ UNCHANGED <<on_miss, on_evict, store, get_req, stack, puts>>

\* The request is filled in and on_miss called.  Gets further out lose theirs.
GetMiss(k, null, vbufsize, offset) ==
    /\ MayCall /\ store[k] = None /\ on_miss
    /\ get_req' = [key |-> k, depth |-> Len(stack) + 1, null |-> null,
                   vbufsize |-> vbufsize, offset |-> offset]
    /\ stack' = Append([d \in 1 .. Len(stack) |->
                          IF d \in Gets THEN [stack[d] EXCEPT !.overwritten = TRUE]
                          ELSE stack[d]],
                       GetFrame(k, null, vbufsize, offset))
    /\ result' = None
    /\ UNCHANGED <<on_miss, on_evict, store, puts>>

\* Faulty variant: the request of a get that was not answered stays behind.
MissReturn_Stale(d) ==
    /\ d = Len(stack) /\ d \in Gets
    /\ result' = [get |-> stack[d],
                  ret |-> IF get_req.key = None THEN get_req.vbufsize ELSE -1]
    /\ stack' = Front(stack)
    /\ UNCHANGED <<on_miss, on_evict, store, get_req, puts>>

\* on_miss returns, and so does the get.
MissReturn(d) ==
    /\ d = Len(stack) /\ d \in Gets
    /\ result' = [get |-> stack[d],
                  ret |-> IF get_req.key = None THEN get_req.vbufsize ELSE -1]
    /\ get_req' = [get_req EXCEPT !.key = None]
    /\ stack' = Front(stack)
    /\ UNCHANGED <<on_miss, on_evict, store, puts>>

----------------------------------------------------------------------------
(* vmemcache_put *)

\* The gets that are waiting for this key have been offered this value.
Offered(s, k, v) ==
    [d \in 1 .. Len(s) |->
        IF s[d].op = "get" /\ s[d].key = k /\ s[d].offered = None
        THEN [s[d] EXCEPT !.offered = v] ELSE s[d]]

\* Faulty variant: the value's size takes no account of the offset.
SatisfiedSize_NoOffset(v) == Min({get_req.vbufsize, v.size})

\* The length that vmemcache_put_satisfy_get leaves in the request, and the get
\* returns.
SatisfiedSize(v) ==
    IF get_req.offset >= v.size THEN 0
    ELSE Min({get_req.vbufsize, v.size - get_req.offset})

\* What goes to the buffer: the beginning of the value, or nothing if vbuf is NULL.
Copied(v) == IF get_req.null THEN <<>> ELSE Bytes(v, 0, SatisfiedSize(v))

\* vmemcache_put_satisfy_get: the request is served and marked as satisfied.
SatisfyGet(k, v, frames) ==
    LET s == Offered(stack, k, v) IN
        \/ /\ get_req.key = k
           /\ get_req' = [get_req EXCEPT !.key = None, !.vbufsize = SatisfiedSize(v)]
           /\ stack' = [s EXCEPT ![get_req.depth].vbuf = Copied(v)] \o frames
        \/ /\ get_req.key # k
           /\ stack' = s \o frames
           /\ UNCHANGED get_req

\* vmcache_index_insert, when the value has its extents: refused if the key is
\* there.
Inserted(st, k, v) == [st EXCEPT ![k] = IF @ = None THEN v ELSE @]

Without(st, victims) == [k \in Keys |-> IF k \in victims THEN None ELSE st[k]]

\* The put ends without a callback: there is room, or evictions make some.
Put(k, size, victims) ==
    LET v == Value(puts + 1, size) IN
    /\ MayCall /\ puts < MaxPuts
    /\ size <= CacheSize
    /\ victims # {} => size > 0 /\ ~on_evict
    /\ \A j \in victims : Evictable(j)
    /\ puts' = puts + 1
    /\ SatisfyGet(k, v, <<>>)
    /\ store' = Inserted(Without(store, victims), k, v)
    /\ result' = None
    /\ UNCHANGED <<on_miss, on_evict>>

\* The value is larger than the cache, or nothing can be evicted.
PutFails(k, size) ==
    LET v == Value(puts + 1, size) IN
    /\ MayCall /\ puts < MaxPuts
    /\ size > CacheSize \/ (size > 0 /\ \A j \in Keys : ~Evictable(j))
    /\ puts' = puts + 1
    /\ SatisfyGet(k, v, <<>>)
    /\ result' = None
    /\ UNCHANGED <<on_miss, on_evict, store>>

\* The heap is full: the put calls vmemcache_evict, which calls on_evict.
PutEvicts(k, size, victim) ==
    LET v == Value(puts + 1, size) IN
    /\ MayCall /\ puts < MaxPuts
    /\ 0 < size /\ size <= CacheSize
    /\ Evictable(victim) /\ on_evict
    /\ puts' = puts + 1
    /\ SatisfyGet(k, v, <<EvictFrame(k, v, victim)>>)
    /\ result' = None
    /\ UNCHANGED <<on_miss, on_evict, store>>

----------------------------------------------------------------------------
(* vmemcache_evict *)

Evict(victim) ==
    /\ MayCall /\ Evictable(victim)
    /\ \/ /\ on_evict
          /\ stack' = Append(stack, EvictFrame(victim, None, victim))
          /\ UNCHANGED store
       \/ /\ ~on_evict
          /\ store' = Without(store, {victim})
          /\ UNCHANGED stack
    /\ result' = None
    /\ UNCHANGED <<on_miss, on_evict, get_req, puts>>

\* on_evict returns and the victim leaves the cache.  A put goes on: it has room
\* now, or evicts once more, or gives up.
EvictReturn(d) ==
    LET f == stack[d]
        rest == Without(store, {f.victim})
    IN  /\ d = Len(stack) /\ d > 0 /\ d \notin Gets
        /\ \/ /\ f.value # None
              /\ store' = Inserted(rest, f.key, f.value)
              /\ stack' = Front(stack)
           \/ /\ f.value # None
              /\ store' = rest
              /\ \E victim \in Keys :
                   /\ Evictable(victim)
                   /\ stack' = [stack EXCEPT ![d].victim = victim]
           \/ /\ f.value # None => \A j \in Keys : ~Evictable(j)
              /\ store' = rest
              /\ stack' = Front(stack)
        /\ result' = None
        /\ UNCHANGED <<on_miss, on_evict, get_req, puts>>

----------------------------------------------------------------------------

\* vmemcache_callback_on_miss and vmemcache_callback_on_evict
SetHooks(m, e) ==
    /\ stack = <<>>
    /\ on_miss' = m /\ on_evict' = e
    /\ result' = None
    /\ UNCHANGED <<store, get_req, stack, puts>>

\* Another thread puts the key, or evicts it.
OtherThread(k) ==
    /\ \/ store[k] = None /\ store' = [store EXCEPT ![k] = Value(0, 1)]
       \/ Evictable(k) /\ store' = Without(store, {k})
    /\ result' = None
    /\ UNCHANGED <<on_miss, on_evict, get_req, stack, puts>>

Next ==
    \/ \E k \in Keys : GetHit(k) \/ GetNoHook(k) \/ Evict(k) \/ OtherThread(k)
    \/ \E k \in Keys, null \in BOOLEAN, n \in BufSizes, offset \in Offsets :
          GetMiss(k, null, n, offset)
    \/ \E k \in Keys, size \in Sizes :
          \/ PutFails(k, size)
          \/ \E victims \in SUBSET Keys : Put(k, size, victims)
          \/ \E victim \in Keys : PutEvicts(k, size, victim)
    \/ MissReturn(Len(stack)) \/ EvictReturn(Len(stack))
    \/ \E m, e \in BOOLEAN : SetHooks(m, e)

Spec == Init /\ [][Next]_vars

----------------------------------------------------------------------------
(* Properties *)

\* A pending request belongs to the innermost get whose callback is running, and
\* asks for what that get asks for.  So no put ever writes to the buffer of a get
\* that has returned.
RequestOfRunningGet ==
    get_req.key # None =>
        /\ Gets # {} /\ get_req.depth = Max(Gets)
        /\ stack[get_req.depth].key = get_req.key
        /\ stack[get_req.depth].null = get_req.null
        /\ stack[get_req.depth].vbufsize = get_req.vbufsize
        /\ stack[get_req.depth].offset = get_req.offset

\* What a get of value v copies when it hits.
Slice(v, n, offset) ==
    Bytes(v, offset, IF offset >= v.size THEN 0 ELSE Min({n, v.size - offset}))

\* "If the callback calls put for that specific key, the get will return its
\* value, even if it did not fit into the cache" (doc/vmemcache.md): as many
\* bytes as a hit would return and, read from the start, the same bytes; and
\* without such a put the get fails.  If vbuf is NULL nothing is written, but the
\* get returns the length all the same, where a hit returns 0.  Left out is the
\* get whose request was overwritten when a get inside its callback missed too.
MissAnswered ==
    result # None /\ ~result.get.overwritten =>
        LET g == result.get IN
        IF g.offered = None THEN result.ret = -1
        ELSE /\ result.ret = Len(Slice(g.offered, g.vbufsize, g.offset))
             /\ Len(g.vbuf) = IF g.null THEN 0 ELSE result.ret
             /\ ~g.null /\ g.offset = 0 => g.vbuf = Slice(g.offered, g.vbufsize, 0)

\* "optionally skipping offset bytes at the start" (doc/vmemcache.md, get): the
\* bytes are those that a hit would return.
MissHonoursOffset ==
    result # None /\ ~result.get.overwritten =>
        LET g == result.get IN
        g.offered # None /\ ~g.null => g.vbuf = Slice(g.offered, g.vbufsize, g.offset)
=============================================================================
