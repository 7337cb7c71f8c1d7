-------------------------------- MODULE Heap --------------------------------
(***************************************************************************)
(* The allocator of vmemcache_heap.c, with the two loops of vmemcache.c    *)
(* that copy a value into its extents and out of them.                     *)
(*                                                                         *)
(* The pool is a function from addresses to cells.  A heap entry is a      *)
(* header, the extent proper and a footer; header and footer take one cell *)
(* each (24 and 8 bytes in the code), the extent holds the value.  Tags    *)
(* are found by address arithmetic only, so a cell that was overwritten,   *)
(* or an old tag that was left behind, is what a later merge will read.    *)
(*                                                                         *)
(* Everything happens under one mutex.  An action is one iteration of the  *)
(* loop of vmcache_alloc or vmcache_free, or what follows the loop: the    *)
(* statistics are read without the mutex, between any two of them.         *)
(***************************************************************************)
EXTENDS Integers, FiniteSetsExt, SequencesExt

CONSTANTS
    Values,      \* entries of the cache; each is put and released by a thread
    Sizes,       \* sizes of values
    Addr,        \* the mapping: address
    MapLen,        \* and length
    GUARD_SIZE,
    extent_size,
    Null

HEADER_SIZE == 1
FOOTER_SIZE == 1
HFER_SIZE == HEADER_SIZE + FOOTER_SIZE

AlignDown(n, a) == n - (n % a)
AlignUp(n, a) == AlignDown(n + a - 1, a)

\* vmcache_heap_add_mapping: the part of the mapping between the guards.
new_addr == AlignUp(Addr + GUARD_SIZE, GUARD_SIZE)
new_size == AlignDown(MapLen - (new_addr - Addr) - GUARD_SIZE, GUARD_SIZE)

Cells == Addr .. Addr + MapLen - 1

\* GUARD_SIZE is 4096 bytes in the code and VMEMCACHE_MIN_EXTENT, which is all
\* that vmemcache_set_extent_size asks for, 256: 128 and 8 times a header with
\* its footer.  The mapping has to have room for the guards and one heap entry.
ASSUME HeapAssumption ==
    /\ Addr \in Nat /\ MapLen \in Nat
    /\ Null \notin Nat /\ Null \notin Values
    /\ GUARD_SIZE \in Nat /\ GUARD_SIZE >= HFER_SIZE
    /\ extent_size \in Nat /\ extent_size >= 3 * HFER_SIZE
    /\ new_size > HFER_SIZE
    /\ Sizes \subseteq 0 .. MapLen

VARIABLES
    heap,    \* mem; first_extent, entries and size_used of struct heap; asserts
    lock,    \* who holds heap->lock
    pc,      \* value -> where its put or its release is
    vsize,   \* value -> its size
    left,    \* value -> left_to_allocate of its put
    first,   \* value -> entry->value.extents
    small,   \* value -> small_extent of its put
    loc      \* local variables of the call that holds the lock

vars == <<heap, lock, pc, vsize, left, first, small, loc>>

NoCall == [to_allocate |-> 0, allocated |-> 0, ext |-> Null, freed |-> 0]

----------------------------------------------------------------------------
(* Cells *)

Tag(next, prev, size, allocated) ==
    [next |-> next, prev |-> prev, size |-> size, allocated |-> allocated,
     data |-> Null]

\* Byte i of value v.  Read as a tag it is a free extent of size 0.
Datum(v, i) == [Tag(Null, Null, 0, FALSE) EXCEPT !.data = <<v, i>>]

\* A fresh mapping is zeroed.
Zero == Tag(Null, Null, 0, FALSE)

\* vmcache_extent_get_header, _get_size, _get_next
HeaderOf(ptr) == ptr - HEADER_SIZE
Size(h, ptr) == h.mem[HeaderOf(ptr)].size
NextExt(h, ptr) == h.mem[HeaderOf(ptr)].next

\* The footer of an extent (vmcache_create_footer_address, for a heap entry), and
\* the neighbours of an extent as a merge finds them: the footer below, from it
\* the extent below, and the extent above.
FooterOf(h, ptr) == ptr + Size(h, ptr)
FooterOfEntry(he) == he.ptr + he.size - FOOTER_SIZE
PrevFooter(ptr) == ptr - HEADER_SIZE - FOOTER_SIZE
PrevPtr(footer, size) == footer - size
NextPtr(ptr, size) == ptr + size + HFER_SIZE

Check(h, cond) == [h EXCEPT !.asserts = @ /\ cond]

----------------------------------------------------------------------------
(* Heap entries *)

\* vmcache_insert_heap_entry: tags at both ends, the entry becomes the head of
\* the list that starts at fst.
InsertEntry(h, he, fst, allocated) ==
    LET ptr == he.ptr + HEADER_SIZE
        size == he.size - HFER_SIZE
        tagged == [h.mem EXCEPT
                     ![he.ptr] = Tag(fst, Null, size, allocated),
                     ![FooterOfEntry(he)] =
                         Tag(Null, Null, size, allocated)]
    IN  IF fst = Null
        THEN [h EXCEPT !.mem = tagged]
        ELSE [Check(h, tagged[HeaderOf(fst)].prev = Null)
                EXCEPT !.mem = [tagged EXCEPT ![HeaderOf(fst)].prev = ptr]]

InsertFree(h, he) ==
    [InsertEntry(h, he, h.first_extent, FALSE) EXCEPT
       !.first_extent = he.ptr + HEADER_SIZE,
       !.entries = @ + 1]

\* vmcache_pop_heap_entry, for a list that is not empty.
Popped(h) ==
    LET ptr == h.first_extent
    IN  [ptr |-> HeaderOf(ptr), size |-> Size(h, ptr) + HFER_SIZE]

\* Faulty variant: the new head keeps its back pointer.
Pop_KeepsPrev(h) ==
    [h EXCEPT !.first_extent = NextExt(h, h.first_extent), !.entries = @ - 1]

Pop(h) ==
    LET ptr == h.first_extent
        header == h.mem[HeaderOf(ptr)]
        footer == h.mem[FooterOf(h, ptr)]
        next == header.next
        checked == Check(h, /\ header.prev = Null /\ ~header.allocated
                             /\ footer.size = header.size /\ ~footer.allocated
                             /\ (next # Null => h.mem[HeaderOf(next)].prev # Null))
    IN  [checked EXCEPT
           !.mem = IF next = Null THEN @ ELSE [@ EXCEPT ![HeaderOf(next)].prev = Null],
           !.first_extent = next,
           !.entries = @ - 1]

\* Take an extent out of a doubly linked list: vmcache_heap_remove and the
\* first half of vmcache_free_extent.
Unlink(h, ptr) ==
    LET header == h.mem[HeaderOf(ptr)]
        next == header.next
        prev == header.prev
        m1 == IF next = Null THEN h.mem ELSE [h.mem EXCEPT ![HeaderOf(next)].prev = prev]
        m2 == IF prev = Null THEN m1 ELSE [m1 EXCEPT ![HeaderOf(prev)].next = next]
    IN  [Check(h, /\ (next # Null => h.mem[HeaderOf(next)].prev = ptr)
                   /\ (prev # Null => h.mem[HeaderOf(prev)].next = ptr))
           EXCEPT !.mem = m2]

\* Faulty variant: the head of the free list is not moved.
HeapRemove_KeepsHead(h, ptr) == [Unlink(h, ptr) EXCEPT !.entries = @ - 1]

\* vmcache_heap_remove
HeapRemove(h, ptr) ==
    LET header == h.mem[HeaderOf(ptr)]
    IN  [Unlink(Check(h, \/ header.next # Null \/ header.prev # Null
                          \/ h.first_extent = ptr), ptr) EXCEPT
           !.first_extent = IF @ = ptr THEN header.next ELSE @,
           !.entries = @ - 1]

\* vmcache_heap_merge: the footer before the extent and the header after it
\* say whether the neighbours are free.
MergedEntry(h, ptr, size) ==
    LET prev == h.mem[PrevFooter(ptr)]
        next == h.mem[HeaderOf(NextPtr(ptr, size))]
        below == IF prev.allocated THEN 0 ELSE prev.size + HFER_SIZE
        above == IF next.allocated THEN 0 ELSE next.size + HFER_SIZE
    IN  [ptr |-> HeaderOf(ptr) - below, size |-> size + HFER_SIZE + below + above]

MergedHeap(h, ptr, size) ==
    LET prev == h.mem[PrevFooter(ptr)]
        next == h.mem[HeaderOf(NextPtr(ptr, size))]
        h1 == IF prev.allocated THEN h ELSE HeapRemove(h, PrevPtr(PrevFooter(ptr), prev.size))
    IN  IF next.allocated THEN h1 ELSE HeapRemove(h1, NextPtr(ptr, size))

\* The bytes of a freed extent are forgotten (old tags are not): whoever would
\* still read them finds Null.
Forget(h, ptr, size) ==
    [h EXCEPT !.mem = [a \in Cells |->
        IF a \in ptr .. ptr + size - 1 THEN [@[a] EXCEPT !.data = Null] ELSE @[a]]]

\* Faulty variant: a freed extent is not merged with its neighbours.
MergeAndInsert_NoMerge(h, ptr, size) ==
    InsertFree(Forget(h, ptr, size),
               [ptr |-> HeaderOf(ptr), size |-> size + HFER_SIZE])

MergeAndInsert(h, ptr, size) ==
    InsertFree(MergedHeap(Forget(h, ptr, size), ptr, size),
               MergedEntry(h, ptr, size))

\* Faulty variant: the smallest extent is kept.
FreeExtent_Keeps(h, ptr) == h

\* vmcache_free_extent: give the smallest extent of a value back.
FreeExtent(h, ptr) ==
    LET size == extent_size - HFER_SIZE
    IN  [MergeAndInsert(Unlink(h, ptr), ptr, size) EXCEPT !.size_used = @ - size]

----------------------------------------------------------------------------
(* The extents of a value *)

\* No list is longer than the pool has cells.
MaxExtents == new_size + 1

\* EXTENTS_FOREACH: the pointers it meets from fst on, Null after the last one,
\* and the extents of the list.
Chain(h, fst) ==
    LET at[i \in 1 .. MaxExtents] ==
            IF i = 1 THEN fst
            ELSE LET ptr == at[i - 1] IN IF ptr = Null THEN Null ELSE NextExt(h, ptr)
    IN  at

Extents(h, fst) ==
    LET at == Chain(h, fst)
        n == CHOOSE m \in 0 .. MaxExtents :
               /\ m > 0 => at[m] # Null
               /\ m < MaxExtents => at[m + 1] = Null
    IN  [i \in 1 .. n |-> [ptr |-> at[i], size |-> Size(h, at[i])]]

\* The loop of vmemcache_populate_extents, after each of its iterations, and
\* what it leaves in the pool.  (asserts: ASSERT(size_left > 0) held so far.)
Populating(h, v) ==
    LET exts == Extents(h, first[v])
        copy[i \in 0 .. Len(exts)] ==
          IF i = 0 THEN [mem |-> h.mem, size_left |-> vsize[v], asserts |-> TRUE]
          ELSE LET acc == copy[i - 1]
                   ext == exts[i]
                   len == Min({ext.size, acc.size_left})
                   done == vsize[v] - acc.size_left
               IN  [mem |-> [a \in Cells |->
                       IF a \in ext.ptr .. ext.ptr + len - 1
                       THEN Datum(v, done + a - ext.ptr + 1) ELSE acc.mem[a]],
                    size_left |-> acc.size_left - len,
                    asserts |-> acc.asserts /\ acc.size_left > 0]
    IN  copy[Len(exts)]

PopulateExtents(h, v) == [h EXCEPT !.mem = Populating(h, v).mem]

\* Faulty variant: the length of the first piece ignores the offset.
PopulateValue_LongPiece(h, v, vbufsize, offset) ==
    LET ext == Head(Extents(h, first[v]))
        len == Min({ext.size, vsize[v] - offset, vbufsize})
    IN  IF offset >= vsize[v] \/ offset > ext.size THEN <<>>
        ELSE [i \in 1 .. len |-> h.mem[ext.ptr + offset + i - 1].data]

\* vmemcache_populate_value: what ends up in vbuf.
PopulateValue(h, v, vbufsize, offset) ==
    LET exts == Extents(h, first[v])
        copy[i \in 0 .. Len(exts)] ==      \* after i extents
          IF i = 0
          THEN [offset |-> offset, left_to_copy |-> vsize[v] - offset,
                vbufsize |-> vbufsize, vbuf |-> <<>>, done |-> FALSE]
          ELSE LET acc == copy[i - 1]
                   ext == exts[i]
                   len == Min({ext.size - acc.offset, acc.left_to_copy, acc.vbufsize})
                   from == ext.ptr + acc.offset
               IN  IF acc.done THEN acc
                   ELSE IF acc.offset > ext.size
                   THEN [acc EXCEPT !.offset = @ - ext.size]
                   ELSE [offset |-> 0,
                         left_to_copy |-> acc.left_to_copy - len,
                         vbufsize |-> acc.vbufsize - len,
                         vbuf |-> acc.vbuf \o [j \in 1 .. len |-> h.mem[from + j - 1].data],
                         done |-> acc.vbufsize = len \/ acc.left_to_copy = len]
    IN  IF offset >= vsize[v] THEN <<>> ELSE copy[Len(exts)].vbuf

----------------------------------------------------------------------------
(* vmcache_heap_create *)

Init ==
    /\ heap =
         LET blank == [mem |-> [a \in Cells |-> Zero], first_extent |-> Null,
                       entries |-> 0, size_used |-> 0, asserts |-> TRUE]
         IN  [InsertFree(blank, [ptr |-> new_addr, size |-> new_size]) EXCEPT
                !.mem = [@ EXCEPT ![new_addr - FOOTER_SIZE].allocated = TRUE,
                                  ![new_addr + new_size].allocated = TRUE]]
    /\ lock = Null
    /\ pc = [v \in Values |-> "none"]
    /\ vsize = [v \in Values |-> 0]
    /\ left = [v \in Values |-> 0]
    /\ first = [v \in Values |-> Null]
    /\ small = [v \in Values |-> Null]
    /\ loc = NoCall

Goto(v, l) == pc' = [pc EXCEPT ![v] = l]

\* util_mutex_lock and util_mutex_unlock of heap->lock
Lock(v) == lock = Null /\ lock' = v
Unlock(v) == lock = v /\ lock' = Null /\ loc' = NoCall

----------------------------------------------------------------------------
(* The part of vmemcache_put that fills the entry *)

PutStart(v, size) ==
    /\ pc[v] = "none"
    /\ vsize' = [vsize EXCEPT ![v] = size]
    /\ left' = [left EXCEPT ![v] = size]
    /\ small' = [small EXCEPT ![v] = Null]
    /\ Goto(v, IF size = 0 THEN "fill" ELSE "alloc")
    /\ UNCHANGED <<heap, lock, first, loc>>

AllocLock(v) ==
    /\ pc[v] = "alloc"
    /\ Lock(v)
    /\ heap' = Check(heap, first[v] = Null => small[v] = Null)
    /\ loc' = [NoCall EXCEPT !.to_allocate = left[v]]
    /\ Goto(v, "popping")
    /\ UNCHANGED <<vsize, left, first, small>>

\* One iteration of the loop of vmcache_alloc that finds a free entry.
Take(v) ==
    LET he0 == Popped(heap)
        h0 == Pop(heap)
        to == loc.to_allocate
        alloc_size == AlignUp(to + HFER_SIZE, extent_size)
        split == he0.size >= alloc_size + extent_size
        he == IF split THEN [he0 EXCEPT !.size = alloc_size] ELSE he0
        h1 == IF split
              THEN InsertFree(h0, [ptr |-> he0.ptr + alloc_size,
                                   size |-> he0.size - alloc_size])
              ELSE h0
        h2 == InsertEntry(h1, he, first[v], TRUE)
        new == he.ptr + HEADER_SIZE
        sm == IF small[v] = Null /\ he.size = extent_size THEN new ELSE small[v]
        got == he.size - HFER_SIZE
        spare == /\ got > to
                 /\ got - to >= extent_size - HFER_SIZE
                 /\ sm # Null
    IN  [heap |-> IF spare THEN FreeExtent(h2, sm) ELSE h2,
         first |-> new,
         small |-> sm,
         to_allocate |-> to - Min({got, to}),
         allocated |-> loc.allocated + got]

AllocMore(v) ==
    /\ pc[v] = "popping" /\ loc.to_allocate > 0 /\ heap.first_extent # Null
    /\ LET r == Take(v) IN
         /\ heap' = r.heap
         /\ first' = [first EXCEPT ![v] = r.first]
         /\ small' = [small EXCEPT ![v] = r.small]
         /\ loc' = [loc EXCEPT !.to_allocate = r.to_allocate,
                               !.allocated = r.allocated]
    /\ UNCHANGED <<lock, pc, vsize, left>>

\* The end of vmcache_alloc, when the value is complete or the free list is
\* empty, and what vmemcache_put does with its result.
AllocReturn(v) ==
    /\ pc[v] = "popping" /\ (loc.to_allocate = 0 \/ heap.first_extent = Null)
    /\ heap' = [heap EXCEPT !.size_used = @ + loc.allocated]
    /\ left' = [left EXCEPT ![v] = loc.to_allocate]
    /\ Goto(v, IF loc.to_allocate = 0 THEN "fill"
               ELSE IF loc.to_allocate = left[v] THEN "evict" ELSE "alloc")
    /\ Unlock(v)
    /\ UNCHANGED <<vsize, first, small>>

\* vmemcache_evict: some value has been released, or is as soon as its last
\* reader is done; or there is nothing to evict and the put fails.
Evicted(v) ==
    /\ pc[v] = "evict"
    /\ Goto(v, "alloc")
    /\ UNCHANGED <<heap, lock, vsize, left, first, small, loc>>

EvictFailed(v) ==
    /\ pc[v] = "evict"
    /\ Goto(v, "free")
    /\ UNCHANGED <<heap, lock, vsize, left, first, small, loc>>

Fill(v) ==
    /\ pc[v] = "fill"
    /\ heap' = PopulateExtents(heap, v)
    /\ Goto(v, "held")
    /\ UNCHANGED <<lock, vsize, left, first, small, loc>>

----------------------------------------------------------------------------
(* vmcache_free *)

\* The last reference is dropped, or the key could not be inserted.
Drop(v) ==
    /\ pc[v] = "held"
    /\ Goto(v, "free")
    /\ UNCHANGED <<heap, lock, vsize, left, first, small, loc>>

FreeLock(v) ==
    /\ pc[v] = "free"
    /\ Lock(v)
    /\ loc' = [NoCall EXCEPT !.ext = first[v]]
    /\ Goto(v, "merging")
    /\ UNCHANGED <<heap, vsize, left, first, small>>

\* Faulty variant: the tags are counted as freed too.
FreeMore_CountsTags(v) ==
    /\ pc[v] = "merging" /\ loc.ext # Null
    /\ LET size == Size(heap, loc.ext) IN
         /\ heap' = MergeAndInsert(heap, loc.ext, size)
         /\ loc' = [loc EXCEPT !.ext = NextExt(heap, loc.ext),
                               !.freed = @ + size + HFER_SIZE]
    /\ UNCHANGED <<lock, pc, vsize, left, first, small>>

FreeMore(v) ==
    /\ pc[v] = "merging" /\ loc.ext # Null
    /\ LET size == Size(heap, loc.ext) IN
         /\ heap' = MergeAndInsert(heap, loc.ext, size)
         /\ loc' = [loc EXCEPT !.ext = NextExt(heap, loc.ext),
                               !.freed = @ + size]
    /\ UNCHANGED <<lock, pc, vsize, left, first, small>>

FreeDone(v) ==
    /\ pc[v] = "merging" /\ loc.ext = Null
    /\ heap' = [heap EXCEPT !.size_used = @ - loc.freed]
    /\ Unlock(v)
    /\ first' = [first EXCEPT ![v] = Null]
    /\ small' = [small EXCEPT ![v] = Null]
    /\ vsize' = [vsize EXCEPT ![v] = 0]
    /\ left' = [left EXCEPT ![v] = 0]
    /\ Goto(v, "none")

----------------------------------------------------------------------------

Next ==
    \E v \in Values :
       \/ \E size \in Sizes : PutStart(v, size)
       \/ AllocLock(v) \/ AllocMore(v) \/ AllocReturn(v)
       \/ Evicted(v) \/ EvictFailed(v) \/ Fill(v)
       \/ Drop(v) \/ FreeLock(v) \/ FreeMore(v) \/ FreeDone(v)

Spec == Init /\ [][Next]_vars

----------------------------------------------------------------------------
(* Properties *)

FreeList == Extents(heap, heap.first_extent)

\* The extents a value owns; of a value that is being freed, those that are left.
Owned(v) == Extents(heap, IF pc[v] = "merging" THEN loc.ext ELSE first[v])

\* The free list (Null) and the list of each value.
Lists == Values \cup {Null}
ListOf(x) == IF x = Null THEN FreeList ELSE Owned(x)

Pool == new_addr .. new_addr + new_size - 1

\* The cells of an extent, and with its header and its footer.
ExtentCells(ext) == ext.ptr .. ext.ptr + ext.size - 1
EntryCells(ext) == HeaderOf(ext.ptr) .. ext.ptr + ext.size

\* The cells that hold the bytes of a value.
Bytes(v) == UNION {ExtentCells(Owned(v)[i]) : i \in DOMAIN Owned(v)}

\* Whatever was split, merged and handed out before, every cell between the
\* guards belongs to exactly one heap entry, the entry is at one place of one
\* list (the free list or that of one value), it does not reach outside the
\* guards, and its two tags tell its size and whether it is allocated.
EntriesTilePool ==
    LET entries == UNION {{[list |-> x, place |-> i, ext |-> ListOf(x)[i]] :
                             i \in DOMAIN ListOf(x)} : x \in Lists}
    IN  /\ \A a \in Pool : \E e \in entries :
             \A f \in entries : a \in EntryCells(f.ext) <=> f = e
        /\ \A e \in entries :
             LET header == heap.mem[HeaderOf(e.ext.ptr)]
                 footer == heap.mem[e.ext.ptr + e.ext.size]
             IN  /\ EntryCells(e.ext) \subseteq Pool
                 /\ header.size = e.ext.size /\ footer.size = e.ext.size
                 /\ header.allocated = (e.list # Null)
                 /\ footer.allocated = (e.list # Null)

\* "heap entries were not merged" (tests/vmemcache_test_mt.c): no two free
\* entries are neighbours, so that an empty cache is one free entry again.
FreeEntriesMerged ==
    \A i, j \in DOMAIN FreeList :
        FreeList[i].ptr + FreeList[i].size + HFER_SIZE # FreeList[j].ptr

\* The statistics are exact: the number of free entries always, the used size
\* whenever the lock is free.  size_used is unsigned and read without the lock:
\* also in the middle of a call, when an extent has been given back before the
\* call's allocations are added, it is never below zero.
StatsExact ==
    /\ heap.entries = Len(FreeList)
    /\ heap.size_used \in 0 .. new_size
    /\ lock = Null =>
         heap.size_used = Cardinality(UNION {Bytes(v) : v \in Values})

\* The pool is seldom a whole number of extents.  What is left over belongs to
\* the last entry in the order of addresses, which is never split any further;
\* that does no harm if it is long enough for a header and a footer and shorter
\* than an extent by as much again and once more.
RestFits ==
    LET rest == new_size % extent_size
    IN  rest = 0 \/ rest \in HFER_SIZE .. extent_size - 2 * HFER_SIZE

\* ASSERT(size_left > 0) of vmemcache_populate_extents: no iteration of the loop
\* that fills a value finds that all of the value has been copied already.
PopulateAssertHolds ==
    \A v \in Values : pc[v] = "fill" => Populating(heap, v).asserts

\* The assertions of vmemcache_heap.c hold, for every extent size, and if the
\* rest of the pool fits so does the one of vmemcache_populate_extents.
AssertsHold == heap.asserts /\ (RestFits => PopulateAssertHolds)

\* A complete value needs every one of its extents if the rest of the pool fits:
\* what vmcache_alloc took too much, it gave back.  For other extent sizes it may
\* keep one extent more than it needs, never two.
NoSuperfluousExtent ==
    \A v \in Values : pc[v] \in {"fill", "held"} =>
        LET exts == Owned(v)
            total == Cardinality(Bytes(v))
        IN  /\ RestFits => \A i \in DOMAIN exts : total - exts[i].size < vsize[v]
            /\ \A i, j \in DOMAIN exts :
                 i # j => total - exts[i].size - exts[j].size < vsize[v]

\* Any part of a value that is read, across the boundaries of its extents, is
\* what was put, whatever happened to the neighbouring extents in between.
ReadsBack ==
    \A v \in Values : pc[v] = "held" =>
        \A offset \in 0 .. vsize[v] + 1, vbufsize \in 0 .. vsize[v] + 1 :
            PopulateValue(heap, v, vbufsize, offset) =
                [i \in 1 .. Min({vbufsize, vsize[v] - offset}) |-> <<v, offset + i>>]

=============================================================================
