-------------------------- MODULE LifecycleProofs --------------------------
(***************************************************************************)
(* Proofs about the life of a cache (modules Lifecycle, PoolMap and Out),  *)
(* for any number of threads, each with a cache of its own, any devices,   *)
(* sizes and shards, and failures of any calls in any number.              *)
(***************************************************************************)
EXTENDS Lifecycle, TLAPS

----------------------------------------------------------------------------
(* Types *)

Objects ==
    {<<"cache">>, <<"heap">>, <<"entry">>, <<"node">>} \union IndexParts \union ReplParts
Kinds == {"null", "tmp", "dax"}
Errnos ==
    {"OK", "ENOMEM", "EALREADY", "EINVAL", "EBUSY", "EACCES", "EIO", "ENOENT", "ENOSPC"}

\* The places where a call may fail.
Sites ==
    {"Zalloc", "in use", "argument", "already initialized", "extent larger than cache",
     "cache too small", "Zalloc heap", "index", "repl", "access", "stat", "realpath",
     "null path", "not dax", "open sysfs", "read", "device size", "bigger than device",
     "open device", "no contiguous region", "mmap", "open dir", "mkstemp",
     "posix_fallocate", "munmap"}
Messages == [site : Sites \union {"none"}, err : Errnos]

\* The steps that get hold of the pool, and all others.
PoolPcs ==
    {"type", "size", "daxopen", "daxmap", "tmpsize", "tmpopen", "block", "umask",
     "mkstemp", "unmask", "unlink", "unblock", "fallocate", "tmpmap", "close"}
Pcs ==
    PoolPcs \union
    {"idle", "heap", "index", "repl", "destroy_index", "destroy_heap", "unmap", "fail",
     "delete_repl", "delete_index", "delete_heap", "delete_map", "delete_cache"}

OutTypeOK ==
    /\ errno \in [Threads -> Errnos]
    /\ errormsg \in [Threads -> Messages]
    /\ failed \in [Threads -> Messages]

PoolTypeOK ==
    /\ pc \in [Threads -> Pcs]
    /\ path \in [Threads -> Paths]
    /\ size \in [Threads -> Nat]
    /\ addr \in [Threads -> Kinds]
    /\ maps \in [Threads -> Nat]
    /\ lost \in [Threads -> Kinds]
    /\ fd \in [Threads -> BOOLEAN]
    /\ file \in [Threads -> {"none", "named", "unlinked", "left"}]
    /\ sigmask \in [Threads -> {"open", "full"}]
    /\ prev_umask \in [Threads -> {"user", "0077"}]
    /\ umask \in {"user", "0077"}
    /\ overlap \in BOOLEAN

ObjTypeOK ==
    /\ ready \in [Threads -> BOOLEAN]
    /\ repl_p \in [Threads -> {"LRU", "NONE"}]
    /\ ptrs \in [Threads -> SUBSET {"heap", "index", "repl"}]
    /\ live \in [Threads -> SUBSET Objects]
    /\ queued \in [Threads -> BOOLEAN]

LifeTypeOK == OutTypeOK /\ PoolTypeOK /\ ObjTypeOK

----------------------------------------------------------------------------
(* The inductive invariant: for every step of a call, what the thread owns,  *)
(* what it has mapped and open, which signals it has blocked, and which      *)
(* failure the application would be told about.                              *)

Using(t) == (pc[t] = "idle" /\ ready[t]) \/ pc[t] = "delete_repl"

\* All that belongs to a cache in use; the ring may be missing.
Complete(t) ==
    /\ ready[t]
    /\ ptrs[t] = {"heap", "index", "repl"}
    /\ live[t] \ {<<"ring">>, <<"entry">>, <<"node">>} =
          {<<"cache">>, <<"heap">>, <<"repl">>} \union IndexParts
          \union IF repl_p[t] = "LRU" THEN {<<"head">>} ELSE {}

ObjInv(t) ==
    /\ pc[t] = "idle" /\ ~ready[t] => live[t] \in {{}, {<<"cache">>}} /\ ptrs[t] = {}
    /\ pc[t] \in PoolPcs \union {"heap", "unmap", "fail"} =>
          ~ready[t] /\ live[t] = {<<"cache">>} /\ ptrs[t] = {}
    /\ pc[t] \in {"index", "destroy_heap"} =>
          ~ready[t] /\ live[t] = {<<"cache">>, <<"heap">>} /\ ptrs[t] = {"heap"}
    /\ pc[t] \in {"repl", "destroy_index"} =>
          /\ ~ready[t] /\ ptrs[t] = {"heap", "index"}
          /\ live[t] = {<<"cache">>, <<"heap">>} \union IndexParts
    /\ Using(t) => Complete(t)
    /\ pc[t] = "delete_index" =>
          live[t] \ {<<"entry">>} = {<<"cache">>, <<"heap">>} \union IndexParts
    /\ pc[t] = "delete_heap" => live[t] = {<<"cache">>, <<"heap">>}
    /\ pc[t] \in {"delete_map", "delete_cache"} => live[t] = {<<"cache">>}
    /\ queued[t] => Using(t) /\ <<"entry">> \in live[t]

Unmapped(t) == maps[t] = 0 /\ addr[t] = "null"

Mapped(t) ==
    /\ addr[t] # "null"
    /\ 0 < size[t] /\ size[t] <= maps[t]
    /\ addr[t] = "tmp" => maps[t] = size[t] /\ size[t] >= VMEMCACHE_MIN_POOL

MapInv(t) ==
    /\ pc[t] \in (PoolPcs \ {"close"}) \union {"fail"} => Unmapped(t)
    /\ pc[t] = "close" => Unmapped(t) \/ Mapped(t)
    /\ pc[t] \in {"heap", "index", "repl", "destroy_index", "destroy_heap", "unmap",
                  "delete_repl", "delete_index", "delete_heap", "delete_map"} => Mapped(t)
    /\ pc[t] = "idle" => IF ready[t] THEN Mapped(t) ELSE Unmapped(t)
    /\ pc[t] = "delete_cache" => maps[t] = 0
    /\ pc[t] \in {"type", "size", "tmpsize"} => size[t] = 0 \/ size[t] >= VMEMCACHE_MIN_POOL
    /\ pc[t] \in {"size", "daxopen", "daxmap"} => path[t] \in Devices
    /\ pc[t] \in {"daxopen", "daxmap"} => 0 < size[t] /\ size[t] <= DaxSize[path[t]]
    /\ pc[t] \in {"tmpopen", "block", "umask", "mkstemp", "unmask", "unlink", "unblock",
                  "fallocate", "tmpmap"} => size[t] >= VMEMCACHE_MIN_POOL
    /\ lost[t] # "tmp"

\* The steps of util_tmpfile_mkstemp that run with all signals blocked, and those
\* at which a descriptor may be open.
Blocked == {"umask", "mkstemp", "unmask", "unlink", "unblock"}
Opened == {"daxmap", "unmask", "unlink", "unblock", "fallocate", "tmpmap", "close"}

FileInv(t) ==
    /\ fd[t] => pc[t] \in Opened
    /\ sigmask[t] = IF pc[t] \in Blocked THEN "full" ELSE "open"
    /\ file[t] = "named" => fd[t] /\ pc[t] \in {"unmask", "unlink"}

\* The mode mask of the process is the user's outside the calls that exchange it,
\* and as long as no two of them overlapped, each knows what to put back.
Masking(t) == pc[t] \in {"mkstemp", "unmask"}

UmaskInv ==
    ~overlap =>
        /\ \A t, u \in Threads : Masking(t) /\ Masking(u) => t = u
        /\ \A t \in Threads : Masking(t) => prev_umask[t] = "user"
        /\ (\A t \in Threads : ~Masking(t)) => umask = "user"

\* The application would be told the truth about the failure.
Told(t) ==
    /\ errno[t] = failed[t].err
    /\ errno[t] = "OK" => failed[t].site = "device size"
    /\ failed[t].site \notin Speechless =>
          /\ errormsg[t].site = failed[t].site
          /\ errormsg[t].err \in {"OK", errno[t]}

\* Up to the creation of the file, errno may be overwritten: nothing has failed.
Innocent(t) ==
    \/ pc[t] \in {"type", "tmpsize", "tmpopen", "block", "umask", "mkstemp", "fallocate"}
    \/ pc[t] \in {"unmask", "unlink", "unblock"} /\ fd[t]

ErrInv(t) ==
    /\ failed[t] # Fine => Told(t)
    /\ Innocent(t) => failed[t] = Fine

LifeInv ==
    /\ LifeTypeOK
    /\ \A t \in Threads : ObjInv(t) /\ MapInv(t) /\ FileInv(t) /\ ErrInv(t)
    /\ UmaskInv
    /\ NoUseOfFreed

----------------------------------------------------------------------------
(* What a step does to errno, to the message and to the history of failures. *)

\* Something fails with an errno, and with a message unless it is speechless.
FailsWith(t, site, e) ==
    /\ e = "OK" => site = "device size"
    /\ \/ Perror(t, site, e)
       \/ Report(t, site, e)
       \/ site \in Speechless /\ Silent(t, site, e)

Failing(t) == \E site \in Sites, e \in Errnos : FailsWith(t, site, e)

Saving(t) ==
    /\ \E e \in Errnos : Saved(t, e)
    /\ UNCHANGED <<errormsg, failed>>

\* A failure of a given kind.
LEMMA OneFailure ==
    ASSUME NEW t, NEW site \in Sites, NEW e \in Errnos, FailsWith(t, site, e)
    PROVE  Failing(t)
BY DEF Failing

\* The failures that the system calls of the pool meet.
LEMMA PoolFailures ==
    ASSUME NEW t
    PROVE  TypeFails(t) \/ TypeRefused(t) \/ DaxSizeFails(t) \/ MapFails(t) => Failing(t)
<1>1. ASSUME TypeFails(t) PROVE Failing(t)
  <2>1. PICK call \in TypeCalls(path[t]) : Perror(t, call, "EACCES")
    BY <1>1 DEF TypeFails
  <2>2. call \in Sites /\ "EACCES" \in Errnos
    BY DEF TypeCalls, Sites, Errnos
  <2>3. FailsWith(t, call, "EACCES")
    BY <2>1 DEF FailsWith
  <2> QED  BY <2>2, <2>3, OneFailure
<1>2. ASSUME TypeRefused(t) PROVE Failing(t)
  <2>1. /\ "null path" \in Sites /\ "not dax" \in Sites /\ "EINVAL" \in Errnos
        /\ "not dax" \in Speechless
    BY DEF Sites, Errnos, Speechless
  <2>2. FailsWith(t, "null path", "EINVAL") \/ FailsWith(t, "not dax", "EINVAL")
    BY <1>2, <2>1 DEF TypeRefused, FailsWith
  <2> QED  BY <2>1, <2>2, OneFailure
<1>3. ASSUME DaxSizeFails(t) PROVE Failing(t)
  <2>1. ASSUME NEW call \in {"stat", "open sysfs", "read"}, Perror(t, call, "EIO")
        PROVE  Failing(t)
    <3>1. call \in Sites /\ "EIO" \in Errnos
      BY DEF Sites, Errnos
    <3>2. FailsWith(t, call, "EIO")
      BY <2>1 DEF FailsWith
    <3> QED  BY <3>1, <3>2, OneFailure
  <2>2. ASSUME Report(t, "device size", "OK") PROVE Failing(t)
    <3>1. "device size" \in Sites /\ "OK" \in Errnos
      BY DEF Sites, Errnos
    <3>2. FailsWith(t, "device size", "OK")
      BY <2>2 DEF FailsWith
    <3> QED  BY <3>1, <3>2, OneFailure
  <2> QED  BY <1>1, <1>3, <2>1, <2>2 DEF DaxSizeFails
<1>4. ASSUME MapFails(t) PROVE Failing(t)
  <2>1. "no contiguous region" \in Sites /\ "mmap" \in Sites /\ "ENOMEM" \in Errnos
    BY DEF Sites, Errnos
  <2>2. FailsWith(t, "no contiguous region", "ENOMEM") \/ FailsWith(t, "mmap", "ENOMEM")
    BY <1>4 DEF MapFails, FailsWith
  <2> QED  BY <2>1, <2>2, OneFailure
<1> QED  BY <1>1, <1>2, <1>3, <1>4

\* After a failure the application would be told the truth about it.
LEMMA FailingTells ==
    ASSUME OutTypeOK, NEW t \in Threads, Failing(t)
    PROVE  OutTypeOK' /\ Told(t)'
<1>0. PICK site \in Sites, e \in Errnos : FailsWith(t, site, e)
  BY DEF Failing
<1>1. /\ e = "OK" => site = "device size"
      /\ \/ Perror(t, site, e)
         \/ Report(t, site, e)
         \/ site \in Speechless /\ Silent(t, site, e)
  BY <1>0 DEF FailsWith
<1> DEFINE m == [site |-> site, err |-> e]
<1>2. m \in Messages /\ m.site = site /\ m.err = e
      /\ [site |-> site, err |-> "OK"] \in Messages
  BY DEF Messages, Errnos
<1> HIDE DEF m
<1>3. errno' = [errno EXCEPT ![t] = e] /\ failed' = [failed EXCEPT ![t] = m]
  BY <1>1 DEF Perror, Report, Silent, Restored, m
<1>4. /\ errno' \in [Threads -> Errnos] /\ failed' \in [Threads -> Messages]
      /\ errno'[t] = e /\ failed'[t] = m
  BY <1>2, <1>3 DEF OutTypeOK
<1>5. CASE Perror(t, site, e)
  <2>1. errormsg' = [errormsg EXCEPT ![t] = m]
    BY <1>5 DEF Perror, m
  <2>2. errormsg' \in [Threads -> Messages] /\ errormsg'[t] = m
    BY <1>2, <2>1 DEF OutTypeOK
  <2> QED  BY <1>1, <1>2, <1>4, <2>2 DEF OutTypeOK, Told
<1>6. CASE Report(t, site, e)
  <2> DEFINE r == [site |-> site, err |-> "OK"]
  <2>1. errormsg' = [errormsg EXCEPT ![t] = r]
    BY <1>6 DEF Report
  <2>2. errormsg' \in [Threads -> Messages] /\ errormsg'[t] = r
    BY <1>2, <2>1 DEF OutTypeOK
  <2>3. r.site = site /\ r.err = "OK"
    OBVIOUS
  <2> HIDE DEF r
  <2> QED  BY <1>1, <1>2, <1>4, <2>2, <2>3 DEF OutTypeOK, Told
<1>7. CASE site \in Speechless /\ Silent(t, site, e)
  <2>1. errormsg' = errormsg
    BY <1>7 DEF Silent
  <2> QED  BY <1>1, <1>2, <1>4, <1>7, <2>1 DEF OutTypeOK, Told
<1> QED  BY <1>1, <1>5, <1>6, <1>7

----------------------------------------------------------------------------
(* Errors.  A step fails and the call takes an error exit, or keeps what the *)
(* application would be told.                                                *)

\* A step that fails.
LEMMA ErrFails ==
    ASSUME OutTypeOK, NEW t \in Threads, Failing(t), ~Innocent(t)'
    PROVE  ErrInv(t)'
BY FailingTells DEF ErrInv

\* A call that succeeds.
LEMMA ErrSucceeds ==
    ASSUME OutTypeOK, NEW t \in Threads, Succeeds(t)
    PROVE  ErrInv(t)'
BY DEF ErrInv, Succeeds, OutTypeOK

\* A step that leaves errno, message and failure alone.
LEMMA ErrKept ==
    ASSUME NEW t \in Threads, ErrInv(t),
           UNCHANGED <<errno[t], errormsg[t], failed[t]>>,
           Innocent(t)' => Innocent(t)
    PROVE  ErrInv(t)'
BY DEF ErrInv, Told

\* A step that overwrites errno before anything has failed.
LEMMA ErrSaved ==
    ASSUME NEW t \in Threads, ErrInv(t), Innocent(t), UNCHANGED failed
    PROVE  ErrInv(t)'
BY DEF ErrInv

\* The steps that get hold of the pool.
LEMMA ErrStepPool ==
    ASSUME OutTypeOK, PoolTypeOK, NEW t \in Threads, ErrInv(t), FileInv(t), PoolStep(t)
    PROVE  ErrInv(t)'
<1> USE DEF PoolTypeOK, Goto, At
<1>1. CASE FileType(t)
  <2>1. ASSUME TypeFails(t) \/ TypeRefused(t), Goto(t, "fail") PROVE ErrInv(t)'
    BY <2>1, PoolFailures, ErrFails DEF Innocent
  <2>2. ASSUME UNCHANGED failed PROVE ErrInv(t)'
    BY <1>1, <2>2, ErrSaved DEF FileType, Innocent
  <2> QED  BY <1>1, <2>1, <2>2 DEF FileType
<1>2. CASE DaxLength(t)
  <2>1. ASSUME DaxSizeFails(t), Goto(t, "fail") PROVE ErrInv(t)'
    BY <2>1, PoolFailures, ErrFails DEF Innocent
  <2>2. ASSUME Report(t, "bigger than device", "EINVAL"), Goto(t, "fail")
        PROVE  ErrInv(t)'
    <3>1. Failing(t)
      BY <2>2, OneFailure DEF FailsWith, Sites, Errnos
    <3> QED  BY <2>2, <3>1, ErrFails DEF Innocent
  <2>3. ASSUME NoError, Goto(t, "daxopen") PROVE ErrInv(t)'
    BY <2>3, ErrKept DEF Innocent, NoError, outVars
  <2> QED  BY <1>2, <2>1, <2>2, <2>3 DEF DaxLength
<1>3. CASE DaxOpen(t)
  <2>1. ASSUME Perror(t, "open device", "EACCES"), Goto(t, "fail") PROVE ErrInv(t)'
    <3>1. Failing(t)
      BY <2>1, OneFailure DEF FailsWith, Sites, Errnos
    <3> QED  BY <2>1, <3>1, ErrFails DEF Innocent
  <2>2. ASSUME NoError, Goto(t, "daxmap") PROVE ErrInv(t)'
    BY <2>2, ErrKept DEF Innocent, NoError, outVars
  <2> QED  BY <1>3, <2>1, <2>2 DEF DaxOpen
<1>4. CASE DaxMap(t) \/ TmpMap(t)
  <2>1. ~Innocent(t)'
    BY <1>4 DEF DaxMap, TmpMap, Innocent
  <2>2. ASSUME DaxSizeFails(t) \/ MapFails(t) PROVE ErrInv(t)'
    BY <2>1, <2>2, PoolFailures, ErrFails
  <2>3. ASSUME NoError PROVE ErrInv(t)'
    BY <2>1, <2>3, ErrKept DEF NoError, outVars
  <2> QED  BY <1>4, <2>2, <2>3 DEF DaxMap, TmpMap
<1>5. CASE TmpSize(t) \/ MkstempBlock(t) \/ MkstempUmask(t) \/ MkstempUnmask(t)
           \/ MkstempUnlink(t)
  <2>1. NoError
    BY <1>5 DEF TmpSize, MkstempBlock, MkstempUmask, MkstempUnmask, MkstempUnlink
  <2>2. Innocent(t)' => Innocent(t)
    BY <1>5 DEF TmpSize, MkstempBlock, MkstempUmask, MkstempUnmask, MkstempUnlink,
                Innocent, osVars
  <2> QED  BY <2>1, <2>2, ErrKept DEF NoError, outVars
<1>6. CASE TmpOpen(t)
  <2>1. ASSUME Perror(t, "open dir", "ENOENT") \/ Perror(t, "open dir", "EACCES"),
               Goto(t, "fail")
        PROVE  ErrInv(t)'
    <3>1. Failing(t)
      BY <2>1, OneFailure DEF FailsWith, Sites, Errnos
    <3> QED  BY <2>1, <3>1, ErrFails DEF Innocent
  <2>2. ASSUME NoError PROVE ErrInv(t)'
    BY <1>6, <2>2, ErrKept DEF TmpOpen, Innocent, NoError, outVars
  <2> QED  BY <1>6, <2>1, <2>2 DEF TmpOpen
<1>7. CASE Mkstemp(t)
  <2>1. ASSUME Perror(t, "mkstemp", "EACCES"), UNCHANGED fd PROVE ErrInv(t)'
    <3>1. Failing(t)
      BY <2>1, OneFailure DEF FailsWith, Sites, Errnos
    <3>2. ~fd[t]
      BY <1>7 DEF Mkstemp, FileInv, Opened
    <3> QED  BY <1>7, <2>1, <3>1, <3>2, ErrFails DEF Mkstemp, Innocent
  <2>2. ASSUME NoError PROVE ErrInv(t)'
    BY <1>7, <2>2, ErrKept DEF Mkstemp, Innocent, NoError, outVars
  <2> QED  BY <1>7, <2>1, <2>2 DEF Mkstemp
<1>8. CASE MkstempUnblock(t) \/ CloseFd(t)
  <2>1. UNCHANGED <<errno[t], errormsg, failed>>
    BY <1>8 DEF MkstempUnblock, CloseFd, Saved, OutTypeOK
  <2>2. Innocent(t)' => Innocent(t)
    BY <1>8 DEF MkstempUnblock, CloseFd, Innocent
  <2> QED  BY <2>1, <2>2, ErrKept
<1>9. CASE Fallocate(t)
  <2>1. ASSUME Perror(t, "posix_fallocate", "ENOSPC"), Goto(t, "close") PROVE ErrInv(t)'
    <3>1. Failing(t)
      BY <2>1, OneFailure DEF FailsWith, Sites, Errnos
    <3> QED  BY <2>1, <3>1, ErrFails DEF Innocent
  <2>2. ASSUME UNCHANGED failed PROVE ErrInv(t)'
    BY <1>9, <2>2, ErrSaved DEF Fallocate, Innocent
  <2> QED  BY <1>9, <2>1, <2>2 DEF Fallocate
<1> QED
  BY <1>1, <1>2, <1>3, <1>4, <1>5, <1>6, <1>7, <1>8, <1>9 DEF PoolStep

\* util_unmap, from the error exit and from vmemcache_delete.
LEMMA ErrUnmap ==
    ASSUME OutTypeOK, NEW t \in Threads, ErrInv(t), util_unmap(t), ~Innocent(t)'
    PROVE  ErrInv(t)'
<1>1. ASSUME Perror(t, "munmap", "EINVAL") PROVE ErrInv(t)'
  <2>1. Failing(t)
    BY <1>1, OneFailure DEF FailsWith, Sites, Errnos
  <2> QED  BY <2>1, ErrFails
<1>2. ASSUME NoError PROVE ErrInv(t)'
  BY <1>2, ErrKept DEF NoError, outVars
<1> QED  BY <1>1, <1>2 DEF util_unmap, UnmapMemory

\* The other steps of vmemcache_add.
LEMMA ErrStepAdd ==
    ASSUME OutTypeOK, PoolTypeOK, NEW t \in Threads, ErrInv(t),
           \/ AddStart(t) \/ HeapCreate(t) \/ IndexNew(t) \/ ReplInit(t)
           \/ UndoIndex(t) \/ UndoHeap(t) \/ UndoMap(t) \/ AddFails(t)
    PROVE  ErrInv(t)'
<1> USE DEF PoolTypeOK, Goto, At
<1>1. CASE AddStart(t)
  <2>1. CASE AddRefused(t) /\ UNCHANGED <<pc, path>>
    <3>1. Failing(t)
      BY <2>1, OneFailure DEF AddRefused, FailsWith, Sites, Errnos
    <3> QED  BY <1>1, <2>1, <3>1, ErrFails DEF AddStart, Innocent
  <2>2. CASE Succeeds(t)
    BY <2>2, ErrSucceeds
  <2> QED  BY <1>1, <2>1, <2>2 DEF AddStart
<1>2. CASE HeapCreate(t)
  <2>1. ~Innocent(t)'
    BY <1>2 DEF HeapCreate, Innocent
  <2>2. CASE Perror(t, "Zalloc heap", "ENOMEM")
    <3>1. Failing(t)
      BY <2>2, OneFailure DEF FailsWith, Sites, Errnos
    <3> QED  BY <2>1, <3>1, ErrFails
  <2>3. CASE NoError
    BY <2>1, <2>3, ErrKept DEF NoError, outVars
  <2> QED  BY <1>2, <2>2, <2>3 DEF HeapCreate
<1>3. CASE IndexNew(t) \/ ReplInit(t)
  <2>1. ~Innocent(t)'
    BY <1>3 DEF IndexNew, ReplInit, ReplMade, Innocent
  <2>2. CASE Silent(t, "index", "ENOMEM") \/ Silent(t, "repl", "ENOMEM")
    <3>1. Failing(t)
      BY <2>2, OneFailure DEF FailsWith, Sites, Errnos, Speechless
    <3> QED  BY <2>1, <3>1, ErrFails
  <2>3. CASE NoError
    BY <2>1, <2>3, ErrKept DEF NoError, outVars
  <2> QED  BY <1>3, <2>2, <2>3 DEF IndexNew, ReplInit
<1>4. CASE UndoIndex(t) \/ UndoHeap(t) \/ AddFails(t)
  <2>1. ~Innocent(t)' /\ NoError
    BY <1>4 DEF UndoIndex, UndoHeap, AddFails, Innocent
  <2> QED  BY <2>1, ErrKept DEF NoError, outVars
<1>5. CASE UndoMap(t)
  BY <1>5, ErrUnmap DEF UndoMap, Innocent
<1> QED  BY <1>1, <1>2, <1>3, <1>4, <1>5

\* vmemcache_new, the setters, the cache in use and vmemcache_delete.
LEMMA ErrStepRest ==
    ASSUME OutTypeOK, PoolTypeOK, NEW t \in Threads, ErrInv(t),
           \/ vmemcache_new(t) \/ vmemcache_set_eviction_policy(t)
           \/ vmemcache_set_size(t) \/ vmemcache_set_extent_size(t)
           \/ Put(t) \/ Hit(t)
           \/ DeleteStart(t) \/ DeleteRepl(t) \/ DeleteIndex(t) \/ DeleteHeap(t)
           \/ DeleteMap(t) \/ DeleteCache(t)
    PROVE  ErrInv(t)'
<1> USE DEF PoolTypeOK, Goto, At
<1>1. CASE vmemcache_new(t)
  <2>1. CASE Perror(t, "Zalloc", "ENOMEM")
    <3>1. Failing(t)
      BY <2>1, OneFailure DEF FailsWith, Sites, Errnos
    <3> QED  BY <1>1, <3>1, ErrFails DEF vmemcache_new, Innocent
  <2>2. CASE Succeeds(t)
    BY <2>2, ErrSucceeds
  <2> QED  BY <1>1, <2>1, <2>2 DEF vmemcache_new
<1>2. CASE vmemcache_set_eviction_policy(t) \/ vmemcache_set_size(t)
           \/ vmemcache_set_extent_size(t)
  <2>1. ~Innocent(t)'
    BY <1>2 DEF vmemcache_set_eviction_policy, vmemcache_set_size,
                vmemcache_set_extent_size, Setter, Innocent
  <2>2. CASE Report(t, "in use", "EALREADY") \/ Report(t, "argument", "EINVAL")
    <3>1. Failing(t)
      BY <2>2, OneFailure DEF FailsWith, Sites, Errnos
    <3> QED  BY <2>1, <3>1, ErrFails
  <2>3. CASE Succeeds(t)
    BY <2>3, ErrSucceeds
  <2> QED  BY <1>2, <2>2, <2>3 DEF vmemcache_set_eviction_policy, vmemcache_set_size,
                                   vmemcache_set_extent_size, Setter
<1>3. CASE Put(t) \/ Hit(t) \/ DeleteStart(t)
  BY <1>3, ErrSucceeds DEF Put, Hit, DeleteStart
<1>4. CASE DeleteRepl(t) \/ DeleteIndex(t) \/ DeleteHeap(t) \/ DeleteCache(t)
  <2>1. ~Innocent(t)' /\ NoError
    BY <1>4 DEF DeleteRepl, DeleteIndex, DeleteHeap, DeleteCache, DeleteFrom, Innocent
  <2> QED  BY <2>1, ErrKept DEF NoError, outVars
<1>5. CASE DeleteMap(t)
  <2>1. ~Innocent(t)'
    BY <1>5 DEF DeleteMap, DeleteFrom, Innocent
  <2> QED  BY <1>5, <2>1, ErrUnmap DEF DeleteMap
<1> QED  BY <1>1, <1>2, <1>3, <1>4, <1>5

----------------------------------------------------------------------------
(* Types, and what a step of one thread leaves alone of another. *)

SameErrors(u) == UNCHANGED <<errno[u], errormsg[u], failed[u]>>
SamePool(u) ==
    UNCHANGED <<pc[u], path[u], size[u], addr[u], maps[u], lost[u], fd[u], file[u],
                sigmask[u], prev_umask[u]>>
SameObjects(u) == UNCHANGED <<ready[u], repl_p[u], ptrs[u], live[u], queued[u]>>

\* The four things that a step may do to errno, message and failure.
OutStep(t) == Failing(t) \/ Succeeds(t) \/ Saving(t) \/ NoError

\* Those that get hold of the pool.
LEMMA OutStepPool ==
    ASSUME OutTypeOK, NEW t \in Threads, PoolStep(t)
    PROVE  OutStep(t)
<1>1. CASE FileType(t)
  <2>1. CASE TypeFails(t) \/ TypeRefused(t)
    BY <2>1, PoolFailures DEF OutStep
  <2>2. CASE Saved(t, IF path[t] = "missing" THEN "ENOENT" ELSE errno[t])
             /\ UNCHANGED <<errormsg, failed>>
    <3>1. (IF path[t] = "missing" THEN "ENOENT" ELSE errno[t]) \in Errnos
      BY DEF OutTypeOK, Errnos
    <3> QED  BY <2>2, <3>1 DEF OutStep, Saving
  <2> QED  BY <1>1, <2>1, <2>2 DEF FileType
<1>2. CASE DaxLength(t)
  <2>1. CASE Report(t, "bigger than device", "EINVAL")
    <3>1. Failing(t)
      BY <2>1, OneFailure DEF FailsWith, Sites, Errnos
    <3> QED  BY <3>1 DEF OutStep
  <2> QED  BY <1>2, <2>1, PoolFailures DEF DaxLength, OutStep
<1>3. CASE DaxOpen(t)
  <2>1. CASE Perror(t, "open device", "EACCES")
    <3>1. Failing(t)
      BY <2>1, OneFailure DEF FailsWith, Sites, Errnos
    <3> QED  BY <3>1 DEF OutStep
  <2> QED  BY <1>3, <2>1 DEF DaxOpen, OutStep
<1>4. CASE DaxMap(t) \/ TmpMap(t)
  BY <1>4, PoolFailures DEF DaxMap, TmpMap, OutStep
<1>5. CASE TmpSize(t) \/ MkstempBlock(t) \/ MkstempUmask(t) \/ MkstempUnmask(t)
           \/ MkstempUnlink(t)
  BY <1>5 DEF TmpSize, MkstempBlock, MkstempUmask, MkstempUnmask, MkstempUnlink, OutStep
<1>6. CASE TmpOpen(t)
  <2>1. CASE Perror(t, "open dir", "ENOENT") \/ Perror(t, "open dir", "EACCES")
    <3>1. Failing(t)
      BY <2>1, OneFailure DEF FailsWith, Sites, Errnos
    <3> QED  BY <3>1 DEF OutStep
  <2> QED  BY <1>6, <2>1 DEF TmpOpen, OutStep
<1>7. CASE Mkstemp(t)
  <2>1. CASE Perror(t, "mkstemp", "EACCES")
    <3>1. Failing(t)
      BY <2>1, OneFailure DEF FailsWith, Sites, Errnos
    <3> QED  BY <3>1 DEF OutStep
  <2> QED  BY <1>7, <2>1 DEF Mkstemp, OutStep
<1>8. CASE MkstempUnblock(t) \/ CloseFd(t)
  <2>1. errno[t] \in Errnos
    BY DEF OutTypeOK
  <2>2. Saved(t, errno[t]) /\ UNCHANGED <<errormsg, failed>>
    BY <1>8 DEF MkstempUnblock, CloseFd
  <2> QED  BY <2>1, <2>2 DEF OutStep, Saving
<1>9. CASE Fallocate(t)
  <2>1. CASE Perror(t, "posix_fallocate", "ENOSPC")
    <3>1. Failing(t)
      BY <2>1, OneFailure DEF FailsWith, Sites, Errnos
    <3> QED  BY <3>1 DEF OutStep
  <2>2. CASE Saved(t, "OK") /\ UNCHANGED <<errormsg, failed>>
    <3>1. "OK" \in Errnos
      BY DEF Errnos
    <3> QED  BY <2>2, <3>1 DEF OutStep, Saving
  <2> QED  BY <1>9, <2>1, <2>2 DEF Fallocate
<1> QED
  BY <1>1, <1>2, <1>3, <1>4, <1>5, <1>6, <1>7, <1>8, <1>9 DEF PoolStep

\* util_unmap.
LEMMA OutStepUnmap ==
    ASSUME NEW t, util_unmap(t) PROVE OutStep(t)
<1>1. CASE Perror(t, "munmap", "EINVAL")
  <2>1. Failing(t)
    BY <1>1, OneFailure DEF FailsWith, Sites, Errnos
  <2> QED  BY <2>1 DEF OutStep
<1> QED  BY <1>1 DEF util_unmap, UnmapMemory, OutStep

\* All steps.
LEMMA OutStepAlways ==
    ASSUME OutTypeOK, NEW t \in Threads, AddStart(t) \/ Step(t)
    PROVE  OutStep(t)
<1>1. CASE AddStart(t)
  <2>1. CASE AddRefused(t)
    <3>1. Failing(t)
      BY <2>1, OneFailure DEF AddRefused, FailsWith, Sites, Errnos
    <3> QED  BY <3>1 DEF OutStep
  <2> QED  BY <1>1, <2>1 DEF AddStart, OutStep
<1>2. CASE HeapCreate(t)
  <2>1. CASE Perror(t, "Zalloc heap", "ENOMEM")
    <3>1. Failing(t)
      BY <2>1, OneFailure DEF FailsWith, Sites, Errnos
    <3> QED  BY <3>1 DEF OutStep
  <2> QED  BY <1>2, <2>1 DEF HeapCreate, OutStep
<1>3. CASE IndexNew(t) \/ ReplInit(t)
  <2>1. CASE Silent(t, "index", "ENOMEM") \/ Silent(t, "repl", "ENOMEM")
    <3>1. Failing(t)
      BY <2>1, OneFailure DEF FailsWith, Sites, Errnos, Speechless
    <3> QED  BY <3>1 DEF OutStep
  <2> QED  BY <1>3, <2>1 DEF IndexNew, ReplInit, OutStep
<1>4. CASE UndoIndex(t) \/ UndoHeap(t) \/ AddFails(t)
  BY <1>4 DEF UndoIndex, UndoHeap, AddFails, OutStep
<1>5. CASE UndoMap(t) \/ DeleteMap(t)
  BY <1>5, OutStepUnmap DEF UndoMap, DeleteMap
<1>6. CASE vmemcache_new(t)
  <2>1. CASE Perror(t, "Zalloc", "ENOMEM")
    <3>1. Failing(t)
      BY <2>1, OneFailure DEF FailsWith, Sites, Errnos
    <3> QED  BY <3>1 DEF OutStep
  <2> QED  BY <1>6, <2>1 DEF vmemcache_new, OutStep
<1>7. CASE vmemcache_set_eviction_policy(t) \/ vmemcache_set_size(t)
           \/ vmemcache_set_extent_size(t)
  <2>1. CASE Report(t, "in use", "EALREADY") \/ Report(t, "argument", "EINVAL")
    <3>1. Failing(t)
      BY <2>1, OneFailure DEF FailsWith, Sites, Errnos
    <3> QED  BY <3>1 DEF OutStep
  <2> QED  BY <1>7, <2>1 DEF vmemcache_set_eviction_policy, vmemcache_set_size,
                             vmemcache_set_extent_size, Setter, OutStep
<1>8. CASE Put(t) \/ Hit(t) \/ DeleteStart(t)
  BY <1>8 DEF Put, Hit, DeleteStart, OutStep
<1>9. CASE DeleteRepl(t) \/ DeleteIndex(t) \/ DeleteHeap(t) \/ DeleteCache(t)
  BY <1>9 DEF DeleteRepl, DeleteIndex, DeleteHeap, DeleteCache, OutStep
<1>10. CASE GetPool(t)
  BY <1>10, OutStepPool DEF GetPool
<1> QED
  BY <1>1, <1>2, <1>3, <1>4, <1>5, <1>6, <1>7, <1>8, <1>9, <1>10 DEF Step

\* Errors are the thread's own.
LEMMA OutFrame ==
    ASSUME OutTypeOK, NEW t \in Threads, OutStep(t)
    PROVE  OutTypeOK' /\ \A u \in Threads \ {t} : SameErrors(u)
<1>1. CASE Failing(t)
  <2>1. PICK site \in Sites, e \in Errnos : FailsWith(t, site, e)
    BY <1>1 DEF Failing
  <2>2. \A u \in Threads \ {t} : SameErrors(u)
    BY <2>1 DEF FailsWith, Perror, Report, Silent, Restored, SameErrors, OutTypeOK
  <2> QED  BY <1>1, <2>2, FailingTells
<1>2. CASE Succeeds(t)
  <2>1. Fine \in Messages
    BY DEF Fine, Messages, Errnos
  <2> QED  BY <1>2, <2>1 DEF Succeeds, OutTypeOK, SameErrors
<1>3. CASE Saving(t)
  BY <1>3 DEF Saving, Saved, OutTypeOK, SameErrors
<1>4. CASE NoError
  BY <1>4 DEF NoError, outVars, OutTypeOK, SameErrors
<1> QED  BY <1>1, <1>2, <1>3, <1>4 DEF OutStep

\* Rounding up to a multiple.
LEMMA RoundupFacts ==
    ASSUME NEW n \in Nat, NEW a \in Nat \ {0}
    PROVE  roundup(n, a) \in Nat /\ roundup(n, a) >= n
BY DEF roundup

\* The sizes that vmemcache_add settles on.
LEMMA PoolSizes ==
    /\ \A n \in Nat : /\ TmpPoolSize(n) \in Nat /\ TmpPoolSize(n) >= n
                      /\ n = 0 \/ n >= VMEMCACHE_MIN_POOL =>
                            TmpPoolSize(n) >= VMEMCACHE_MIN_POOL
    /\ \A n \in Nat, whole \in Nat \ {0} :
          n <= whole => /\ DaxPoolSize(n, whole) \in Nat
                        /\ 0 < DaxPoolSize(n, whole) /\ DaxPoolSize(n, whole) <= whole
<1>1. ASSUME NEW n \in Nat PROVE roundup(n, Mmap_align) \in Nat /\ roundup(n, Mmap_align) >= n
  BY PoolAssumption, RoundupFacts
<1> QED  BY <1>1, PoolAssumption DEF TmpPoolSize, DaxPoolSize

\* A step that gets hold of the pool is the thread's own, but for the mode mask.
LEMMA PoolFrame ==
    ASSUME PoolTypeOK, NEW t \in Threads, MapInv(t), PoolStep(t)
    PROVE  PoolTypeOK' /\ \A u \in Threads \ {t} : SamePool(u)
<1> USE DEF PoolTypeOK, SamePool, Goto, At, osVars, Pcs, PoolPcs
<1>1. CASE FileType(t)
  BY <1>1 DEF FileType
<1>2. CASE DaxLength(t)
  <2>1. CASE UNCHANGED size /\ Goto(t, "fail")
    BY <1>2, <2>1 DEF DaxLength
  <2>2. CASE /\ size[t] <= DaxSize[path[t]]
             /\ size' = [size EXCEPT ![t] = DaxPoolSize(size[t], DaxSize[path[t]])]
             /\ Goto(t, "daxopen")
    <3>1. path[t] \in Devices
      BY <1>2 DEF DaxLength, MapInv
    <3>2. DaxPoolSize(size[t], DaxSize[path[t]]) \in Nat
      BY <2>2, <3>1, PoolSizes, PoolAssumption
    <3> QED  BY <1>2, <2>2, <3>2 DEF DaxLength
  <2> QED  BY <1>2, <2>1, <2>2 DEF DaxLength
<1>3. CASE DaxOpen(t)
  BY <1>3 DEF DaxOpen
<1>4. CASE DaxMap(t)
  <2>1. DaxSize[path[t]] \in Nat
    BY <1>4, PoolAssumption DEF DaxMap, MapInv
  <2> QED  BY <1>4, <2>1 DEF DaxMap, MapTo, Kinds
<1>5. CASE TmpSize(t)
  <2>1. TmpPoolSize(size[t]) \in Nat
    BY PoolSizes
  <2> QED  BY <1>5, <2>1 DEF TmpSize
<1>6. CASE TmpOpen(t)
  BY <1>6 DEF TmpOpen
<1>7. CASE MkstempBlock(t)
  BY <1>7 DEF MkstempBlock
<1>8. CASE MkstempUmask(t)
  BY <1>8 DEF MkstempUmask
<1>9. CASE Mkstemp(t)
  BY <1>9 DEF Mkstemp
<1>10. CASE MkstempUnmask(t)
  BY <1>10 DEF MkstempUnmask, AfterUnmask
<1>11. CASE MkstempUnlink(t)
  BY <1>11 DEF MkstempUnlink
<1>12. CASE MkstempUnblock(t)
  BY <1>12 DEF MkstempUnblock
<1>13. CASE Fallocate(t)
  BY <1>13 DEF Fallocate
<1>14. CASE TmpMap(t)
  BY <1>14 DEF TmpMap, MapTo, Kinds
<1>15. CASE CloseFd(t)
  BY <1>15 DEF CloseFd, AfterClose
<1> QED
  BY <1>1, <1>2, <1>3, <1>4, <1>5, <1>6, <1>7, <1>8, <1>9, <1>10, <1>11, <1>12, <1>13,
     <1>14, <1>15 DEF PoolStep

----------------------------------------------------------------------------
(* The mapping and the file while a call gets hold of its pool. *)

\* A call that gets hold of the pool goes on with that, fails or has it.
LEMMA PoolMoves ==
    ASSUME PoolTypeOK, NEW t \in Threads, PoolStep(t)
    PROVE  pc[t] \in PoolPcs /\ pc'[t] \in PoolPcs \union {"heap", "fail"}
<1> USE DEF PoolTypeOK, Goto, At, PoolPcs
<1>1. CASE FileType(t) \/ DaxLength(t) \/ DaxOpen(t) \/ DaxMap(t)
  BY <1>1 DEF FileType, DaxLength, DaxOpen, DaxMap
<1>2. CASE TmpSize(t) \/ TmpOpen(t) \/ Fallocate(t) \/ TmpMap(t) \/ CloseFd(t)
  BY <1>2 DEF TmpSize, TmpOpen, Fallocate, TmpMap, CloseFd
<1>3. CASE MkstempBlock(t) \/ MkstempUmask(t) \/ Mkstemp(t)
           \/ MkstempUnmask(t) \/ MkstempUnlink(t) \/ MkstempUnblock(t)
  BY <1>3 DEF MkstempBlock, MkstempUmask, Mkstemp, MkstempUnmask, MkstempUnlink,
              MkstempUnblock
<1> QED  BY <1>1, <1>2, <1>3 DEF PoolStep

\* A step that gets hold of the pool keeps the account of the mapping.
LEMMA MapStepPool ==
    ASSUME PoolTypeOK, NEW t \in Threads, MapInv(t), PoolStep(t)
    PROVE  MapInv(t)'
<1> USE DEF PoolTypeOK, Goto, At, osVars, PoolPcs, MapInv, Mapped, Unmapped
<1>1. CASE FileType(t)
  BY <1>1 DEF FileType
<1>2. CASE DaxLength(t)
  <2>1. CASE UNCHANGED size /\ Goto(t, "fail")
    BY <1>2, <2>1 DEF DaxLength
  <2>2. CASE /\ size[t] <= DaxSize[path[t]]
             /\ size' = [size EXCEPT ![t] = DaxPoolSize(size[t], DaxSize[path[t]])]
             /\ Goto(t, "daxopen")
    <3>1. path[t] \in Devices
      BY <1>2 DEF DaxLength
    <3>2. /\ 0 < DaxPoolSize(size[t], DaxSize[path[t]])
          /\ DaxPoolSize(size[t], DaxSize[path[t]]) <= DaxSize[path[t]]
      BY <2>2, <3>1, PoolSizes, PoolAssumption
    <3> QED  BY <1>2, <2>2, <3>1, <3>2 DEF DaxLength
  <2> QED  BY <1>2, <2>1, <2>2 DEF DaxLength
<1>3. CASE DaxOpen(t)
  BY <1>3 DEF DaxOpen
<1>4. CASE DaxMap(t)
  BY <1>4 DEF DaxMap, MapTo
<1>5. CASE TmpSize(t)
  <2>1. TmpPoolSize(size[t]) >= VMEMCACHE_MIN_POOL
    BY <1>5, PoolSizes DEF TmpSize
  <2> QED  BY <1>5, <2>1 DEF TmpSize
<1>6. CASE TmpOpen(t)
  BY <1>6 DEF TmpOpen
<1>7. CASE MkstempBlock(t) \/ MkstempUmask(t) \/ Mkstemp(t)
  BY <1>7 DEF MkstempBlock, MkstempUmask, Mkstemp
<1>8. CASE MkstempUnmask(t) \/ MkstempUnlink(t) \/ MkstempUnblock(t)
  BY <1>8 DEF MkstempUnmask, MkstempUnlink, MkstempUnblock
<1>9. CASE Fallocate(t)
  BY <1>9 DEF Fallocate
<1>10. CASE TmpMap(t)
  <2>1. size[t] > 0
    BY <1>10, PoolAssumption DEF TmpMap
  <2> QED  BY <1>10, <2>1 DEF TmpMap, MapTo
<1>11. CASE CloseFd(t)
  BY <1>11 DEF CloseFd
<1> QED
  BY <1>1, <1>2, <1>3, <1>4, <1>5, <1>6, <1>7, <1>8, <1>9, <1>10, <1>11 DEF PoolStep

\* A step that gets hold of the pool keeps the account of the descriptor, of the
\* signals and of the file's name.
LEMMA FileStepPool ==
    ASSUME PoolTypeOK, NEW t \in Threads, FileInv(t), PoolStep(t)
    PROVE  FileInv(t)'
<1> USE DEF PoolTypeOK, Goto, At, osVars, FileInv, Opened, Blocked
<1>1. CASE FileType(t) \/ DaxLength(t) \/ DaxOpen(t)
  BY <1>1 DEF FileType, DaxLength, DaxOpen
<1>2. CASE DaxMap(t) \/ TmpSize(t) \/ TmpOpen(t)
  BY <1>2 DEF DaxMap, TmpSize, TmpOpen
<1>3. CASE MkstempBlock(t) \/ MkstempUmask(t) \/ Mkstemp(t)
  BY <1>3 DEF MkstempBlock, MkstempUmask, Mkstemp
<1>4. CASE MkstempUnmask(t) \/ MkstempUnlink(t) \/ MkstempUnblock(t)
  BY <1>4 DEF MkstempUnmask, MkstempUnlink, MkstempUnblock
<1>5. CASE Fallocate(t) \/ TmpMap(t) \/ CloseFd(t)
  BY <1>5 DEF Fallocate, TmpMap, CloseFd, AfterClose
<1> QED  BY <1>1, <1>2, <1>3, <1>4, <1>5 DEF PoolStep

\* As long as no two calls overlap in exchanging the mode mask, the one that has
\* exchanged it knows the user's.
LEMMA UmaskStepPool ==
    ASSUME PoolTypeOK, NEW t \in Threads, UmaskInv, PoolStep(t)
    PROVE  UmaskInv'
<1> USE DEF PoolTypeOK, Goto, At, osVars, UmaskInv, Masking
<1>1. CASE MkstempUmask(t)
  <2>1. SUFFICES ASSUME ~overlap'
                 PROVE  /\ \A v, u \in Threads : Masking(v)' /\ Masking(u)' => v = u
                        /\ \A v \in Threads : Masking(v)' => prev_umask'[v] = "user"
                        /\ (\A v \in Threads : ~Masking(v)') => umask' = "user"
    OBVIOUS
  <2>2. ~overlap /\ \A u \in Threads : ~Masking(u)
    BY <1>1, <2>1 DEF MkstempUmask
  <2>3. umask = "user"
    BY <2>2
  <2>4. \A u \in Threads : Masking(u)' <=> u = t
    BY <1>1, <2>2 DEF MkstempUmask
  <2>5. prev_umask'[t] = "user"
    BY <1>1, <2>3 DEF MkstempUmask
  <2> QED  BY <2>4, <2>5
<1>2. CASE MkstempUnmask(t)
  <2>1. SUFFICES ASSUME ~overlap'
                 PROVE  /\ \A v, u \in Threads : Masking(v)' /\ Masking(u)' => v = u
                        /\ \A v \in Threads : Masking(v)' => prev_umask'[v] = "user"
                        /\ (\A v \in Threads : ~Masking(v)') => umask' = "user"
    OBVIOUS
  <2>2. ~overlap /\ Masking(t)
    BY <1>2, <2>1 DEF MkstempUnmask
  <2>3. \A u \in Threads : ~Masking(u)'
    BY <1>2, <2>2 DEF MkstempUnmask
  <2>4. umask' = "user"
    BY <1>2, <2>2 DEF MkstempUnmask, AfterUnmask
  <2> QED  BY <2>3, <2>4
<1>3. CASE Mkstemp(t)
  <2>1. UNCHANGED <<umask, prev_umask, overlap>> /\ \A u \in Threads : Masking(u)' <=> Masking(u)
    BY <1>3 DEF Mkstemp
  <2> QED  BY <2>1
<1>4. CASE FileType(t) \/ DaxLength(t) \/ DaxOpen(t) \/ DaxMap(t)
  <2>1. UNCHANGED <<umask, prev_umask, overlap>> /\ \A u \in Threads : Masking(u)' <=> Masking(u)
    BY <1>4 DEF FileType, DaxLength, DaxOpen, DaxMap
  <2> QED  BY <2>1
<1>5. CASE TmpSize(t) \/ TmpOpen(t) \/ MkstempBlock(t) \/ MkstempUnlink(t)
  <2>1. UNCHANGED <<umask, prev_umask, overlap>> /\ \A u \in Threads : Masking(u)' <=> Masking(u)
    BY <1>5 DEF TmpSize, TmpOpen, MkstempBlock, MkstempUnlink
  <2> QED  BY <2>1
<1>6. CASE MkstempUnblock(t) \/ Fallocate(t) \/ TmpMap(t) \/ CloseFd(t)
  <2>1. UNCHANGED <<umask, prev_umask, overlap>> /\ \A u \in Threads : Masking(u)' <=> Masking(u)
    BY <1>6 DEF MkstempUnblock, Fallocate, TmpMap, CloseFd
  <2> QED  BY <2>1
<1> QED  BY <1>1, <1>2, <1>3, <1>4, <1>5, <1>6 DEF PoolStep

----------------------------------------------------------------------------
(* The mapping and the file in all other steps. *)

\* What a step outside PoolStep does to the state of the pool.
PoolKept(t) ==
    /\ PoolTypeOK' /\ (\A u \in Threads \ {t} : SamePool(u))
    /\ MapInv(t)' /\ FileInv(t)'
    /\ UNCHANGED <<umask, prev_umask, overlap>> /\ ~Masking(t) /\ ~Masking(t)'

\* util_unmap gives back the whole of a temporary file's mapping.
LEMMA UnmapWhole ==
    ASSUME PoolTypeOK, NEW t \in Threads, Mapped(t), lost[t] # "tmp", util_unmap(t)
    PROVE  /\ maps' = [maps EXCEPT ![t] = 0]
           /\ lost' \in [Threads -> Kinds] /\ lost'[t] # "tmp"
           /\ \A u \in Threads \ {t} : lost'[u] = lost[u]
<1> USE DEF PoolTypeOK
<1>1. UnmapPart(t) \in Nat /\ UnmapPart(t) >= size[t]
  BY PoolAssumption, RoundupFacts DEF UnmapPart
<1>2. addr[t] = "tmp" => ~(UnmapPart(t) < maps[t])
  BY <1>1 DEF Mapped
<1>3. lost' = [lost EXCEPT ![t] = IF UnmapPart(t) < maps[t] THEN addr[t] ELSE @]
      /\ maps' = [maps EXCEPT ![t] = 0]
  BY DEF util_unmap, UnmapMemory
<1> QED  BY <1>2, <1>3

\* vmemcache_new, the setters and the cache in use.
LEMMA PoolKeptIdle ==
    ASSUME PoolTypeOK, ObjTypeOK, NEW t \in Threads, ObjInv(t), MapInv(t), FileInv(t),
           \/ vmemcache_new(t) \/ vmemcache_set_eviction_policy(t)
           \/ vmemcache_set_size(t) \/ vmemcache_set_extent_size(t)
           \/ Put(t) \/ Hit(t) \/ DeleteStart(t) \/ AddStart(t)
    PROVE  PoolKept(t)
<1> USE DEF PoolTypeOK, Goto, At, osVars, SamePool, PoolKept, MapInv, FileInv,
            PoolPcs, Opened, Blocked, Masking, Mapped, Unmapped
<1>1. CASE vmemcache_new(t)
  <2>1. ~ready[t]
    BY <1>1 DEF vmemcache_new, Exists, ObjInv, Using, Complete
  <2> QED  BY <1>1, <2>1 DEF vmemcache_new, Kinds
<1>2. CASE vmemcache_set_eviction_policy(t) \/ vmemcache_set_extent_size(t)
  BY <1>2 DEF vmemcache_set_eviction_policy, vmemcache_set_extent_size, Setter
<1>3. CASE vmemcache_set_size(t)
  <2>1. PICK n \in Config[t].sizes :
          Setter(t, n >= VMEMCACHE_MIN_POOL,
                 size' = [size EXCEPT ![t] = n] /\ UNCHANGED <<repl_p, extent_size>>)
    BY <1>3 DEF vmemcache_set_size
  <2>2. n \in Nat
    BY ConfigAssumption
  <2>3. CASE UNCHANGED size
    BY <2>1, <2>3 DEF Setter
  <2>4. CASE ~ready[t] /\ size' = [size EXCEPT ![t] = n]
    BY <2>1, <2>2, <2>4 DEF Setter
  <2> QED  BY <2>1, <2>3, <2>4 DEF Setter
<1>4. CASE Put(t) \/ Hit(t)
  BY <1>4 DEF Put, Hit
<1>5. CASE DeleteStart(t)
  <2>1. pc' = [pc EXCEPT ![t] = IF ready[t] THEN "delete_repl" ELSE "delete_cache"]
    BY <1>5 DEF DeleteStart, DeleteFrom
  <2> QED  BY <1>5, <2>1 DEF DeleteStart, Pcs, lifeVars
<1>6. CASE AddStart(t)
  <2>1. CASE UNCHANGED <<pc, path>>
    BY <1>6, <2>1 DEF AddStart, lifeVars
  <2>2. ASSUME NEW p \in Config[t].paths, AddAccepted(t),
               path' = [path EXCEPT ![t] = p], Goto(t, "type")
        PROVE  PoolKept(t)
    <3>1. p \in Paths
      BY ConfigAssumption
    <3> QED  BY <1>6, <2>2, <3>1 DEF AddStart, AddAccepted, lifeVars, Pcs
  <2> QED  BY <1>6, <2>1, <2>2 DEF AddStart
<1> QED  BY <1>1, <1>2, <1>3, <1>4, <1>5, <1>6

\* The rest of vmemcache_add and of vmemcache_delete.
LEMMA PoolKeptBusy ==
    ASSUME PoolTypeOK, ObjTypeOK, NEW t \in Threads, ObjInv(t), MapInv(t), FileInv(t),
           \/ HeapCreate(t) \/ IndexNew(t) \/ ReplInit(t)
           \/ UndoIndex(t) \/ UndoHeap(t) \/ UndoMap(t) \/ AddFails(t)
           \/ DeleteRepl(t) \/ DeleteIndex(t) \/ DeleteHeap(t)
           \/ DeleteMap(t) \/ DeleteCache(t)
    PROVE  PoolKept(t)
<1> USE DEF PoolTypeOK, Goto, At, osVars, SamePool, PoolKept, MapInv, FileInv, Pcs,
            PoolPcs, Opened, Blocked, Masking, Mapped, Unmapped
<1>1. CASE HeapCreate(t)
  BY <1>1 DEF HeapCreate
<1>2. CASE IndexNew(t)
  BY <1>2 DEF IndexNew
<1>3. CASE ReplInit(t)
  <2>1. CASE Goto(t, "destroy_index") /\ UNCHANGED <<ready, path>>
    BY <1>3, <2>1 DEF ReplInit
  <2>2. CASE ready' = [ready EXCEPT ![t] = TRUE] /\ path' = [path EXCEPT ![t] = "null"]
             /\ Goto(t, "idle")
    BY <1>3, <2>2 DEF ReplInit, Paths, ObjTypeOK
  <2> QED  BY <1>3, <2>1, <2>2 DEF ReplInit, ReplMade
<1>4. CASE UndoIndex(t) \/ UndoHeap(t)
  BY <1>4 DEF UndoIndex, UndoHeap
<1>5. CASE UndoMap(t)
  <2>1. util_unmap(t) /\ Mapped(t) /\ lost[t] # "tmp"
    BY <1>5 DEF UndoMap
  <2>2. /\ maps' = [maps EXCEPT ![t] = 0]
        /\ lost' \in [Threads -> Kinds] /\ lost'[t] # "tmp"
        /\ \A u \in Threads \ {t} : lost'[u] = lost[u]
    BY <2>1, UnmapWhole
  <2> QED  BY <1>5, <2>1, <2>2 DEF UndoMap, util_unmap, lifeVars, Kinds
<1>6. CASE AddFails(t)
  <2>1. ~ready[t]
    BY <1>6 DEF AddFails, ObjInv
  <2> QED  BY <1>6, <2>1 DEF AddFails, Paths, lifeVars
<1>7. CASE DeleteRepl(t) \/ DeleteIndex(t) \/ DeleteHeap(t)
  <2>1. pc' = [pc EXCEPT ![t] = CASE pc[t] = "delete_repl" -> "delete_index"
                                  [] pc[t] = "delete_index" -> "delete_heap"
                                  [] pc[t] = "delete_heap" -> "delete_map"]
    BY <1>7 DEF DeleteRepl, DeleteIndex, DeleteHeap, DeleteFrom
  <2> QED  BY <1>7, <2>1 DEF DeleteRepl, DeleteIndex, DeleteHeap
<1>8. CASE DeleteMap(t)
  <2>1. util_unmap(t) /\ Mapped(t) /\ lost[t] # "tmp" /\ pc' = [pc EXCEPT ![t] = "delete_cache"]
    BY <1>8 DEF DeleteMap, DeleteFrom
  <2>2. /\ maps' = [maps EXCEPT ![t] = 0]
        /\ lost' \in [Threads -> Kinds] /\ lost'[t] # "tmp"
        /\ \A u \in Threads \ {t} : lost'[u] = lost[u]
    BY <2>1, UnmapWhole
  <2> QED  BY <1>8, <2>1, <2>2 DEF DeleteMap, util_unmap, lifeVars
<1>9. CASE DeleteCache(t)
  BY <1>9 DEF DeleteCache, Kinds, ObjTypeOK
<1> QED  BY <1>1, <1>2, <1>3, <1>4, <1>5, <1>6, <1>7, <1>8, <1>9

----------------------------------------------------------------------------
(* Objects *)

\* No two names stand for one object.
LEMMA ObjectFacts ==
    /\ \A i \in {<<"cache">>, <<"heap">>, <<"entry">>, <<"node">>, <<"repl">>, <<"head">>,
                  <<"ring">>} : i \notin IndexParts
    /\ <<"cache">> \notin {<<"heap">>, <<"entry">>, <<"node">>, <<"repl">>, <<"head">>, <<"ring">>}
    /\ <<"heap">> \notin {<<"entry">>, <<"node">>, <<"repl">>, <<"head">>, <<"ring">>}
    /\ <<"entry">> \notin {<<"node">>, <<"repl">>, <<"head">>, <<"ring">>}
    /\ <<"node">> \notin {<<"repl">>, <<"head">>, <<"ring">>}
    /\ <<"repl">> \notin {<<"head">>, <<"ring">>}
    /\ <<"head">> # <<"ring">>
BY DEF IndexParts, Shards

\* What a step does to the objects.
ObjKept(t) ==
    /\ ObjTypeOK' /\ (\A u \in Threads \ {t} : SameObjects(u))
    /\ ObjInv(t)' /\ NoUseOfFreed'

\* The sets of objects that a thread owns on the way.
LEMMA ObjectSets ==
    /\ {} \union {<<"cache">>} = {<<"cache">>}
    /\ {<<"cache">>} \union {<<"heap">>} = {<<"cache">>, <<"heap">>}
    /\ {<<"cache">>, <<"heap">>} \ {<<"heap">>} = {<<"cache">>}
    /\ {<<"cache">>} \ {<<"cache">>} = {}
    /\ \A i : ({<<"cache">>, <<"heap">>} \union IndexUpTo(i)) \ Undone(i)
               = {<<"cache">>, <<"heap">>}
    /\ \A S : S \ {<<"entry">>} = {<<"cache">>, <<"heap">>} \union IndexParts
              => S \ (IndexParts \union {<<"entry">>}) = {<<"cache">>, <<"heap">>}
    /\ ({<<"cache">>, <<"heap">>} \union IndexParts) \ (IndexParts \union {<<"entry">>})
       = {<<"cache">>, <<"heap">>}
    /\ {<<"cache">>} \in SUBSET Objects /\ {<<"cache">>, <<"heap">>} \in SUBSET Objects
<1>1. \A i : IndexUpTo(i) = Undone(i) /\ <<"cache">> \notin Undone(i)
            /\ <<"heap">> \notin Undone(i)
  BY DEF Undone, IndexUpTo
<1>2. \A i : ({<<"cache">>, <<"heap">>} \union IndexUpTo(i)) \ Undone(i)
             = {<<"cache">>, <<"heap">>}
  BY <1>1, Zenon
<1>3. <<"cache">> # <<"heap">> /\ <<"cache">> # <<"entry">> /\ <<"heap">> # <<"entry">>
      /\ <<"cache">> \notin IndexParts /\ <<"heap">> \notin IndexParts
  BY ObjectFacts
<1>4. ASSUME NEW S, S \ {<<"entry">>} = {<<"cache">>, <<"heap">>} \union IndexParts
      PROVE  S \ (IndexParts \union {<<"entry">>}) = {<<"cache">>, <<"heap">>}
  BY <1>3, <1>4
<1>5. ({<<"cache">>, <<"heap">>} \union IndexParts) \ (IndexParts \union {<<"entry">>})
       = {<<"cache">>, <<"heap">>}
  BY <1>3
<1>6. {<<"cache">>} \in SUBSET Objects /\ {<<"cache">>, <<"heap">>} \in SUBSET Objects
  BY DEF Objects
<1> QED  BY <1>2, <1>3, <1>4, <1>5, <1>6

\* A policy without a head is given back.
LEMMA ReplGivenBack ==
    (({<<"cache">>, <<"heap">>} \union IndexParts) \union {<<"repl">>}) \ ReplUndone
    = {<<"cache">>, <<"heap">>} \union IndexParts
<1>1. <<"repl">> \notin {<<"cache">>, <<"heap">>} \union IndexParts
  BY ObjectFacts
<1> QED  BY <1>1, Zenon DEF ReplUndone

\* An update of what one thread owns.
LEMMA LiveUpdate ==
    ASSUME ObjTypeOK, NEW t \in Threads, NEW S \in SUBSET Objects,
           live' = [live EXCEPT ![t] = S]
    PROVE  /\ live' \in [Threads -> SUBSET Objects] /\ live'[t] = S
           /\ \A u \in Threads \ {t} : live'[u] = live[u]
BY DEF ObjTypeOK

\* vmemcache_new, the setters and the cache in use.
LEMMA ObjKeptIdle ==
    ASSUME PoolTypeOK, ObjTypeOK, NoUseOfFreed, NEW t \in Threads, ObjInv(t),
           \/ vmemcache_new(t) \/ vmemcache_set_eviction_policy(t)
           \/ vmemcache_set_size(t) \/ vmemcache_set_extent_size(t)
           \/ Put(t) \/ Hit(t) \/ DeleteStart(t) \/ AddStart(t)
    PROVE  ObjKept(t)
<1> USE DEF PoolTypeOK, ObjTypeOK, Goto, At, SameObjects, PoolPcs, ObjKept, ObjInv,
            Using, Complete, Exists, Allocate, NoUseOfFreed
<1>1. CASE vmemcache_new(t)
  <2>1. ~ready[t] /\ live[t] = {} /\ ptrs[t] = {} /\ ~queued[t]
    BY <1>1 DEF vmemcache_new
  <2>2. ready'[t] = FALSE /\ ptrs'[t] = {} /\ pc'[t] = "idle" /\ ~queued'[t]
    BY <1>1, <2>1 DEF vmemcache_new
  <2>3. CASE UNCHANGED <<live, repl_p>>
    BY <1>1, <2>1, <2>2, <2>3 DEF vmemcache_new
  <2>4. CASE Allocate(t, {<<"cache">>}) /\ repl_p' = [repl_p EXCEPT ![t] = "LRU"]
    <3>1. live' = [live EXCEPT ![t] = {<<"cache">>}]
      BY <2>1, <2>4, ObjectSets
    <3>2. /\ live' \in [Threads -> SUBSET Objects] /\ live'[t] = {<<"cache">>}
          /\ \A u \in Threads \ {t} : live'[u] = live[u]
      BY <3>1, LiveUpdate, ObjectSets
    <3> QED  BY <1>1, <2>2, <2>4, <3>2 DEF vmemcache_new
  <2> QED  BY <1>1, <2>3, <2>4 DEF vmemcache_new
<1>2. CASE vmemcache_set_eviction_policy(t)
  <2>1. PICK p \in Config[t].policies :
          Setter(t, TRUE, repl_p' = [repl_p EXCEPT ![t] = p] /\ UNCHANGED <<size, extent_size>>)
    BY <1>2 DEF vmemcache_set_eviction_policy
  <2>2. p \in {"LRU", "NONE"}
    BY ConfigAssumption
  <2>3. CASE UNCHANGED repl_p
    BY <2>1, <2>3 DEF Setter
  <2>4. CASE ~ready[t] /\ repl_p' = [repl_p EXCEPT ![t] = p]
    BY <2>1, <2>2, <2>4 DEF Setter
  <2> QED  BY <2>1, <2>3, <2>4 DEF Setter
<1>3. CASE vmemcache_set_size(t) \/ vmemcache_set_extent_size(t)
  BY <1>3 DEF vmemcache_set_size, vmemcache_set_extent_size, Setter
<1>4. CASE Put(t)
  <2> DEFINE os == {<<"entry">>} \union IF repl_p[t] = "LRU" THEN {<<"node">>} ELSE {}
  <2>1. /\ live' = [live EXCEPT ![t] = @ \union os]
        /\ UNCHANGED <<pc, ready, repl_p, ptrs, queued, crash>>
        /\ pc[t] = "idle" /\ ready[t]
    BY <1>4 DEF Put
  <2>2. os \subseteq {<<"entry">>, <<"node">>} /\ os \subseteq Objects /\ <<"entry">> \in os
    BY DEF Objects
  <2> HIDE DEF os
  <2>3. live[t] \union os \in SUBSET Objects
    BY <2>2
  <2>4. /\ live' \in [Threads -> SUBSET Objects] /\ live'[t] = live[t] \union os
        /\ \A u \in Threads \ {t} : live'[u] = live[u]
    BY <2>1, <2>3, LiveUpdate
  <2>5. live'[t] \ {<<"ring">>, <<"entry">>, <<"node">>}
        = live[t] \ {<<"ring">>, <<"entry">>, <<"node">>}
    BY <2>2, <2>4
  <2>6. <<"entry">> \in live'[t] /\ pc'[t] = "idle"
    BY <2>1, <2>2, <2>4
  <2> QED  BY <2>1, <2>4, <2>5, <2>6
<1>5. CASE Hit(t)
  BY <1>5 DEF Hit
<1>6. CASE DeleteStart(t)
  <2>1. pc' = [pc EXCEPT ![t] = IF ready[t] THEN "delete_repl" ELSE "delete_cache"]
    BY <1>6 DEF DeleteStart, DeleteFrom
  <2> QED  BY <1>6, <2>1 DEF DeleteStart, lifeVars
<1>7. CASE AddStart(t)
  <2>1. CASE UNCHANGED pc
    BY <1>7, <2>1 DEF AddStart, lifeVars
  <2>2. CASE AddAccepted(t) /\ Goto(t, "type")
    BY <1>7, <2>2 DEF AddStart, AddAccepted, lifeVars
  <2> QED  BY <1>7, <2>1, <2>2 DEF AddStart
<1> QED  BY <1>1, <1>2, <1>3, <1>4, <1>5, <1>6, <1>7

\* The steps of vmemcache_add.
LEMMA ObjKeptAdd ==
    ASSUME PoolTypeOK, ObjTypeOK, NoUseOfFreed, NEW t \in Threads, ObjInv(t),
           \/ GetPool(t) \/ HeapCreate(t) \/ IndexNew(t) \/ ReplInit(t)
           \/ UndoIndex(t) \/ UndoHeap(t) \/ UndoMap(t) \/ AddFails(t)
    PROVE  ObjKept(t)
<1> USE DEF PoolTypeOK, ObjTypeOK, Goto, At, SameObjects, ObjKept, ObjInv,
            Using, Complete, Allocate, Free, NoUseOfFreed
<1>1. CASE GetPool(t)
  <2>1. UNCHANGED <<ready, repl_p, ptrs, live, queued, crash>>
    BY <1>1 DEF GetPool, lifeVars
  <2>2. pc[t] \in PoolPcs /\ pc'[t] \in PoolPcs \union {"heap", "fail"}
    BY <1>1, PoolMoves DEF GetPool
  <2> QED  BY <2>1, <2>2 DEF PoolPcs
<1>2. CASE HeapCreate(t)
  <2>1. live[t] = {<<"cache">>} /\ ptrs[t] = {} /\ ~ready[t] /\ ~queued[t]
    BY <1>2 DEF HeapCreate, PoolPcs
  <2>2. CASE Goto(t, "unmap") /\ UNCHANGED <<live, ptrs>>
    BY <1>2, <2>1, <2>2 DEF HeapCreate, PoolPcs
  <2>3. CASE Allocate(t, {<<"heap">>}) /\ ptrs' = [ptrs EXCEPT ![t] = @ \union {"heap"}]
             /\ Goto(t, "index")
    <3>1. live' = [live EXCEPT ![t] = {<<"cache">>, <<"heap">>}]
      BY <2>1, <2>3, ObjectSets
    <3>2. /\ live' \in [Threads -> SUBSET Objects] /\ live'[t] = {<<"cache">>, <<"heap">>}
          /\ \A u \in Threads \ {t} : live'[u] = live[u]
      BY <3>1, LiveUpdate, ObjectSets, Zenon
    <3>3. ptrs'[t] = {"heap"} /\ pc'[t] = "index" /\ ~ready'[t] /\ ~queued'[t]
      BY <1>2, <2>1, <2>3 DEF HeapCreate
    <3> QED  BY <1>2, <2>3, <3>2, <3>3 DEF HeapCreate, PoolPcs
  <2> QED  BY <1>2, <2>2, <2>3 DEF HeapCreate
<1>3. CASE IndexNew(t)
  <2>1. live[t] = {<<"cache">>, <<"heap">>} /\ ptrs[t] = {"heap"} /\ ~ready[t] /\ ~queued[t]
    BY <1>3 DEF IndexNew, PoolPcs
  <2>2. CASE Goto(t, "destroy_heap") /\ UNCHANGED <<live, ptrs>>
    BY <1>3, <2>1, <2>2 DEF IndexNew, PoolPcs
  <2>3. ASSUME NEW i \in 0 .. NSHARDS - 1, Goto(t, "destroy_heap"), UNCHANGED ptrs,
               live' = [live EXCEPT ![t] = (@ \union IndexUpTo(i)) \ Undone(i)]
        PROVE  ObjKept(t)
    <3>2. (live[t] \union IndexUpTo(i)) \ Undone(i) = live[t]
      BY <2>1, ObjectSets
    <3>3. live' = [live EXCEPT ![t] = live[t]]
      BY <2>3, <3>2
    <3>4. live' = live
      BY <3>3
    <3> QED  BY <1>3, <2>1, <2>3, <3>4 DEF IndexNew, PoolPcs
  <2>4. CASE Allocate(t, IndexParts) /\ ptrs' = [ptrs EXCEPT ![t] = @ \union {"index"}]
             /\ Goto(t, "repl")
    BY <1>3, <2>1, <2>4 DEF IndexNew, PoolPcs, Objects
  <2> QED  BY <1>3, <2>2, <2>3, <2>4 DEF IndexNew
<1>4. CASE ReplInit(t)
  <2>1. /\ live[t] = {<<"cache">>, <<"heap">>} \union IndexParts
        /\ ptrs[t] = {"heap", "index"} /\ ~ready[t] /\ ~queued[t]
    BY <1>4 DEF ReplInit, PoolPcs
  <2>2. CASE Goto(t, "destroy_index") /\ UNCHANGED <<live, ptrs, ready>>
    BY <1>4, <2>1, <2>2 DEF ReplInit, PoolPcs
  <2>3. CASE /\ live' = [live EXCEPT ![t] = (@ \union {<<"repl">>}) \ ReplUndone]
             /\ Goto(t, "destroy_index") /\ UNCHANGED <<ptrs, ready>>
    <3>1. (live[t] \union {<<"repl">>}) \ ReplUndone = live[t]
      BY <2>1, ReplGivenBack
    <3>2. live' = live
      BY <2>3, <3>1
    <3> QED  BY <2>2, <2>3, <3>2
  <2>4. ASSUME NEW made, ReplMade(t, made),
               \/ repl_p[t] = "LRU" /\ made \in {ReplParts, ReplParts \ {<<"ring">>}}
               \/ repl_p[t] = "NONE" /\ made = {<<"repl">>}
        PROVE  ObjKept(t)
    <3>1. /\ live' = [live EXCEPT ![t] = @ \union made]
          /\ ptrs' = [ptrs EXCEPT ![t] = @ \union {"repl"}]
          /\ ready' = [ready EXCEPT ![t] = TRUE]
          /\ pc' = [pc EXCEPT ![t] = "idle"]
          /\ UNCHANGED <<repl_p, queued, crash>>
      BY <1>4, <2>4 DEF ReplMade, ReplInit
    <3>2. made \subseteq Objects
      BY <2>4 DEF Objects, ReplParts
    <3>3. made \ {<<"ring">>, <<"entry">>, <<"node">>} =
            {<<"repl">>} \union IF repl_p[t] = "LRU" THEN {<<"head">>} ELSE {}
      BY <2>4, ObjectFacts DEF ReplParts
    <3>4. live'[t] = live[t] \union made
      BY <3>1
    <3>5. live'[t] \ {<<"ring">>, <<"entry">>, <<"node">>} =
            {<<"cache">>, <<"heap">>, <<"repl">>} \union IndexParts
            \union IF repl_p[t] = "LRU" THEN {<<"head">>} ELSE {}
      BY <2>1, <3>3, <3>4, ObjectFacts
    <3> QED  BY <2>1, <3>1, <3>2, <3>4, <3>5 DEF PoolPcs
  <2> QED  BY <1>4, <2>2, <2>3, <2>4 DEF ReplInit
<1>5. CASE UndoIndex(t)
  <2>1. /\ live[t] = {<<"cache">>, <<"heap">>} \union IndexParts
        /\ ptrs[t] = {"heap", "index"} /\ ~ready[t] /\ ~queued[t]
    BY <1>5 DEF UndoIndex, PoolPcs
  <2>2. live' = [live EXCEPT ![t] = {<<"cache">>, <<"heap">>}]
    BY <1>5, <2>1, ObjectSets DEF UndoIndex
  <2>3. /\ live' \in [Threads -> SUBSET Objects] /\ live'[t] = {<<"cache">>, <<"heap">>}
        /\ \A u \in Threads \ {t} : live'[u] = live[u]
    BY <2>2, LiveUpdate, ObjectSets, Zenon
  <2>4. ptrs'[t] = {"heap"} /\ pc'[t] = "destroy_heap" /\ ~ready'[t] /\ ~queued'[t]
    BY <1>5, <2>1 DEF UndoIndex
  <2> QED  BY <1>5, <2>3, <2>4 DEF UndoIndex, PoolPcs
<1>6. CASE UndoHeap(t)
  <2>1. live[t] = {<<"cache">>, <<"heap">>} /\ ptrs[t] = {"heap"} /\ ~ready[t] /\ ~queued[t]
    BY <1>6 DEF UndoHeap, PoolPcs
  <2>2. live' = [live EXCEPT ![t] = {<<"cache">>}]
    BY <1>6, <2>1, ObjectSets DEF UndoHeap
  <2>3. /\ live' \in [Threads -> SUBSET Objects] /\ live'[t] = {<<"cache">>}
        /\ \A u \in Threads \ {t} : live'[u] = live[u]
    BY <2>2, LiveUpdate, ObjectSets
  <2>4. ptrs'[t] = {} /\ pc'[t] = "unmap" /\ ~ready'[t] /\ ~queued'[t]
    BY <1>6, <2>1 DEF UndoHeap
  <2> QED  BY <1>6, <2>3, <2>4 DEF UndoHeap, PoolPcs
<1>7. CASE UndoMap(t)
  BY <1>7 DEF UndoMap, PoolPcs, lifeVars
<1>8. CASE AddFails(t)
  BY <1>8 DEF AddFails, PoolPcs, lifeVars
<1> QED  BY <1>1, <1>2, <1>3, <1>4, <1>5, <1>6, <1>7, <1>8

\* The steps of vmemcache_delete.  A node in the ring finds its entry alive.
LEMMA ObjKeptDelete ==
    ASSUME PoolTypeOK, ObjTypeOK, NoUseOfFreed, NEW t \in Threads, ObjInv(t),
           \/ DeleteRepl(t) \/ DeleteIndex(t) \/ DeleteHeap(t)
           \/ DeleteMap(t) \/ DeleteCache(t)
    PROVE  ObjKept(t)
<1> USE DEF PoolTypeOK, ObjTypeOK, Goto, At, SameObjects, ObjKept, ObjInv,
            Using, Complete, Free, NoUseOfFreed, PoolPcs
<1>1. CASE DeleteRepl(t)
  <2>1. crash' \in {"none", "no ring"}
    BY <1>1 DEF DeleteRepl, LruDelete
  <2>2. /\ pc' = [pc EXCEPT ![t] = "delete_index"]
        /\ live' = [live EXCEPT ![t] = @ \ (ReplParts \union {<<"node">>})]
        /\ queued' = [queued EXCEPT ![t] = FALSE] /\ UNCHANGED <<ready, repl_p, ptrs>>
    BY <1>1 DEF DeleteRepl, DeleteFrom
  <2>3. live[t] \ {<<"ring">>, <<"entry">>, <<"node">>} =
          {<<"cache">>, <<"heap">>, <<"repl">>} \union IndexParts
          \union IF repl_p[t] = "LRU" THEN {<<"head">>} ELSE {}
    BY <1>1 DEF DeleteRepl
  <2>4. live'[t] = live[t] \ (ReplParts \union {<<"node">>})
    BY <2>2
  <2>5. live'[t] \ {<<"entry">>} = {<<"cache">>, <<"heap">>} \union IndexParts
    BY <2>3, <2>4, ObjectFacts DEF ReplParts
  <2> QED  BY <2>1, <2>2, <2>5
<1>2. CASE DeleteIndex(t)
  <2>1. pc' = [pc EXCEPT ![t] = "delete_heap"]
    BY <1>2 DEF DeleteIndex, DeleteFrom
  <2>2. live[t] \ {<<"entry">>} = {<<"cache">>, <<"heap">>} \union IndexParts /\ ~queued[t]
    BY <1>2 DEF DeleteIndex
  <2>3. live[t] \ (IndexParts \union {<<"entry">>}) = {<<"cache">>, <<"heap">>}
    BY <2>2, ObjectSets
  <2>4. live' = [live EXCEPT ![t] = {<<"cache">>, <<"heap">>}]
    BY <1>2, <2>3 DEF DeleteIndex
  <2>5. /\ live' \in [Threads -> SUBSET Objects] /\ live'[t] = {<<"cache">>, <<"heap">>}
        /\ \A u \in Threads \ {t} : live'[u] = live[u]
    BY <2>4, LiveUpdate, ObjectSets, Zenon
  <2> QED  BY <1>2, <2>1, <2>2, <2>5 DEF DeleteIndex
<1>3. CASE DeleteHeap(t)
  <2>1. pc' = [pc EXCEPT ![t] = "delete_map"]
    BY <1>3 DEF DeleteHeap, DeleteFrom
  <2>2. live[t] = {<<"cache">>, <<"heap">>} /\ ~queued[t]
    BY <1>3 DEF DeleteHeap
  <2>3. live' = [live EXCEPT ![t] = {<<"cache">>}]
    BY <1>3, <2>2, ObjectSets DEF DeleteHeap
  <2>4. /\ live' \in [Threads -> SUBSET Objects] /\ live'[t] = {<<"cache">>}
        /\ \A u \in Threads \ {t} : live'[u] = live[u]
    BY <2>3, LiveUpdate, ObjectSets
  <2> QED  BY <1>3, <2>1, <2>2, <2>4 DEF DeleteHeap
<1>4. CASE DeleteMap(t)
  <2>1. pc' = [pc EXCEPT ![t] = "delete_cache"]
    BY <1>4 DEF DeleteMap, DeleteFrom
  <2> QED  BY <1>4, <2>1 DEF DeleteMap, lifeVars
<1>5. CASE DeleteCache(t)
  BY <1>5 DEF DeleteCache
<1> QED  BY <1>1, <1>2, <1>3, <1>4, <1>5

----------------------------------------------------------------------------
(* The invariant of the whole system *)

ThreadInv(t) == ObjInv(t) /\ MapInv(t) /\ FileInv(t) /\ ErrInv(t)

\* What holds of a thread still holds after a step of another.
LEMMA OthersKeep ==
    ASSUME NEW u \in Threads, ThreadInv(u), SameErrors(u), SamePool(u), SameObjects(u)
    PROVE  ThreadInv(u)'
<1>1. ObjInv(u)'
  BY DEF ThreadInv, ObjInv, Using, Complete, SamePool, SameObjects
<1>2. MapInv(u)'
  BY DEF ThreadInv, MapInv, Mapped, Unmapped, SamePool, SameObjects
<1>3. FileInv(u)'
  BY DEF ThreadInv, FileInv, SamePool
<1>4. ErrInv(u)'
  BY DEF ThreadInv, ErrInv, Told, Innocent, SamePool, SameErrors
<1> QED  BY <1>1, <1>2, <1>3, <1>4 DEF ThreadInv

\* A step outside PoolStep leaves the mode mask alone.
LEMMA UmaskKept ==
    ASSUME UmaskInv, PoolTypeOK, NEW t \in Threads, PoolKept(t)
    PROVE  UmaskInv'
<1>1. UNCHANGED <<umask, prev_umask, overlap>> /\ \A u \in Threads : Masking(u)' <=> Masking(u)
  BY DEF PoolKept, SamePool, Masking
<1> QED  BY <1>1 DEF UmaskInv

\* The invariant holds at the start.
LEMMA LifeInit == Init => LifeInv
<1> SUFFICES ASSUME Init PROVE LifeInv
  OBVIOUS
<1>0. OutInit /\ PoolInit
  BY DEF Init
<1>1. OutTypeOK
  <2>1. Fine \in Messages /\ "OK" \in Errnos
    BY DEF Fine, Messages, Errnos
  <2> QED  BY <1>0, <2>1 DEF OutInit, OutTypeOK
<1>2. PoolTypeOK
  BY <1>0 DEF PoolInit, PoolTypeOK, Pcs, Paths, Kinds
<1>3. ObjTypeOK
  BY DEF Init, ObjTypeOK
<1>4. ASSUME NEW t \in Threads PROVE ThreadInv(t)
  <2>1. /\ pc[t] = "idle" /\ ~ready[t] /\ live[t] = {} /\ ptrs[t] = {} /\ ~queued[t]
        /\ maps[t] = 0 /\ addr[t] = "null" /\ lost[t] = "null" /\ ~fd[t]
        /\ file[t] = "none" /\ sigmask[t] = "open" /\ failed[t] = Fine
    BY <1>0 DEF Init, OutInit, PoolInit
  <2>2. ObjInv(t)
    BY <2>1 DEF ObjInv, Using, PoolPcs
  <2>3. MapInv(t)
    BY <2>1 DEF MapInv, Unmapped, PoolPcs
  <2>4. FileInv(t)
    BY <2>1 DEF FileInv, Blocked
  <2>5. ErrInv(t)
    BY <2>1 DEF ErrInv
  <2> QED  BY <2>2, <2>3, <2>4, <2>5 DEF ThreadInv
<1>5. UmaskInv
  BY <1>0 DEF PoolInit, UmaskInv, Masking
<1>6. NoUseOfFreed
  BY DEF Init, NoUseOfFreed
<1> QED  BY <1>1, <1>2, <1>3, <1>4, <1>5, <1>6 DEF LifeInv, LifeTypeOK, ThreadInv

\* Every step keeps the invariant.
LEMMA LifeNext == LifeInv /\ [Next]_vars => LifeInv'
<1> SUFFICES ASSUME LifeInv, [Next]_vars PROVE LifeInv'
  OBVIOUS
<1>0. /\ OutTypeOK /\ PoolTypeOK /\ ObjTypeOK /\ UmaskInv /\ NoUseOfFreed
      /\ \A u \in Threads : ThreadInv(u)
  BY DEF LifeInv, LifeTypeOK, ThreadInv
<1>1. CASE UNCHANGED vars
  <2>1. UNCHANGED <<outVars, pc, path, size, addr, osVars, lifeVars>>
    BY <1>1 DEF vars, poolVars
  <2>2. OutTypeOK' /\ PoolTypeOK' /\ ObjTypeOK'
    BY <1>0, <2>1 DEF OutTypeOK, PoolTypeOK, ObjTypeOK, outVars, osVars, lifeVars
  <2>3. UmaskInv' /\ NoUseOfFreed'
    BY <1>0, <2>1 DEF UmaskInv, Masking, NoUseOfFreed, osVars, lifeVars
  <2>4. ASSUME NEW u \in Threads PROVE ThreadInv(u)'
    <3>1. SameErrors(u) /\ SamePool(u) /\ SameObjects(u)
      BY <2>1 DEF SameErrors, SamePool, SameObjects, outVars, osVars, lifeVars
    <3> QED  BY <1>0, <3>1, OthersKeep
  <2> QED  BY <2>2, <2>3, <2>4 DEF LifeInv, LifeTypeOK, ThreadInv
<1>2. ASSUME NEW t \in Threads, AddStart(t) \/ Step(t) PROVE LifeInv'
  <2>0. ObjInv(t) /\ MapInv(t) /\ FileInv(t) /\ ErrInv(t)
    BY <1>0 DEF ThreadInv
  <2>1. OutTypeOK' /\ \A u \in Threads \ {t} : SameErrors(u)
    BY <1>0, <1>2, OutStepAlways, OutFrame
  <2>2. ErrInv(t)'
    BY <1>0, <1>2, <2>0, ErrStepPool, ErrStepAdd, ErrStepRest DEF Step, GetPool
  <2>3. ObjKept(t)
    BY <1>0, <1>2, <2>0, ObjKeptIdle, ObjKeptAdd, ObjKeptDelete DEF Step
  <2>4. CASE GetPool(t)
    <3>1. PoolTypeOK' /\ (\A u \in Threads \ {t} : SamePool(u))
      BY <1>0, <2>0, <2>4, PoolFrame DEF GetPool
    <3>2. MapInv(t)' /\ FileInv(t)' /\ UmaskInv'
      BY <1>0, <2>0, <2>4, MapStepPool, FileStepPool, UmaskStepPool DEF GetPool
    <3>3. ThreadInv(t)'
      BY <2>2, <2>3, <3>2 DEF ThreadInv, ObjKept
    <3>4. \A u \in Threads \ {t} : ThreadInv(u)'
      BY <1>0, <2>1, <2>3, <3>1, OthersKeep DEF ObjKept
    <3> QED  BY <2>1, <2>3, <3>1, <3>2, <3>3, <3>4 DEF LifeInv, LifeTypeOK, ThreadInv, ObjKept
  <2>5. CASE ~GetPool(t)
    <3>1. PoolKept(t)
      BY <1>0, <1>2, <2>0, <2>5, PoolKeptIdle, PoolKeptBusy DEF Step
    <3>2. PoolTypeOK' /\ (\A u \in Threads \ {t} : SamePool(u)) /\ MapInv(t)' /\ FileInv(t)'
      BY <3>1 DEF PoolKept
    <3>3. UmaskInv'
      BY <1>0, <3>1, UmaskKept
    <3>4. ThreadInv(t)'
      BY <2>2, <2>3, <3>2 DEF ThreadInv, ObjKept
    <3>5. \A u \in Threads \ {t} : ThreadInv(u)'
      BY <1>0, <2>1, <2>3, <3>2, OthersKeep DEF ObjKept
    <3> QED  BY <2>1, <2>3, <3>2, <3>3, <3>4, <3>5 DEF LifeInv, LifeTypeOK, ThreadInv, ObjKept
  <2> QED  BY <2>4, <2>5
<1> QED  BY <1>1, <1>2 DEF Next, Crashed

\* The invariant of the specification.
LEMMA LifeAlways == Spec => []LifeInv
BY LifeInit, LifeNext, PTL DEF Spec

----------------------------------------------------------------------------

\* Whatever fails and at whichever step, a vmemcache_add that fails gives back all
\* it allocated, a vmemcache_delete the rest, and a cache in use has its parts.
THEOREM LifecycleNothingLeaks == Spec => []NothingLeaks
<1>1. LifeInv => NothingLeaks
  <2> SUFFICES ASSUME LifeInv, NEW t \in Threads, At(t, "idle")
               PROVE  IF ~Exists(t) THEN live[t] = {}
                      ELSE /\ ptrs[t] = IF ready[t] THEN {"heap", "index", "repl"} ELSE {}
                           /\ live[t] \ {<<"ring">>, <<"entry">>, <<"node">>}
                              = Owned(t) \ {<<"ring">>}
                           /\ ~ready[t] => live[t] = {<<"cache">>}
    BY DEF NothingLeaks
  <2>0. ObjInv(t) /\ pc[t] = "idle" /\ repl_p[t] \in {"LRU", "NONE"} /\ ready[t] \in BOOLEAN
    BY DEF LifeInv, LifeTypeOK, ObjTypeOK, At
  <2>1. CASE ~ready[t]
    <3>1. live[t] \in {{}, {<<"cache">>}} /\ ptrs[t] = {}
      BY <2>0, <2>1 DEF ObjInv
    <3>2. CASE live[t] = {}
      BY <2>1, <3>1, <3>2 DEF Exists
    <3>3. CASE live[t] = {<<"cache">>}
      <4>1. Owned(t) = {<<"cache">>}
        BY <3>1 DEF Owned
      <4> QED  BY <2>1, <3>1, <3>3, <4>1, ObjectFacts DEF Exists
    <3> QED  BY <3>1, <3>2, <3>3
  <2>2. CASE ready[t]
    <3>1. Complete(t)
      BY <2>0, <2>2 DEF ObjInv, Using
    <3>2. <<"cache">> \in live[t] /\ ptrs[t] = {"heap", "index", "repl"}
      BY <3>1 DEF Complete
    <3>3. Owned(t) = {<<"cache">>} \union {<<"heap">>} \union IndexParts
                     \union IF repl_p[t] = "LRU" THEN ReplParts ELSE {<<"repl">>}
      BY <3>2 DEF Owned
    <3>4. Owned(t) \ {<<"ring">>} =
            {<<"cache">>, <<"heap">>, <<"repl">>} \union IndexParts
            \union IF repl_p[t] = "LRU" THEN {<<"head">>} ELSE {}
      BY <3>3, ObjectFacts DEF ReplParts
    <3> QED  BY <2>2, <3>1, <3>2, <3>4 DEF Exists, Complete
  <2> QED  BY <2>0, <2>1, <2>2
<1> QED  BY <1>1, LifeAlways, PTL

\* Between calls no descriptor is open and a cache that is not ready has neither
\* mapping nor address; nothing of a temporary file ever stays mapped.
THEOREM LifecycleMappingReleased == Spec => []MappingReleased
<1>1. LifeInv => MappingReleased
  <2> SUFFICES ASSUME LifeInv, NEW t \in Threads
               PROVE  /\ At(t, "idle") => ~fd[t]
                      /\ At(t, "idle") /\ ~ready[t] => maps[t] = 0 /\ addr[t] = "null"
                      /\ lost[t] # "tmp"
    BY DEF MappingReleased
  <2>1. MapInv(t) /\ FileInv(t)
    BY DEF LifeInv
  <2> QED  BY <2>1 DEF MapInv, Unmapped, FileInv, Opened, At
<1> QED  BY <1>1, LifeAlways, PTL

\* The pool of a cache in use lies inside its mapping, for all sizes asked for, all
\* devices and any number of attempts that failed before.
THEOREM LifecyclePoolInsideMapping == Spec => []PoolInsideMapping
<1>1. LifeInv => PoolInsideMapping
  <2> SUFFICES ASSUME LifeInv, NEW t \in Threads, ready[t], At(t, "idle")
               PROVE  /\ 0 < size[t] /\ size[t] <= maps[t]
                      /\ addr[t] = "tmp" => maps[t] = size[t] /\ size[t] >= VMEMCACHE_MIN_POOL
    BY DEF PoolInsideMapping
  <2>1. MapInv(t)
    BY DEF LifeInv
  <2> QED  BY <2>1 DEF MapInv, Mapped, At
<1> QED  BY <1>1, LifeAlways, PTL

\* A temporary file has a name only while its thread has all signals blocked; the
\* signals and, unless two calls overlapped, the mode mask are put back, with any
\* number of threads in vmemcache_add at once.
THEOREM LifecycleMasksRestored == Spec => []MasksRestored
<1>1. LifeInv => MasksRestored
  <2> SUFFICES ASSUME LifeInv PROVE MasksRestored
    OBVIOUS
  <2>1. ASSUME NEW t \in Threads
        PROVE  /\ file[t] = "named" => sigmask[t] = "full"
               /\ At(t, "idle") => sigmask[t] = "open" /\ file[t] # "named"
    <3>1. FileInv(t)
      BY DEF LifeInv
    <3> QED  BY <3>1 DEF FileInv, Blocked, At
  <2>2. (\A t \in Threads : At(t, "idle")) /\ ~overlap => umask = "user"
    BY DEF LifeInv, UmaskInv, Masking, At
  <2> QED  BY <2>1, <2>2 DEF MasksRestored
<1> QED  BY <1>1, LifeAlways, PTL

\* A call that fails returns the errno of what failed last, and the message, if
\* that place writes one, is about it, whatever the error exit does afterwards.
THEOREM LifecycleErrorTold == Spec => []ErrorTold
<1>1. LifeInv => ErrorTold
  BY DEF LifeInv, ErrInv, Told, ErrorTold
<1> QED  BY <1>1, LifeAlways, PTL

\* vmemcache_delete never writes to an entry that it has freed.
THEOREM LifecycleNoUseOfFreed == Spec => []NoUseOfFreed
<1>1. LifeInv => NoUseOfFreed
  BY DEF LifeInv
<1> QED  BY <1>1, LifeAlways, PTL
=============================================================================
