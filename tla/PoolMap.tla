------------------------------- MODULE PoolMap -------------------------------
(***************************************************************************)
(* How the memory of a pool is obtained and given back: src/src/file.c,     *)
(* file_posix.c, mmap.c and mmap_posix.c, as vmemcache_add uses them.  A    *)
(* path names a directory, whose pool is an unlinked temporary file, or a   *)
(* DAX device, which is mapped as a whole.                                  *)
(*                                                                          *)
(* Each thread sets up a cache of its own; what the threads share is the    *)
(* file mode creation mask of the process.  Every system call may fail;     *)
(* MaxFaults bounds the failures in a behaviour that the arguments do not   *)
(* explain.  One errno stands for all that a call may fail with.            *)
(***************************************************************************)
EXTENDS Out, Naturals

CONSTANTS
    DaxSize,        \* the sizes of the DAX devices, by path
    Mmap_align,     \* alignment of mappings
    VMEMCACHE_MIN_POOL,
    MaxFaults,
    Config          \* Config[t]: the arguments that t passes, whether its calls may fail,
                    \* and whether it keeps its cache and lets it be

VARIABLES
    pc,         \* pc[t]: the next step of t's call, "idle" between calls
    path,       \* path[t]: the argument of vmemcache_add
    size,       \* cache->size, 0 if it was never set
    addr,       \* cache->addr: "null", "tmp" or "dax"
    maps,       \* maps[t]: bytes of the file mapped at the address util_map returned
    lost,       \* lost[t]: the pool of which memory stayed mapped that nothing points to
    fd,         \* fd[t]: is the descriptor of t's call open?
    file,       \* file[t]: the temporary file: "none", "named", "unlinked" or "left"
    sigmask,    \* sigmask[t]: "open", or "full" while all signals are blocked
    umask,      \* the process' mode mask: "user" or "0077"
    prev_umask, \* prev_umask[t]: the local of util_tmpfile_mkstemp, "user" outside it
    overlap,    \* did two threads ever have their own mode mask set at once?
    faults      \* failures so far

osVars == <<maps, lost, fd, file, sigmask, umask, prev_umask, overlap>>
poolVars == <<pc, path, size, addr, osVars, faults>>

Devices == DOMAIN DaxSize
Paths == {"null", "missing", "dir", "chardev"} \union Devices

\* A device has room for something; sizes are what size_t holds.
ASSUME PoolAssumption ==
    /\ DaxSize \in [Devices -> Nat \ {0}]
    /\ Mmap_align \in Nat \ {0}
    /\ VMEMCACHE_MIN_POOL \in Nat \ {0}

\* The arguments that a thread passes are of the types of the interface.
ASSUME ConfigAssumption ==
    Config \in [Threads -> [policies : SUBSET {"LRU", "NONE"}, sizes : SUBSET Nat,
                            extents : SUBSET Nat, paths : SUBSET Paths,
                            mayFail : BOOLEAN, keeps : BOOLEAN]]

PoolInit ==
    /\ pc = [t \in Threads |-> "idle"]
    /\ path = [t \in Threads |-> "null"]
    /\ size = [t \in Threads |-> 0]
    /\ addr = [t \in Threads |-> "null"]
    /\ maps = [t \in Threads |-> 0]
    /\ lost = [t \in Threads |-> "null"]
    /\ fd = [t \in Threads |-> FALSE]
    /\ file = [t \in Threads |-> "none"]
    /\ sigmask = [t \in Threads |-> "open"]
    /\ umask = "user"
    /\ prev_umask = [t \in Threads |-> "user"]
    /\ overlap = FALSE
    /\ faults = 0

roundup(n, a) == ((n + a - 1) \div a) * a

At(t, l) == pc[t] = l
Goto(t, l) == pc' = [pc EXCEPT ![t] = l]

\* Something outside the program refuses; nothing does.
Fault(t) ==
    /\ Config[t].mayFail
    /\ faults < MaxFaults
    /\ faults' = faults + 1
NoFailure == UNCHANGED faults

------------------------------------------------------------------------------
(***************************************************************************)
(* What kind of file is it (util_file_get_type, util_file_exists,           *)
(* get_file_type_internal)                                                  *)
(***************************************************************************)

\* The calls that may refuse, by the kind of file.
TypeCalls(p) ==
    CASE p = "null" -> {}
      [] p = "missing" -> {"access"}
      [] p = "dir" -> {"access", "stat"}
      [] OTHER -> {"access", "stat", "realpath"}

\* OTHER_ERROR because a call failed.
TypeFails(t) ==
    \E call \in TypeCalls(path[t]) : Fault(t) /\ Perror(t, call, "EACCES")

\* OTHER_ERROR because of the argument: no path, or a device that is not DAX.
\* The second is only logged.
TypeRefused(t) ==
    /\ NoFailure
    /\ \/ path[t] = "null" /\ Report(t, "null path", "EINVAL")
       \/ path[t] = "chardev" /\ Silent(t, "not dax", "EINVAL")

\* A path that does not exist is TYPE_NOT_EXISTS, which vmemcache_add takes to
\* be a directory; access has left its errno.
FileType(t) ==
    /\ At(t, "type")
    /\ \/ TypeFails(t) /\ Goto(t, "fail")
       \/ TypeRefused(t) /\ Goto(t, "fail")
       \/ /\ path[t] \in {"missing", "dir"} \union Devices
          /\ NoFailure
          /\ Saved(t, IF path[t] = "missing" THEN "ENOENT" ELSE errno[t])
          /\ Goto(t, IF path[t] \in Devices THEN "size" ELSE "tmpsize")
          /\ UNCHANGED <<errormsg, failed>>
    /\ UNCHANGED <<path, size, addr, osVars>>

------------------------------------------------------------------------------
(***************************************************************************)
(* The DAX device (device_dax_size, util_file_get_size,                     *)
(* util_file_map_whole)                                                     *)
(***************************************************************************)

\* The file type is looked up once more; then stat, open and read may fail, and
\* the text may not be a number: errno is 0 then.
DaxSizeFails(t) ==
    \/ TypeFails(t)
    \/ \E call \in {"stat", "open sysfs", "read"} : Fault(t) /\ Perror(t, call, "EIO")
    \/ Fault(t) /\ Report(t, "device size", "OK")

\* Faulty variant: the rounded size may exceed the device.
DaxPoolSize_NoCap(asked, whole) ==
    IF asked = 0 THEN whole ELSE roundup(asked, Mmap_align)

\* cache->size for a device: all of it, or what was asked for, rounded up.
DaxPoolSize(asked, whole) ==
    IF asked = 0 THEN whole
    ELSE IF roundup(asked, Mmap_align) > whole THEN whole
    ELSE roundup(asked, Mmap_align)

DaxLength(t) ==
    /\ At(t, "size")
    /\ \/ DaxSizeFails(t) /\ Goto(t, "fail") /\ UNCHANGED size
       \/ /\ size[t] > DaxSize[path[t]]
          /\ NoFailure
          /\ Report(t, "bigger than device", "EINVAL")
          /\ Goto(t, "fail")
          /\ UNCHANGED size
       \/ /\ size[t] <= DaxSize[path[t]]
          /\ size' = [size EXCEPT ![t] = DaxPoolSize(size[t], DaxSize[path[t]])]
          /\ Goto(t, "daxopen")
          /\ NoFailure
          /\ NoError
    /\ UNCHANGED <<path, addr, osVars>>

DaxOpen(t) ==
    /\ At(t, "daxopen")
    /\ \/ Fault(t) /\ Perror(t, "open device", "EACCES") /\ Goto(t, "fail") /\ UNCHANGED fd
       \/ /\ fd' = [fd EXCEPT ![t] = TRUE]
          /\ Goto(t, "daxmap")
          /\ NoFailure
          /\ NoError
    /\ UNCHANGED <<path, size, addr, maps, lost, file, sigmask, umask,
                   prev_umask, overlap>>

(***************************************************************************)
(* util_map: no room for the hint (the message quotes nothing), or mmap     *)
(* fails.                                                                   *)
(***************************************************************************)
MapFails(t) ==
    \/ Fault(t) /\ Report(t, "no contiguous region", "ENOMEM")
    \/ Fault(t) /\ Perror(t, "mmap", "ENOMEM")

MapTo(t, len, kind) ==
    /\ maps' = [maps EXCEPT ![t] = len]
    /\ addr' = [addr EXCEPT ![t] = kind]

DaxMap(t) ==
    /\ At(t, "daxmap")
    /\ \/ DaxSizeFails(t) /\ UNCHANGED <<maps, addr>>
       \/ MapFails(t) /\ UNCHANGED <<maps, addr>>
       \/ MapTo(t, DaxSize[path[t]], "dax") /\ NoFailure /\ NoError
    /\ Goto(t, "close")
    /\ UNCHANGED <<path, size, lost, fd, file, sigmask, umask, prev_umask, overlap>>

------------------------------------------------------------------------------
(***************************************************************************)
(* The temporary file (util_map_tmpfile, util_tmpfile,                      *)
(* util_tmpfile_mkstemp)                                                    *)
(***************************************************************************)

\* vmemcache_add rounds the size silently, or takes the default, and keeps it.
TmpPoolSize(asked) ==
    IF asked = 0 THEN VMEMCACHE_MIN_POOL ELSE roundup(asked, Mmap_align)

TmpSize(t) ==
    /\ At(t, "tmpsize")
    /\ size' = [size EXCEPT ![t] = TmpPoolSize(size[t])]
    /\ Goto(t, "tmpopen")
    /\ NoFailure
    /\ NoError
    /\ UNCHANGED <<path, addr, osVars>>

\* open(O_TMPFILE); a file system without it sends the thread to mkstemp.
TmpOpen(t) ==
    /\ At(t, "tmpopen")
    /\ \/ /\ path[t] = "missing"
          /\ NoFailure
          /\ Perror(t, "open dir", "ENOENT")
          /\ Goto(t, "fail")
          /\ UNCHANGED <<fd, file>>
       \/ /\ path[t] = "dir"
          /\ Fault(t)
          /\ Perror(t, "open dir", "EACCES")
          /\ Goto(t, "fail")
          /\ UNCHANGED <<fd, file>>
       \/ /\ path[t] = "dir"
          /\ fd' = [fd EXCEPT ![t] = TRUE]
          /\ file' = [file EXCEPT ![t] = "unlinked"]
          /\ Goto(t, "fallocate")
          /\ NoFailure
          /\ NoError
       \/ /\ path[t] = "dir"
          /\ Goto(t, "block")
          /\ NoFailure
          /\ NoError
          /\ UNCHANGED <<fd, file>>
    /\ UNCHANGED <<path, size, addr, maps, lost, sigmask, umask, prev_umask, overlap>>

\* Between the creation of the file and its unlinking no signal is to kill us.
MkstempBlock(t) ==
    /\ At(t, "block")
    /\ sigmask' = [sigmask EXCEPT ![t] = "full"]
    /\ Goto(t, "umask")
    /\ NoFailure
    /\ NoError
    /\ UNCHANGED <<path, size, addr, maps, lost, fd, file, umask, prev_umask, overlap>>

\* umask() exchanges the mask of the whole process.
MkstempUmask(t) ==
    /\ At(t, "umask")
    /\ prev_umask' = [prev_umask EXCEPT ![t] = umask]
    /\ umask' = "0077"
    /\ overlap' = (overlap \/ \E u \in Threads : pc[u] \in {"mkstemp", "unmask"})
    /\ Goto(t, "mkstemp")
    /\ NoFailure
    /\ NoError
    /\ UNCHANGED <<path, size, addr, maps, lost, fd, file, sigmask>>

\* The message is written after the mask has been put back, from the same errno.
Mkstemp(t) ==
    /\ At(t, "mkstemp")
    /\ \/ Fault(t) /\ Perror(t, "mkstemp", "EACCES") /\ UNCHANGED <<fd, file>>
       \/ /\ fd' = [fd EXCEPT ![t] = TRUE]
          /\ file' = [file EXCEPT ![t] = "named"]
          /\ NoFailure
          /\ NoError
    /\ Goto(t, "unmask")
    /\ UNCHANGED <<path, size, addr, maps, lost, sigmask, umask, prev_umask, overlap>>

\* Faulty variant: a failed mkstemp leaves the mode mask behind.
AfterUnmask_OnlyOnSuccess(t) == IF fd[t] THEN prev_umask[t] ELSE umask

AfterUnmask(t) == prev_umask[t]

MkstempUnmask(t) ==
    /\ At(t, "unmask")
    /\ umask' = AfterUnmask(t)
    /\ prev_umask' = [prev_umask EXCEPT ![t] = "user"]
    /\ Goto(t, IF fd[t] THEN "unlink" ELSE "unblock")
    /\ NoFailure
    /\ NoError
    /\ UNCHANGED <<path, size, addr, maps, lost, fd, file, sigmask, overlap>>

\* The result of unlink is ignored.
MkstempUnlink(t) ==
    /\ At(t, "unlink")
    /\ \/ file' = [file EXCEPT ![t] = "unlinked"] /\ NoFailure
       \/ file' = [file EXCEPT ![t] = "left"] /\ Fault(t)
    /\ Goto(t, "unblock")
    /\ NoError
    /\ UNCHANGED <<path, size, addr, maps, lost, fd, sigmask, umask, prev_umask, overlap>>

\* With a file on to posix_fallocate; without one the error that mkstemp left
\* in errno is saved, and util_map_tmpfile has nothing to close.
MkstempUnblock(t) ==
    /\ At(t, "unblock")
    /\ sigmask' = [sigmask EXCEPT ![t] = "open"]
    /\ Saved(t, errno[t])
    /\ Goto(t, IF fd[t] THEN "fallocate" ELSE "fail")
    /\ NoFailure
    /\ UNCHANGED <<errormsg, failed>>
    /\ UNCHANGED <<path, size, addr, maps, lost, fd, file, umask, prev_umask, overlap>>

\* chattr can fail and is not asked; posix_fallocate returns its errno.
Fallocate(t) ==
    /\ At(t, "fallocate")
    /\ \/ Fault(t) /\ Perror(t, "posix_fallocate", "ENOSPC") /\ Goto(t, "close")
       \/ /\ Saved(t, "OK")
          /\ Goto(t, "tmpmap")
          /\ NoFailure
          /\ UNCHANGED <<errormsg, failed>>
    /\ UNCHANGED <<path, size, addr, osVars>>

TmpMap(t) ==
    /\ At(t, "tmpmap")
    /\ \/ MapFails(t) /\ UNCHANGED <<maps, addr>>
       \/ MapTo(t, size[t], "tmp") /\ NoFailure /\ NoError
    /\ Goto(t, "close")
    /\ UNCHANGED <<path, size, lost, fd, file, sigmask, umask, prev_umask, overlap>>

\* Faulty variant: the error exit keeps the descriptor.
AfterClose_OnlyOnSuccess(t) == addr[t] = "null"

AfterClose(t) == FALSE

\* The descriptor is closed whether or not there is a mapping; close may fail,
\* and errno is the one from before it.  The unlinked file goes with the last
\* of its descriptor and its mapping.
CloseFd(t) ==
    /\ At(t, "close")
    /\ fd' = [fd EXCEPT ![t] = AfterClose(t)]
    /\ file' = [file EXCEPT ![t] = IF @ = "unlinked" /\ addr[t] = "null" THEN "none" ELSE @]
    /\ Saved(t, errno[t])
    /\ Goto(t, IF addr[t] = "null" THEN "fail" ELSE "heap")
    /\ NoFailure
    /\ UNCHANGED <<errormsg, failed>>
    /\ UNCHANGED <<path, size, addr, maps, lost, sigmask, umask, prev_umask, overlap>>

------------------------------------------------------------------------------
(***************************************************************************)
(* util_unmap(addr, cache->size): a device was mapped as a whole, but only  *)
(* cache->size bytes of it are given back.  The device may refuse to have   *)
(* its mapping cut; the result is ignored.                                  *)
(***************************************************************************)
UnmapPart(t) == roundup(size[t], Mmap_align)

UnmapMemory(t) ==
    /\ maps' = [maps EXCEPT ![t] = 0]
    /\ lost' = [lost EXCEPT ![t] = IF UnmapPart(t) < maps[t] THEN addr[t] ELSE @]
    /\ \/ NoFailure /\ NoError
       \/ UnmapPart(t) < maps[t] /\ Fault(t) /\ Perror(t, "munmap", "EINVAL")

util_unmap(t) ==
    /\ UnmapMemory(t)
    /\ file' = [file EXCEPT ![t] = IF @ = "unlinked" THEN "none" ELSE @]
    /\ UNCHANGED <<fd, sigmask, umask, prev_umask, overlap>>

\* The next step of a call that is getting hold of the pool.
PoolStep(t) ==
    \/ FileType(t) \/ DaxLength(t) \/ DaxOpen(t) \/ DaxMap(t)
    \/ TmpSize(t) \/ TmpOpen(t) \/ MkstempBlock(t) \/ MkstempUmask(t) \/ Mkstemp(t)
    \/ MkstempUnmask(t) \/ MkstempUnlink(t) \/ MkstempUnblock(t)
    \/ Fallocate(t) \/ TmpMap(t) \/ CloseFd(t)
==============================================================================
