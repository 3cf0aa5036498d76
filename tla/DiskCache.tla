----------------------------- MODULE DiskCache -----------------------------
(***************************************************************************)
(* The cache that disk_cache.CachedDisk (python_modules/disk_cache.py)     *)
(* puts before a block device.  Python runs one call at a time, so a read  *)
(* or a write is one step; a flush takes one step per sector, because the  *)
(* power may go between two of them.  The device may fail: a read before   *)
(* it returns anything, a write after some of its sectors.                 *)
(***************************************************************************)
EXTENDS Integers, FiniteSetsExt

CONSTANTS
  N,           \* sectors of the device
  Data,        \* what a sector may hold
  MaxCount,    \* the longest request
  ReadCached,  \* the `read` parameter
  Modes,       \* values of `write`: 0 unchanged, 1 shadow, 2 through, 3 back
  ReadsFail,   \* may the device fail at a read?
  WritesFail,  \* may it fail at a write?
  NoPage       \* a sector that is not in the cache

Sectors == 0 .. N - 1
Page == [dirty : BOOLEAN, data : Data]

ASSUME DiskAssumption ==
  /\ N \in Nat \ {0} /\ MaxCount \in Nat
  /\ ReadCached \in BOOLEAN /\ Modes \subseteq 0 .. 3
  /\ ReadsFail \in BOOLEAN /\ WritesFail \in BOOLEAN
  /\ NoPage \notin Page

VARIABLES
  disk,      \* the medium
  mode,      \* the `write` parameter of cache_disk
  allows,    \* allow_read and allow_write of the device
  cache,     \* self._cache
  enabled,   \* are the cached methods bound (and the disk in cached_disks)?
  flushing,  \* the call that is flushing: "none", "sync", "void", "disable"
  pending,   \* dirty_sectors not yet written by that call
  torn,      \* (history) sectors whose last write failed in the device
  answer,    \* what the last call returned, when it was a read
  result     \* how the last call ended

vars == <<disk, mode, allows, cache, enabled, flushing, pending, torn, answer, result>>

EmptyCache == [s \in Sectors |-> NoPage]
Cached(s) == cache[s] # NoPage
Dirty(s) == Cached(s) /\ cache[s].dirty

Init ==
  /\ disk \in [Sectors -> Data]
  /\ mode \in Modes
  /\ allows \in SUBSET {"read", "write"}
  /\ cache = EmptyCache
  /\ enabled = TRUE
  /\ flushing = "none"
  /\ pending = {}
  /\ torn = {}
  /\ answer = <<>>
  /\ result = "none"

(* The sectors of a request.                                               *)
Requests == {first .. first + count - 1 : first \in Sectors, count \in 1 .. MaxCount}
Ranges == {S \in Requests : S \subseteq Sectors}

(* The test that the cached methods make first: a shadow makes none.       *)
Refuse(access) ==
  /\ flushing = "none"
  /\ enabled
  /\ IF access = "read" THEN ReadCached ELSE mode \in {2, 3}
  /\ access \notin allows
  /\ answer' = <<>>
  /\ result' = "failed"
  /\ UNCHANGED <<disk, cache, enabled, flushing, pending, torn>>

-----------------------------------------------------------------------------
(* Reading                                                                 *)

(* read_sectors of the device itself, when reads are not cached.           *)
ReadThrough(S) ==
  /\ flushing = "none"
  /\ ~(ReadCached /\ enabled)
  /\ answer' = [s \in S |-> disk[s]]
  /\ result' = "read"
  /\ UNCHANGED <<disk, cache, enabled, flushing, pending, torn>>

(* _read_sectors_cached: the missing sectors come from the device and stay *)
(* in the cache, the others from the cache.                                *)
Read(S) ==
  LET missing == {s \in S : ~Cached(s)} IN
  /\ flushing = "none"
  /\ ReadCached /\ enabled /\ "read" \in allows
  /\ answer' = [s \in S |-> IF s \in missing THEN disk[s] ELSE cache[s].data]
  /\ cache' = [s \in Sectors |-> IF s \in missing THEN [dirty |-> FALSE, data |-> disk[s]] ELSE cache[s]]
  /\ result' = "read"
  /\ UNCHANGED <<disk, enabled, flushing, pending, torn>>

(* The device fails at a run of missing sectors: the runs that were read   *)
(* before it stay in the cache.                                            *)
ReadFails(S) ==
  LET missing == {s \in S : ~(ReadCached /\ enabled) \/ ~Cached(s)} IN
  /\ flushing = "none"
  /\ ReadsFail
  /\ ReadCached /\ enabled => "read" \in allows
  /\ \E bad \in missing :
       LET before == {s \in missing : \E t \in S \ missing : s < t /\ t < bad} IN
       cache' = [s \in Sectors |-> IF s \in before THEN [dirty |-> FALSE, data |-> disk[s]] ELSE cache[s]]
  /\ answer' = <<>>
  /\ result' = "failed"
  /\ UNCHANGED <<disk, enabled, flushing, pending, torn>>

-----------------------------------------------------------------------------
(* Writing                                                                 *)

(* _update_cache                                                           *)
Updated(S, data, dirty) ==
  [s \in Sectors |-> IF s \in S THEN [dirty |-> dirty, data |-> data[s]] ELSE cache[s]]

(* write_sectors of the device, which writes the sectors in their order:   *)
(* all of them, or those before the one it fails at, which is the first    *)
(* one if the device cannot be written.                                    *)
DeviceWrite(S, data) ==
  \E end \in S \cup {Max(S) + 1} :
    /\ IF "write" \in allows THEN end \in S => WritesFail ELSE end = Min(S)
    /\ disk' = [s \in Sectors |-> IF s \in S /\ s < end THEN data[s] ELSE disk[s]]
    /\ result' = IF end \in S THEN "failed" ELSE "written"

(* The write that a disabled cache or `write` 0 leaves to the device.      *)
WriteThrough(S, data) ==
  /\ flushing = "none"
  /\ mode = 0 \/ ~enabled
  /\ DeviceWrite(S, data)
  /\ answer' = <<>>
  /\ UNCHANGED <<cache, enabled, flushing, pending, torn>>

(* _write_sectors_thru: the cache is updated before the device is asked.   *)
WriteThru(S, data) ==
  /\ flushing = "none"
  /\ mode = 2 /\ enabled /\ "write" \in allows
  /\ cache' = Updated(S, data, FALSE)
  /\ DeviceWrite(S, data)
  /\ torn' = IF result' = "failed" THEN torn \cup S ELSE torn \ S
  /\ answer' = <<>>
  /\ UNCHANGED <<enabled, flushing, pending>>

(* A write-back whose pages are not marked.                                *)
WriteBackClean(S, data) ==
  /\ flushing = "none"
  /\ mode = 3 /\ enabled /\ "write" \in allows
  /\ cache' = Updated(S, data, FALSE)
  /\ answer' = <<>>
  /\ result' = "written"
  /\ UNCHANGED <<disk, enabled, flushing, pending, torn>>

(* _write_sectors_cached                                                   *)
WriteBack(S, data) ==
  /\ flushing = "none"
  /\ mode = 3 /\ enabled /\ "write" \in allows
  /\ cache' = Updated(S, data, TRUE)
  /\ answer' = <<>>
  /\ result' = "written"
  /\ UNCHANGED <<disk, enabled, flushing, pending, torn>>

(* A shadow whose pages are marked for the device.                         *)
WriteShadowDirty(S, data) ==
  /\ flushing = "none"
  /\ mode = 1 /\ enabled
  /\ cache' = Updated(S, data, TRUE)
  /\ answer' = <<>>
  /\ result' = "written"
  /\ UNCHANGED <<disk, enabled, flushing, pending, torn>>

(* _write_sectors_shadow                                                   *)
WriteShadow(S, data) ==
  /\ flushing = "none"
  /\ mode = 1 /\ enabled
  /\ cache' = Updated(S, data, FALSE)
  /\ answer' = <<>>
  /\ result' = "written"
  /\ UNCHANGED <<disk, enabled, flushing, pending, torn>>

-----------------------------------------------------------------------------
(* Flushing                                                                *)

(* sync_cache, which void_cache and disable_cache call first, collects the *)
(* dirty sectors.                                                          *)
BeginFlush(op) ==
  /\ flushing = "none"
  /\ flushing' = op
  /\ pending' = {s \in Sectors : Dirty(s)}
  /\ answer' = <<>>
  /\ result' = "none"
  /\ UNCHANGED <<disk, cache, enabled, torn>>

(* A flush that marks the page clean before its sector is written.         *)
FlushSectorEarly ==
  LET s == Min(pending) IN
  /\ pending # {}
  /\ cache' = [cache EXCEPT ![s].dirty = FALSE]
  /\ pending' = pending \ {s}
  /\ \/ disk' = [disk EXCEPT ![s] = cache[s].data] /\ UNCHANGED <<flushing, result>>
     \/ WritesFail /\ flushing' = "none" /\ result' = "failed" /\ UNCHANGED disk
  /\ UNCHANGED <<enabled, answer, torn>>

(* The sectors are written in ascending order; a failure ends the flush,   *)
(* and void_cache and disable_cache with it.                               *)
FlushSector ==
  LET s == Min(pending) IN
  /\ pending # {}
  /\ disk' = [disk EXCEPT ![s] = cache[s].data]
  /\ cache' = [cache EXCEPT ![s].dirty = FALSE]
  /\ pending' = pending \ {s}
  /\ UNCHANGED <<enabled, flushing, answer, result, torn>>
FlushFails ==
  /\ pending # {}
  /\ WritesFail
  /\ flushing' = "none"
  /\ pending' = {}
  /\ result' = "failed"
  /\ UNCHANGED <<disk, cache, enabled, answer, torn>>

(* A flush that leaves the loop at a failure and goes on as if it were done*)
EndFlushAnyway ==
  /\ flushing # "none"
  /\ pending = {} \/ WritesFail
  /\ pending' = {}
  /\ cache' = IF flushing = "sync" THEN cache ELSE EmptyCache
  /\ torn' = IF flushing = "sync" THEN torn ELSE {}
  /\ enabled' = (enabled /\ flushing # "disable")
  /\ result' = IF flushing = "disable" /\ ~enabled THEN "key_error" ELSE "flushed"
  /\ flushing' = "none"
  /\ UNCHANGED <<disk, answer>>

(* What is left of void_cache and disable_cache.  Disabling twice ends in  *)
(* a KeyError at `del cached_disks[self]`.                                 *)
EndFlush ==
  /\ flushing # "none"
  /\ pending = {}
  /\ cache' = IF flushing = "sync" THEN cache ELSE EmptyCache
  /\ torn' = IF flushing = "sync" THEN torn ELSE {}
  /\ enabled' = (enabled /\ flushing # "disable")
  /\ result' = IF flushing = "disable" /\ ~enabled THEN "key_error" ELSE "flushed"
  /\ flushing' = "none"
  /\ UNCHANGED <<disk, pending, answer>>

(* The power goes, at any time: the system comes up with a new cache.      *)
Crash ==
  /\ cache' = EmptyCache
  /\ enabled' = TRUE
  /\ flushing' = "none"
  /\ pending' = {}
  /\ torn' = {}
  /\ answer' = <<>>
  /\ result' = "none"
  /\ UNCHANGED disk

(* What one call, or one sector of a flush, does.                          *)
Step ==
  \/ \E access \in {"read", "write"} : Refuse(access)
  \/ \E S \in Ranges : Read(S) \/ ReadThrough(S) \/ ReadFails(S)
  \/ \E S \in Ranges : \E data \in [S -> Data] :
       WriteThrough(S, data) \/ WriteThru(S, data) \/ WriteBack(S, data) \/ WriteShadow(S, data)
  \/ \E op \in {"sync", "void", "disable"} : BeginFlush(op)
  \/ FlushSector \/ FlushFails \/ EndFlush
  \/ Crash

Next == Step /\ UNCHANGED <<mode, allows>>

Spec == Init /\ [][Next]_vars

-----------------------------------------------------------------------------

(* The cache has pages and marks of the right kind.                        *)
Types ==
  /\ disk \in [Sectors -> Data]
  /\ cache \in [Sectors -> Page \cup {NoPage}]
  /\ enabled \in BOOLEAN
  /\ flushing \in {"none", "sync", "void", "disable"}
  /\ pending \subseteq Sectors
  /\ torn \subseteq Sectors
  /\ result \in {"none", "read", "written", "failed", "flushed", "key_error"}

(* A page that is not marked dirty holds what its sector holds, so that    *)
(* dropping it, as void_cache and disable_cache do, loses nothing but data *)
(* whose writer was told of a failure.  In a shadow no page is marked, and *)
(* losing the writes is what it is for.                                    *)
CleanMatchesDisk ==
  mode # 1 =>
    \A s \in Sectors \ torn : Cached(s) /\ ~Dirty(s) => cache[s].data = disk[s]

(* After a flush that was reported done nothing is left to write: a crash  *)
(* right after sync_cache, void_cache or disable_cache loses nothing.      *)
FlushedIsClean == result \in {"flushed", "key_error"} => \A s \in Sectors : ~Dirty(s)

(* `write` 1: "writes update the cache, and are never flushed, not even    *)
(* with `sync`", until the cache is disabled for good.                     *)
NeverFlushed == [][mode = 1 /\ enabled => UNCHANGED disk]_vars

Logical == INSTANCE LogicalDisk WITH
  content <- [s \in Sectors |-> IF Cached(s) THEN cache[s].data ELSE disk[s]],
  medium <- disk,
  failed <- (result = "failed")

(* With the cache in between, a disk still reads as what was last written, *)
(* and after a crash, or once a shadow is dropped, as what the device      *)
(* holds.                                                                  *)
ImplementsDisk == Logical!Spec
=============================================================================
