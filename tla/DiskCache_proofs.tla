-------------------------- MODULE DiskCache_proofs --------------------------
(***************************************************************************)
(* What the runs of DiskCache check on three sectors, for any number of    *)
(* sectors, any data and any length of request.                            *)
(***************************************************************************)
EXTENDS DiskCache, WellFoundedInduction, TLAPS

Below == {ss \in Nat \X Nat : ss[1] < ss[2]}

(* A set of natural numbers has a least one, and Min finds it.             *)
LEMMA MinOfNats ==
  ASSUME NEW B, B \subseteq Nat, B # {}
  PROVE  Min(B) \in B /\ \A y \in B : Min(B) <= y
<1>1. IsWellFoundedOn(Below, Nat)
  BY NatLessThanWellFounded DEF OpToRel, Below
<1>2. PICK x \in B : \A y \in B : ~(<<y, x>> \in Below)
  BY <1>1, WFMin, Zenon
<1>3. ASSUME NEW y \in B
      PROVE  x <= y
  <2>1. x \in Nat /\ y \in Nat /\ <<y, x>> \in Nat \X Nat
    OBVIOUS
  <2>2. ~(<<y, x>>[1] < <<y, x>>[2])
    BY <1>2, <2>1, Zenon DEF Below
  <2> QED BY <2>1, <2>2
<1>4. Min(B) \in B /\ \A y \in B : Min(B) <= y
  BY <1>3, Zenon DEF Min
<1> QED BY <1>4

LEMMA MaxOfInterval ==
  ASSUME NEW a \in Int, NEW b \in Int, a <= b
  PROVE  Max(a .. b) = b
<1>1. b \in a .. b /\ \A y \in a .. b : b >= y
  OBVIOUS
<1>2. \A m \in a .. b : (\A y \in a .. b : m >= y) => m = b
  OBVIOUS
<1>3. Max(a .. b) \in a .. b /\ \A y \in a .. b : Max(a .. b) >= y
  BY <1>1, Zenon DEF Max
<1> QED BY <1>2, <1>3, Zenon

(* Nothing is cached once the cache is disabled, and a flush has exactly   *)
(* the dirty sectors before it.                                            *)
FlushInv ==
  /\ ~enabled => \A s \in Sectors : ~Cached(s)
  /\ flushing = "none" => pending = {}
  /\ flushing # "none" => pending = {s \in Sectors : Dirty(s)} /\ result = "none" /\ answer = <<>>

(* A shadow marks no page.                                                 *)
ShadowInv == mode = 1 => \A s \in Sectors : ~Dirty(s)

IInv == Types /\ FlushInv /\ CleanMatchesDisk /\ FlushedIsClean /\ ShadowInv

(* The modes in which a disk may be used through the cache.                *)
Sound == mode \in 1 .. 3
SoundModes == 0 \notin Modes

LEMMA NoPageIsNoPage == \A p \in Page : p # NoPage
  BY DiskAssumption

LEMMA FirstPending ==
  ASSUME Types, pending # {}
  PROVE  Min(pending) \in pending /\ Min(pending) \in Sectors
<1>1. pending \subseteq Nat
  BY DiskAssumption DEF Types, Sectors
<1> QED BY <1>1, MinOfNats, Zenon DEF Types

LEMMA InitIInv == Init => IInv
<1> SUFFICES ASSUME Init PROVE IInv
  OBVIOUS
<1>1. \A s \in Sectors : cache[s] = NoPage
  BY DEF Init, EmptyCache
<1>2. Types
  BY DEF Init, Types, EmptyCache
<1>3. FlushInv /\ CleanMatchesDisk /\ FlushedIsClean /\ ShadowInv
  BY <1>1 DEF Init, FlushInv, CleanMatchesDisk, FlushedIsClean, ShadowInv, Cached, Dirty
<1> QED BY <1>2, <1>3 DEF IInv

LEMMA RefuseStep ==
  ASSUME IInv, UNCHANGED <<mode, allows>>, NEW access, Refuse(access)
  PROVE  IInv'
<1>1. /\ flushing = "none" /\ result' = "failed"
      /\ UNCHANGED <<disk, cache, enabled, flushing, pending, torn>>
  BY DEF Refuse
<1> QED BY <1>1 DEF IInv, Types, FlushInv, CleanMatchesDisk, FlushedIsClean, ShadowInv, Cached, Dirty

LEMMA ReadStep ==
  ASSUME IInv, UNCHANGED <<mode, allows>>, NEW S \in Ranges, Read(S) \/ ReadThrough(S) \/ ReadFails(S)
  PROVE  IInv'
<1>1. /\ flushing = "none" /\ flushing' = "none"
      /\ disk' = disk /\ enabled' = enabled /\ pending' = pending /\ torn' = torn
      /\ result' \in {"read", "failed"}
  BY DEF Read, ReadThrough, ReadFails
<1>2. /\ cache' \in [Sectors -> Page \cup {NoPage}]
      /\ \A s \in Sectors :
           cache'[s] = cache[s] \/ (cache'[s] = [dirty |-> FALSE, data |-> disk[s]] /\ enabled)
  <2>0. \A s \in Sectors : [dirty |-> FALSE, data |-> disk[s]] \in Page
    BY DEF IInv, Types, Page
  <2>1. CASE Read(S)
    BY <2>0, <2>1 DEF Read, IInv, Types
  <2>2. CASE ReadThrough(S)
    BY <2>2 DEF ReadThrough, IInv, Types
  <2>3. CASE ReadFails(S)
    <3> DEFINE missing == {s \in S : ~(ReadCached /\ enabled) \/ ~Cached(s)}
    <3>1. PICK bad \in missing :
            cache' = [s \in Sectors |-> IF s \in {u \in missing : \E t \in S \ missing : u < t /\ t < bad}
                                        THEN [dirty |-> FALSE, data |-> disk[s]] ELSE cache[s]]
      BY <2>3 DEF ReadFails
    <3>2. ~enabled => S \ missing = {}
      OBVIOUS
    <3> HIDE DEF missing
    <3> QED BY <2>0, <3>1, <3>2 DEF IInv, Types
  <2> QED BY <2>1, <2>2, <2>3
<1>3. Types'
  BY <1>1, <1>2 DEF IInv, Types
<1>4. FlushInv'
  BY <1>1, <1>2 DEF IInv, FlushInv, Cached
<1>5. CleanMatchesDisk'
  <2> SUFFICES ASSUME mode # 1, NEW s \in Sectors \ torn', cache'[s] # NoPage, ~cache'[s].dirty
               PROVE  cache'[s].data = disk'[s]
    BY DEF CleanMatchesDisk, Cached, Dirty
  <2> QED BY <1>1, <1>2 DEF IInv, CleanMatchesDisk, Cached, Dirty
<1>6. FlushedIsClean' /\ ShadowInv'
  BY <1>1, <1>2 DEF IInv, FlushedIsClean, ShadowInv, Cached, Dirty
<1> QED BY <1>3, <1>4, <1>5, <1>6 DEF IInv

(* What the device does in a write.                                        *)
LEMMA DeviceWrites ==
  ASSUME NEW S \in Ranges, NEW data \in [S -> Data], Types, DeviceWrite(S, data)
  PROVE  /\ disk' \in [Sectors -> Data]
         /\ \A s \in Sectors : disk'[s] = disk[s] \/ (s \in S /\ disk'[s] = data[s])
         /\ result' \in {"written", "failed"}
         /\ result' = "written" => \A s \in S : disk'[s] = data[s]
<1>1. PICK end \in S \cup {Max(S) + 1} :
        /\ IF "write" \in allows THEN end \in S => WritesFail ELSE end = Min(S)
        /\ disk' = [s \in Sectors |-> IF s \in S /\ s < end THEN data[s] ELSE disk[s]]
        /\ result' = IF end \in S THEN "failed" ELSE "written"
  BY DEF DeviceWrite
<1>2. disk' \in [Sectors -> Data]
  BY <1>1 DEF Types
<1>3. ASSUME result' = "written"
      PROVE  \A s \in S : disk'[s] = data[s]
  <2>1. end = Max(S) + 1
    BY <1>1, <1>3
  <2>2. \A s \in S : s <= Max(S) /\ Max(S) \in Nat
    <3>1. PICK first \in Sectors, count \in 1 .. MaxCount : S = first .. first + count - 1
      BY DEF Ranges, Requests
    <3>2. first \in Int /\ first + count - 1 \in Int /\ first <= first + count - 1 /\ first \in Nat
      BY DiskAssumption DEF Sectors
    <3>3. Max(S) = first + count - 1
      BY <3>1, <3>2, MaxOfInterval, Zenon
    <3> QED BY <3>1, <3>2, <3>3
  <2>3. S \subseteq Sectors
    BY DEF Ranges
  <2> QED BY <1>1, <2>1, <2>2, <2>3 DEF Sectors
<1> QED BY <1>1, <1>2, <1>3

(* `write` 3, and any mode once the cache is disabled.                     *)
LEMMA WriteStep ==
  ASSUME IInv, Sound, UNCHANGED <<mode, allows>>,
         NEW S \in Ranges, NEW data \in [S -> Data],
         WriteThrough(S, data) \/ WriteThru(S, data) \/ WriteBack(S, data) \/ WriteShadow(S, data)
  PROVE  IInv'
<1>0. S \subseteq Sectors /\ \A s \in S, b \in BOOLEAN : [dirty |-> b, data |-> data[s]] \in Page
  BY DEF Ranges, Page
<1>1. CASE WriteThrough(S, data)
  <2>1. ~enabled /\ UNCHANGED <<cache, enabled, flushing, pending, torn>> /\ DeviceWrite(S, data) /\ flushing = "none"
    BY <1>1 DEF WriteThrough, Sound
  <2>2. disk' \in [Sectors -> Data] /\ result' \in {"written", "failed"}
    BY <2>1, DeviceWrites DEF IInv
  <2>3. Types' /\ FlushInv'
    BY <2>1, <2>2 DEF IInv, Types, FlushInv, Cached
  <2>4. CleanMatchesDisk' /\ FlushedIsClean' /\ ShadowInv'
    BY <2>1, <2>2 DEF IInv, FlushInv, CleanMatchesDisk, FlushedIsClean, ShadowInv, Cached, Dirty
  <2> QED BY <2>3, <2>4 DEF IInv
<1>2. CASE WriteThru(S, data)
  <2>1. /\ mode = 2 /\ enabled /\ UNCHANGED <<enabled, flushing, pending>> /\ DeviceWrite(S, data) /\ flushing = "none"
        /\ cache' = Updated(S, data, FALSE) /\ torn' = IF result' = "failed" THEN torn \cup S ELSE torn \ S
    BY <1>2 DEF WriteThru
  <2>2. /\ disk' \in [Sectors -> Data] /\ result' \in {"written", "failed"}
        /\ \A s \in Sectors \ S : disk'[s] = disk[s]
        /\ result' = "written" => \A s \in S : disk'[s] = data[s]
    BY <2>1, DeviceWrites DEF IInv
  <2>3. Types'
    BY <1>0, <2>1, <2>2 DEF IInv, Types, Updated
  <2>4. CleanMatchesDisk'
    <3> SUFFICES ASSUME mode # 1, NEW s \in Sectors \ torn', cache'[s] # NoPage, ~cache'[s].dirty
                 PROVE  cache'[s].data = disk'[s]
      BY DEF CleanMatchesDisk, Cached, Dirty
    <3>1. CASE s \in S
      BY <3>1, <2>1, <2>2 DEF Updated
    <3>2. CASE s \notin S
      BY <3>2, <2>1, <2>2 DEF Updated, IInv, CleanMatchesDisk, Cached, Dirty
    <3> QED BY <3>1, <3>2
  <2> QED BY <2>1, <2>2, <2>3, <2>4 DEF IInv, FlushInv, FlushedIsClean, ShadowInv
<1>3. CASE WriteBack(S, data)
  <2>1. /\ mode = 3 /\ enabled /\ UNCHANGED <<disk, enabled, flushing, pending, torn>> /\ flushing = "none"
        /\ cache' = Updated(S, data, TRUE) /\ result' = "written"
    BY <1>3 DEF WriteBack, Sound
  <2>2. Types'
    BY <1>0, <2>1 DEF IInv, Types, Updated
  <2>3. CleanMatchesDisk'
    BY <2>1 DEF Updated, IInv, CleanMatchesDisk, Cached, Dirty
  <2> QED BY <2>1, <2>2, <2>3 DEF IInv, FlushInv, FlushedIsClean, ShadowInv
<1>4. CASE WriteShadow(S, data)
  <2>1. /\ mode = 1 /\ enabled /\ UNCHANGED <<disk, enabled, flushing, pending, torn>> /\ flushing = "none"
        /\ cache' = Updated(S, data, FALSE) /\ result' = "written"
    BY <1>4 DEF WriteShadow
  <2>2. Types'
    BY <1>0, <2>1 DEF IInv, Types, Updated
  <2>3. ShadowInv'
    BY <2>1 DEF Updated, IInv, ShadowInv, Cached, Dirty
  <2> QED BY <2>1, <2>2, <2>3 DEF IInv, FlushInv, FlushedIsClean, CleanMatchesDisk
<1> QED BY <1>1, <1>2, <1>3, <1>4

LEMMA BeginFlushStep ==
  ASSUME IInv, UNCHANGED <<mode, allows>>, NEW op \in {"sync", "void", "disable"}, BeginFlush(op)
  PROVE  IInv'
<1>1. /\ flushing' = op /\ pending' = {s \in Sectors : Dirty(s)} /\ result' = "none"
      /\ answer' = <<>> /\ UNCHANGED <<disk, cache, enabled, torn>>
  BY DEF BeginFlush
<1>2. Types' /\ FlushInv'
  BY <1>1 DEF IInv, Types, FlushInv, Cached, Dirty
<1>3. CleanMatchesDisk' /\ FlushedIsClean' /\ ShadowInv'
  BY <1>1 DEF IInv, CleanMatchesDisk, FlushedIsClean, ShadowInv, Cached, Dirty
<1> QED BY <1>2, <1>3 DEF IInv

LEMMA FlushSectorStep ==
  ASSUME IInv, UNCHANGED <<mode, allows>>, FlushSector
  PROVE  IInv'
<1> DEFINE s == Min(pending)
<1>1. /\ pending # {}
      /\ disk' = [disk EXCEPT ![s] = cache[s].data]
      /\ cache' = [cache EXCEPT ![s].dirty = FALSE]
      /\ pending' = pending \ {s}
      /\ UNCHANGED <<enabled, flushing, answer, result, torn>>
  BY DEF FlushSector
<1>2. s \in pending /\ s \in Sectors
  BY <1>1, FirstPending DEF IInv
<1> HIDE DEF s
<1>3. flushing # "none" /\ pending = {u \in Sectors : Dirty(u)} /\ result = "none" /\ answer = <<>>
  BY <1>1 DEF IInv, FlushInv
<1>4. cache[s] \in Page /\ cache[s] # NoPage
  BY <1>2, <1>3 DEF IInv, Types, Dirty, Cached
<1>5. /\ cache'[s] \in Page /\ cache'[s].dirty = FALSE /\ cache'[s].data = cache[s].data
      /\ \A u \in Sectors : u # s => cache'[u] = cache[u] /\ disk'[u] = disk[u]
      /\ disk'[s] = cache[s].data
  BY <1>1, <1>2, <1>4 DEF IInv, Types, Page
<1>6. Types'
  BY <1>1, <1>2, <1>4, <1>5 DEF IInv, Types, Page
<1>7. pending' = {u \in Sectors : Dirty(u)}'
  <2>1. \A u \in Sectors : Dirty(u)' <=> Dirty(u) /\ u # s
    BY <1>2, <1>5, <1>4 DEF Dirty, Cached
  <2> QED BY <1>1, <1>3, <2>1
<1>8. FlushInv'
  BY <1>1, <1>3, <1>4, <1>2, <1>7 DEF IInv, FlushInv, Cached
<1>9. CleanMatchesDisk'
  <2> SUFFICES ASSUME mode # 1, NEW u \in Sectors \ torn', cache'[u] # NoPage, ~cache'[u].dirty
               PROVE  cache'[u].data = disk'[u]
    BY DEF CleanMatchesDisk, Cached, Dirty
  <2> QED BY <1>1, <1>5 DEF IInv, CleanMatchesDisk, Cached, Dirty
<1>10. FlushedIsClean' /\ ShadowInv'
  BY <1>1, <1>2, <1>3 DEF IInv, FlushedIsClean, ShadowInv
<1> QED BY <1>6, <1>8, <1>9, <1>10 DEF IInv

LEMMA FlushFailsStep == ASSUME IInv, UNCHANGED <<mode, allows>>, FlushFails PROVE IInv'
<1>1. /\ flushing' = "none" /\ pending' = {} /\ result' = "failed"
      /\ UNCHANGED <<disk, cache, enabled, torn>>
  BY DEF FlushFails
<1> QED BY <1>1 DEF IInv, Types, FlushInv, CleanMatchesDisk, FlushedIsClean, ShadowInv, Cached, Dirty

LEMMA EndFlushStep == ASSUME IInv, UNCHANGED <<mode, allows>>, EndFlush PROVE IInv'
<1>1. /\ flushing # "none" /\ pending = {} /\ flushing' = "none" /\ pending' = {} /\ disk' = disk
      /\ cache' = IF flushing = "sync" THEN cache ELSE EmptyCache
      /\ enabled' = (enabled /\ flushing # "disable")
      /\ torn' = IF flushing = "sync" THEN torn ELSE {}
      /\ result' \in {"key_error", "flushed"}
  BY DEF EndFlush, IInv, FlushInv
<1>2. \A s \in Sectors : ~Dirty(s)
  BY <1>1 DEF IInv, FlushInv
<1>3. \A s \in Sectors : cache'[s] = NoPage \/ cache'[s] = cache[s]
  BY <1>1 DEF EmptyCache
<1>4. ~enabled' => \A s \in Sectors : cache'[s] = NoPage
  BY <1>1 DEF IInv, FlushInv, EmptyCache, Cached, Types
<1>5. Types'
  BY <1>1 DEF IInv, Types, EmptyCache
<1>6. \A s \in Sectors : ~Dirty(s)'
  BY <1>2, <1>3 DEF Dirty, Cached
<1>7. CleanMatchesDisk'
  <2>1. CASE flushing = "sync"
    BY <1>1, <2>1 DEF IInv, CleanMatchesDisk, Cached, Dirty
  <2>2. CASE flushing # "sync"
    BY <1>1, <2>2 DEF CleanMatchesDisk, Cached, EmptyCache
  <2> QED BY <2>1, <2>2
<1>8. FlushInv' /\ FlushedIsClean' /\ ShadowInv'
  BY <1>1, <1>4, <1>6 DEF FlushInv, FlushedIsClean, ShadowInv, Cached
<1> QED BY <1>5, <1>7, <1>8 DEF IInv

LEMMA CrashStep == ASSUME IInv, UNCHANGED <<mode, allows>>, Crash PROVE IInv'
<1>1. /\ cache' = EmptyCache /\ enabled' = TRUE /\ flushing' = "none" /\ pending' = {}
      /\ result' = "none" /\ disk' = disk /\ torn' = {}
  BY DEF Crash
<1>2. \A s \in Sectors : cache'[s] = NoPage
  BY <1>1 DEF EmptyCache
<1>3. Types'
  BY <1>1 DEF IInv, Types, EmptyCache
<1> QED BY <1>1, <1>2, <1>3 DEF IInv, FlushInv, CleanMatchesDisk, FlushedIsClean, ShadowInv, Cached, Dirty

LEMMA NextStep ==
  ASSUME IInv, Sound, [Next]_vars
  PROVE  IInv' /\ Sound'
<1>0. Sound'
  <2>1. mode' = mode
    BY DEF Next, vars
  <2> QED BY <2>1 DEF Sound
<1>1. ASSUME UNCHANGED vars PROVE IInv'
  BY <1>1 DEF vars, IInv, Types, FlushInv, CleanMatchesDisk, FlushedIsClean, ShadowInv, Cached, Dirty
<1>2. ASSUME Step, UNCHANGED <<mode, allows>> PROVE IInv'
  BY <1>2, RefuseStep, ReadStep, WriteStep, BeginFlushStep, FlushSectorStep, FlushFailsStep, EndFlushStep, CrashStep
     DEF Step
<1>3. IInv'
  BY <1>1, <1>2 DEF Next
<1> QED BY <1>0, <1>3

(* The cache of the floppy (`write` 3), that of a disk (`write` 2) and a   *)
(* shadow (`write` 1), whatever the device fails at: but in a shadow, a    *)
(* clean page is what the disk holds, unless the last write of its sector  *)
(* failed.                                                                 *)
THEOREM CacheIsSound ==
  ASSUME SoundModes
  PROVE  Spec => []CleanMatchesDisk
<1>0. Init => Sound
  BY DiskAssumption DEF Init, Sound, SoundModes
<1>1. IInv /\ Sound /\ [Next]_vars => IInv' /\ Sound'
  BY NextStep
<1>2. IInv => CleanMatchesDisk
  BY DEF IInv
<1> QED BY <1>0, <1>1, <1>2, InitIInv, PTL DEF Spec

(* A flush of sync_cache, void_cache or disable_cache that was reported    *)
(* done left no page dirty, whatever failed before it.                     *)
THEOREM FlushWritesAll ==
  ASSUME SoundModes
  PROVE  Spec => []FlushedIsClean
<1>0. Init => Sound
  BY DiskAssumption DEF Init, Sound, SoundModes
<1>1. IInv /\ Sound /\ [Next]_vars => IInv' /\ Sound'
  BY NextStep
<1>2. IInv => FlushedIsClean
  BY DEF IInv
<1> QED BY <1>0, <1>1, <1>2, InitIInv, PTL DEF Spec

(* No flush has a page of a shadow before it, so that only the write which *)
(* a disabled cache leaves to the device may change the disk.              *)
LEMMA ShadowStep ==
  ASSUME IInv, mode = 1, enabled, [Next]_vars
  PROVE  UNCHANGED disk
<1>1. CASE UNCHANGED vars
  BY <1>1 DEF vars
<1>2. CASE FlushSector
  BY <1>2 DEF FlushSector, IInv, FlushInv, ShadowInv
<1>3. ASSUME NEW S \in Ranges, Read(S) \/ ReadThrough(S) \/ ReadFails(S)
      PROVE  UNCHANGED disk
  BY <1>3 DEF Read, ReadThrough, ReadFails
<1>4. ASSUME NEW S \in Ranges, NEW data \in [S -> Data],
             WriteThrough(S, data) \/ WriteThru(S, data) \/ WriteBack(S, data) \/ WriteShadow(S, data)
      PROVE  UNCHANGED disk
  BY <1>4 DEF WriteThrough, WriteThru, WriteBack, WriteShadow
<1>5. CASE FlushFails \/ EndFlush \/ Crash \/ \E op \in {"sync", "void", "disable"} : BeginFlush(op)
  BY <1>5 DEF FlushFails, EndFlush, Crash, BeginFlush
<1>6. ASSUME NEW access, Refuse(access)
      PROVE  UNCHANGED disk
  BY <1>6 DEF Refuse
<1> QED BY <1>1, <1>2, <1>3, <1>4, <1>5, <1>6 DEF Next, Step

(* The promise of `write` 1, over any device: not even the flushes of      *)
(* sync_cache, void_cache and disable_cache reach the disk while the       *)
(* shadow is on.                                                           *)
THEOREM ShadowNeverFlushed == Spec => NeverFlushed
<1> DEFINE Shadow == mode = 1 => IInv
<1>1. Init => Shadow
  BY InitIInv
<1>2. Shadow /\ [Next]_vars => Shadow'
  <2> SUFFICES ASSUME Shadow, [Next]_vars, mode' = 1 PROVE IInv'
    OBVIOUS
  <2>1. mode = 1
    BY DEF Next, vars
  <2> QED BY <2>1, NextStep DEF Sound
<1>3. Shadow /\ [Next]_vars => [mode = 1 /\ enabled => UNCHANGED disk]_vars
  BY ShadowStep
<1> QED BY <1>1, <1>2, <1>3, PTL DEF Spec, NeverFlushed

-----------------------------------------------------------------------------
(* The refinement: what a sector reads as is the page, if there is one.    *)

Content == [s \in Sectors |-> IF Cached(s) THEN cache[s].data ELSE disk[s]]

LEMMA ContentOf ==
  ASSUME IInv
  PROVE  Content \in [Sectors -> Data]
<1>1. \A s \in Sectors : Cached(s) => cache[s].data \in Data
  BY DEF IInv, Types, Page, Cached
<1> QED BY <1>1 DEF Content, IInv, Types

LEMMA ReadRefines ==
  ASSUME IInv, ReadCached, NEW S \in Ranges, Read(S) \/ ReadThrough(S) \/ ReadFails(S)
  PROVE  Logical!Read(S) \/ Logical!Nothing
<1>0. S \subseteq Sectors
  BY DEF Ranges
<1>1. CASE Read(S)
  <2>1. Content' = Content
    BY <1>1, NoPageIsNoPage DEF Read, Content, Cached, IInv, Types, Page
  <2>2. answer' = [s \in S |-> Content[s]]
    BY <1>0, <1>1 DEF Read, Content
  <2>3. disk' = disk /\ result' = "read"
    BY <1>1 DEF Read
  <2> QED BY <2>1, <2>2, <2>3 DEF Logical!Read, Content
<1>2. CASE ReadThrough(S)
  <2>1. Content' = Content
    BY <1>2 DEF ReadThrough, Content, Cached
  <2>2. \A s \in Sectors : Content[s] = disk[s]
    BY <1>2 DEF ReadThrough, Content, IInv, FlushInv
  <2>3. answer' = [s \in S |-> Content[s]]
    BY <1>0, <1>2, <2>2 DEF ReadThrough
  <2>4. disk' = disk /\ result' = "read"
    BY <1>2 DEF ReadThrough
  <2> QED BY <2>1, <2>3, <2>4 DEF Logical!Read, Content
<1>3. CASE ReadFails(S)
  <2>1. \A s \in Sectors : cache'[s] = cache[s] \/ (~Cached(s) /\ cache'[s] = [dirty |-> FALSE, data |-> disk[s]])
    <3> DEFINE missing == {s \in S : ~(ReadCached /\ enabled) \/ ~Cached(s)}
    <3>1. PICK bad \in missing :
            cache' = [s \in Sectors |-> IF s \in {u \in missing : \E t \in S \ missing : u < t /\ t < bad}
                                        THEN [dirty |-> FALSE, data |-> disk[s]] ELSE cache[s]]
      BY <1>3 DEF ReadFails
    <3>2. \A s \in missing : ~Cached(s)
      BY <1>0 DEF IInv, FlushInv
    <3> HIDE DEF missing
    <3> QED BY <3>1, <3>2
  <2>2. disk' = disk /\ result' = "failed" /\ answer' = <<>>
    BY <1>3 DEF ReadFails
  <2>3. Content' = Content
    <3>1. \A s \in Sectors : [dirty |-> FALSE, data |-> disk[s]] \in Page
      BY DEF IInv, Types, Page
    <3>2. ASSUME NEW s \in Sectors
          PROVE  Content'[s] = Content[s]
      <4>1. CASE cache'[s] = cache[s]
        BY <2>2, <4>1 DEF Content, Cached
      <4>2. CASE ~Cached(s) /\ cache'[s] = [dirty |-> FALSE, data |-> disk[s]]
        <5>1. cache'[s] # NoPage /\ cache'[s].data = disk[s]
          BY <3>1, <4>2, NoPageIsNoPage
        <5> QED BY <2>2, <4>2, <5>1 DEF Content, Cached
      <4> QED BY <2>1, <4>1, <4>2
    <3> QED BY <3>2 DEF Content
  <2> QED BY <2>2, <2>3 DEF Logical!Nothing, Content
<1> QED BY <1>1, <1>2, <1>3

LEMMA WriteRefines ==
  ASSUME IInv, IInv', Sound,
         NEW S \in Ranges, NEW data \in [S -> Data],
         WriteThrough(S, data) \/ WriteThru(S, data) \/ WriteBack(S, data) \/ WriteShadow(S, data)
  PROVE  Logical!Write(S, data)
<1>0. S \subseteq Sectors /\ \A s \in S, b \in BOOLEAN : [dirty |-> b, data |-> data[s]] \in Page
  BY DEF Ranges, Page
<1>1. /\ Content \in [Sectors -> Data] /\ Content' \in [Sectors -> Data]
      /\ disk \in [Sectors -> Data] /\ disk' \in [Sectors -> Data]
  BY ContentOf DEF IInv, Types, Content, Cached, Page
<1>2. /\ answer' = <<>>
      /\ \A s \in Sectors : Content'[s] = Content[s] \/ (s \in S /\ Content'[s] = data[s])
      /\ \A s \in Sectors : disk'[s] = disk[s] \/ (s \in S /\ disk'[s] = data[s])
      /\ result' # "failed" => \A s \in S : Content'[s] = data[s]
  <2>1. CASE WriteThrough(S, data)
    <3>1. ~enabled /\ cache' = cache /\ DeviceWrite(S, data) /\ answer' = <<>>
      BY <2>1 DEF WriteThrough, Sound
    <3>2. \A s \in Sectors : Content[s] = disk[s] /\ Content'[s] = disk'[s]
      BY <3>1 DEF Content, Cached, IInv, FlushInv
    <3>3. /\ \A s \in Sectors : disk'[s] = disk[s] \/ (s \in S /\ disk'[s] = data[s])
          /\ result' \in {"written", "failed"}
          /\ result' = "written" => \A s \in S : disk'[s] = data[s]
      BY <3>1, DeviceWrites DEF IInv
    <3> QED BY <1>0, <3>1, <3>2, <3>3
  <2>2. CASE WriteThru(S, data)
    <3>1. cache' = Updated(S, data, FALSE) /\ DeviceWrite(S, data) /\ answer' = <<>>
      BY <2>2 DEF WriteThru
    <3>2. \A s \in Sectors : disk'[s] = disk[s] \/ (s \in S /\ disk'[s] = data[s])
      BY <3>1, DeviceWrites DEF IInv
    <3>3. \A s \in Sectors : Content'[s] = IF s \in S THEN data[s] ELSE Content[s]
      BY <1>0, <3>1, <3>2, NoPageIsNoPage DEF Content, Cached, Updated
    <3> QED BY <1>0, <3>1, <3>2, <3>3
  <2>3. CASE WriteBack(S, data)
    <3>1. cache' = Updated(S, data, TRUE) /\ disk' = disk /\ answer' = <<>>
      BY <2>3 DEF WriteBack, Sound
    <3>2. \A s \in Sectors : Content'[s] = IF s \in S THEN data[s] ELSE Content[s]
      BY <1>0, <3>1, NoPageIsNoPage DEF Content, Cached, Updated
    <3> QED BY <1>0, <3>1, <3>2
  <2>4. CASE WriteShadow(S, data)
    <3>1. cache' = Updated(S, data, FALSE) /\ disk' = disk /\ answer' = <<>>
      BY <2>4 DEF WriteShadow
    <3>2. \A s \in Sectors : Content'[s] = IF s \in S THEN data[s] ELSE Content[s]
      BY <1>0, <3>1, NoPageIsNoPage DEF Content, Cached, Updated
    <3> QED BY <1>0, <3>1, <3>2
  <2> QED BY <2>1, <2>2, <2>3, <2>4
<1>3. (result' = "failed") \in BOOLEAN
  OBVIOUS
<1> QED BY <1>1, <1>2, <1>3 DEF Logical!Write, Logical!SomeOf, Content

LEMMA FlushRefines ==
  ASSUME IInv, FlushSector
  PROVE  \E s \in Sectors : Logical!Flush(s)
<1> DEFINE s == Min(pending)
<1>1. /\ pending # {}
      /\ disk' = [disk EXCEPT ![s] = cache[s].data]
      /\ cache' = [cache EXCEPT ![s].dirty = FALSE]
      /\ UNCHANGED <<answer, result>>
  BY DEF FlushSector
<1>2. s \in pending /\ s \in Sectors
  BY <1>1, FirstPending DEF IInv
<1> HIDE DEF s
<1>3. pending = {u \in Sectors : Dirty(u)}
  BY <1>1 DEF IInv, FlushInv
<1>4. cache[s] \in Page /\ cache[s] # NoPage
  BY <1>2, <1>3 DEF IInv, Types, Dirty, Cached
<1>5. /\ cache'[s] \in Page /\ cache'[s].data = cache[s].data
      /\ \A u \in Sectors : u # s => cache'[u] = cache[u] /\ disk'[u] = disk[u]
  BY <1>1, <1>2, <1>4 DEF IInv, Types, Page
<1>6. Content' = Content
  <2>1. \A u \in Sectors : Content'[u] = Content[u]
    BY <1>4, <1>5, NoPageIsNoPage DEF Content, Cached
  <2> QED BY <2>1 DEF Content
<1>7. disk' = [disk EXCEPT ![s] = Content[s]]
  BY <1>1, <1>2, <1>4 DEF Content, Cached
<1> QED BY <1>1, <1>2, <1>6, <1>7 DEF Logical!Flush, Content

(* To drop the cache is to lose what was not flushed: nothing, but for the *)
(* writes of a shadow.                                                     *)
LEMMA EndFlushRefines ==
  ASSUME IInv, EndFlush
  PROVE  Logical!Crash \/ UNCHANGED Logical!vars
<1>1. /\ flushing # "none" /\ disk' = disk /\ answer' = answer /\ answer = <<>>
      /\ result' # "failed" /\ result # "failed"
      /\ cache' = IF flushing = "sync" THEN cache ELSE EmptyCache
  BY DEF EndFlush, IInv, FlushInv
<1>2. CASE flushing = "sync"
  <2>1. Content' = Content
    BY <1>1, <1>2 DEF Content, Cached
  <2> QED BY <1>1, <2>1 DEF Logical!vars, Content
<1>3. CASE flushing # "sync"
  <2>1. \A s \in Sectors : Content'[s] = disk[s]
    BY <1>1, <1>3 DEF Content, EmptyCache, Cached
  <2>2. Content' = disk
    BY <2>1 DEF Content, IInv, Types
  <2> QED BY <1>1, <2>2 DEF Logical!Crash, Content
<1> QED BY <1>2, <1>3

LEMMA CrashRefines ==
  ASSUME IInv, Crash
  PROVE  Logical!Crash
<1>1. \A s \in Sectors : Content'[s] = disk[s]
  BY DEF Crash, Content, EmptyCache, Cached
<1>2. Content' = disk
  BY <1>1 DEF Content, IInv, Types
<1> QED BY <1>2 DEF Crash, Logical!Crash, Content

LEMMA NextRefines ==
  ASSUME IInv, IInv', ReadCached, Sound, [Next]_vars
  PROVE  [Logical!Next]_(Logical!vars)
<1>0. \A S \in Ranges : S \in SUBSET Sectors
  BY DEF Ranges
<1>1. CASE UNCHANGED vars
  BY <1>1 DEF vars, Logical!vars, Cached
<1>2. ASSUME NEW S \in Ranges, Read(S) \/ ReadThrough(S) \/ ReadFails(S)
      PROVE  Logical!Next
  BY <1>0, <1>2, ReadRefines DEF Logical!Next
<1>3. ASSUME NEW S \in Ranges, NEW data \in [S -> Data],
             WriteThrough(S, data) \/ WriteThru(S, data) \/ WriteBack(S, data) \/ WriteShadow(S, data)
      PROVE  Logical!Next
  BY <1>0, <1>3, WriteRefines DEF Logical!Next
<1>4. ASSUME NEW op \in {"sync", "void", "disable"}, BeginFlush(op)
      PROVE  Logical!Nothing
  BY <1>4 DEF BeginFlush, Logical!Nothing, Cached
<1>5. CASE FlushSector
  BY <1>5, FlushRefines DEF Logical!Next
<1>6. CASE FlushFails
  BY <1>6 DEF FlushFails, IInv, FlushInv, Logical!Next, Logical!Nothing, Cached
<1>7. CASE EndFlush
  BY <1>7, EndFlushRefines DEF Logical!Next
<1>8. CASE Crash
  BY <1>8, CrashRefines DEF Logical!Next
<1>9. ASSUME NEW access, Refuse(access)
      PROVE  Logical!Nothing
  BY <1>9 DEF Refuse, Logical!Nothing, Cached
<1> QED BY <1>1, <1>2, <1>3, <1>4, <1>5, <1>6, <1>7, <1>8, <1>9 DEF Next, Step, Logical!Next

(* A disk behind the cache, with the parameters that the drivers use, is a *)
(* disk: it reads as what was last written to it, a failed call changes at *)
(* most the sectors it names, and a crash loses only what was not flushed. *)
THEOREM CacheImplementsDisk ==
  ASSUME ReadCached, SoundModes
  PROVE  Spec => ImplementsDisk
<1>0. Init => Sound
  BY DiskAssumption DEF Init, Sound, SoundModes
<1>1. IInv /\ Sound /\ [Next]_vars => IInv' /\ Sound'
  BY NextStep
<1>2. Init => Logical!Init
  BY DEF Init, Logical!Init, EmptyCache, Cached
<1>3. IInv /\ IInv' /\ Sound /\ [Next]_vars => [Logical!Next]_(Logical!vars)
  BY NextRefines
<1> QED BY <1>0, <1>1, <1>2, <1>3, InitIInv, PTL DEF Spec, ImplementsDisk, Logical!Spec
=============================================================================
