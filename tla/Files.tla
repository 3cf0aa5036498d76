------------------------------- MODULE Files -------------------------------
(***************************************************************************)
(* The descriptors of lib/c/i386/kludges.c over the Python files that they *)
(* stand for: those of block_device.py, which make bytes of the sectors of *)
(* a disk, and those of ramfs.py.  One disk, which may fail, and one file  *)
(* in memory.  Calls are made one after the other; one that returns an     *)
(* error and does nothing is no step.  Descriptors 0 to 2 are the          *)
(* console's and left out.                                                 *)
(***************************************************************************)
EXTENDS Integers, Sequences, SequencesExt

CONSTANTS
  Limit,      \* memfs_limit_fds
  Behind,     \* the byte behind the table, where in_use of slot Limit would be
  BlockSize,  \* block_size of the disk
  Blocks,     \* its sectors
  Modes,      \* access modes of opens: "RDONLY", "WRONLY", "RDWR"
  Byte,
  Zero,       \* the byte 0
  MaxLen,     \* bound: bytes of a call
  MaxSize,    \* bound: size of the file in memory, and positions
  None        \* a slot that is not in use

Fds == 3 .. Limit - 1
Nodes == {"device", "ram"}
Sector == 0 .. Blocks - 1

ASSUME FilesAssumption ==
  /\ Limit \in Nat /\ Limit > 3 /\ Modes \subseteq {"RDONLY", "WRONLY", "RDWR"} /\ Behind \in BOOLEAN
  /\ BlockSize \in Nat \ {0} /\ Blocks \in Nat \ {0} /\ Zero \in Byte
  /\ MaxLen \in Nat /\ MaxSize \in Nat
  /\ None \notin [node : Nodes, pos : Nat, mode : Modes] \cup [node : Nodes, pos : Nat]

VARIABLES
  memfs_fd,  \* the table: the File in each slot
  disk,      \* the device: what each sector holds
  data       \* _data of the node in memory

vars == <<memfs_fd, disk, data>>

Init ==
  /\ memfs_fd = [fd \in Fds |-> None]
  /\ disk = [s \in Sector |-> [i \in 1 .. BlockSize |-> Zero]]
  /\ data = <<>>

TypeOK ==
  /\ memfs_fd \in [Fds -> [node : Nodes, pos : Nat, mode : Modes] \cup {None}]
  /\ disk \in [Sector -> [1 .. BlockSize -> Byte]]
  /\ data \in Seq(Byte)

Slice(s, a, b) == SubSeq(s, a + 1, IF b < Len(s) THEN b ELSE Len(s))
File(fd) == memfs_fd[fd]
In(fd, node) == File(fd) # None /\ File(fd).node = node
Moved(fd, n) == memfs_fd' = [memfs_fd EXCEPT ![fd].pos = @ + n]

-----------------------------------------------------------------------------
(* BlockDevice: bytes of sectors                                           *)

Fits(first, count) == first + count <= Blocks
ReadSectors(first, count) == FlattenSeq([i \in 1 .. count |-> disk[first + i - 1]])

(* The first sector of `count` bytes, and the one behind the last, which   *)
(* LastBlockShort forgets to be begun.                                     *)
FirstBlock(first) == first \div BlockSize
LastBlockShort(first, count) == (count + first) \div BlockSize
LastBlock(first, count) ==
  ((count + first) \div BlockSize) + (IF (count + first) % BlockSize # 0 THEN 1 ELSE 0)

ReadFits(first, count) == Fits(FirstBlock(first), LastBlock(first, count) - FirstBlock(first))
ReadBytes(first, count) ==
  LET offset == first % BlockSize
      sectors == ReadSectors(FirstBlock(first), LastBlock(first, count) - FirstBlock(first))
  IN IF offset = 0 /\ (count + first) % BlockSize = 0 THEN sectors ELSE Slice(sectors, offset, offset + count)

(* What write_bytes writes, from FirstBlock on: the bytes, and before and  *)
(* behind them what the first and the last sector hold.  PaddedSame takes  *)
(* both from the first.                                                    *)
PaddedSame(first, bytes) ==
  LET leading == first % BlockSize
      trailing == (Len(bytes) + first) % BlockSize
      sector == disk[FirstBlock(first)]
  IN Slice(sector, 0, leading) \o bytes \o (IF trailing = 0 THEN <<>> ELSE Slice(sector, trailing, BlockSize))
Padded(first, bytes) ==
  LET leading == first % BlockSize
      trailing == (Len(bytes) + first) % BlockSize
      last == (Len(bytes) + first) \div BlockSize
  IN (IF leading = 0 THEN <<>> ELSE Slice(disk[FirstBlock(first)], 0, leading)) \o bytes
       \o (IF trailing = 0 THEN <<>> ELSE Slice(disk[last], trailing, BlockSize))

(* The sectors S of the disk hold their part of it.                        *)
Written(first, sectors, S) ==
  [s \in Sector |->
    IF s \in S THEN Slice(sectors, (s - FirstBlock(first)) * BlockSize, (s - FirstBlock(first) + 1) * BlockSize)
    ELSE disk[s]]

-----------------------------------------------------------------------------
(* The calls                                                               *)

(* A file is truncated before there is a slot for it, and stays so if      *)
(* there is none.  The scan looks at the slot behind the table before it   *)
(* compares the limit: it stops there only if that byte is not zero.       *)
Truncated(node, truncate) == data' = IF truncate /\ node = "ram" THEN <<>> ELSE data
Open(node, mode, truncate) ==
  /\ \E fd \in Fds :
       /\ File(fd) = None
       /\ \A lower \in 3 .. fd - 1 : File(lower) # None
       /\ memfs_fd' = [memfs_fd EXCEPT ![fd] = [node |-> node, pos |-> 0, mode |-> mode]]
  /\ Truncated(node, truncate)
  /\ UNCHANGED disk

OpenFull(node, truncate) ==
  /\ \A fd \in Fds : File(fd) # None
  /\ Behind
  /\ Truncated(node, truncate)
  /\ UNCHANGED <<memfs_fd, disk>>

Close(fd) ==
  /\ File(fd) # None
  /\ memfs_fd' = [memfs_fd EXCEPT ![fd] = None]
  /\ UNCHANGED <<disk, data>>

(* What a read of n bytes returns.                                         *)
Readable(fd, n) ==
  /\ File(fd) # None /\ File(fd).mode # "WRONLY"
  /\ File(fd).node = "device" => ReadFits(File(fd).pos, n)
Reply(fd, n) ==
  IF File(fd).node = "device" THEN ReadBytes(File(fd).pos, n) ELSE Slice(data, File(fd).pos, File(fd).pos + n)
Read(fd, n) ==
  /\ Readable(fd, n)
  /\ Moved(fd, Len(Reply(fd, n)))
  /\ UNCHANGED <<disk, data>>

(* ramfs.File.write                                                        *)
Zeros(n) == [i \in 1 .. n |-> Zero]
WriteRam(fd, bytes) ==
  LET pos == File(fd).pos IN
  /\ In(fd, "ram") /\ File(fd).mode # "RDONLY"
  /\ pos + Len(bytes) <= MaxSize
  /\ data' = Slice(data, 0, pos) \o Zeros(pos - Len(data)) \o bytes \o Slice(data, pos + Len(bytes), Len(data))
  /\ Moved(fd, Len(bytes))
  /\ UNCHANGED disk

(* block_device.File.write returns None, and so write() returns -1 though  *)
(* all has been done.                                                      *)
WriteDevice(fd, bytes) ==
  /\ In(fd, "device") /\ File(fd).mode # "RDONLY"
  /\ ReadFits(File(fd).pos, Len(bytes))
  /\ disk' = Written(File(fd).pos, Padded(File(fd).pos, bytes),
                     FirstBlock(File(fd).pos) .. LastBlock(File(fd).pos, Len(bytes)) - 1)
  /\ Moved(fd, Len(bytes))
  /\ UNCHANGED data

(* The disk fails: some of the sectors have been written.                  *)
WriteDeviceFails(fd, bytes) ==
  /\ In(fd, "device") /\ File(fd).mode # "RDONLY"
  /\ ReadFits(File(fd).pos, Len(bytes))
  /\ \E S \in SUBSET (FirstBlock(File(fd).pos) .. LastBlock(File(fd).pos, Len(bytes)) - 1) :
       disk' = Written(File(fd).pos, Padded(File(fd).pos, bytes), S)
  /\ UNCHANGED <<memfs_fd, data>>

(* lseek, by an offset from the start, the position, or the end: of the    *)
(* end of a device no one knows.                                           *)
Lseek(fd, pos) ==
  /\ File(fd) # None
  /\ memfs_fd' = [memfs_fd EXCEPT ![fd].pos = pos]
  /\ UNCHANGED <<disk, data>>

Next ==
  \/ \E node \in Nodes, mode \in Modes, truncate \in BOOLEAN : Open(node, mode, truncate)
  \/ \E node \in Nodes, truncate \in BOOLEAN : OpenFull(node, truncate)
  \/ \E fd \in Fds :
       \/ Close(fd)
       \/ \E n \in 1 .. MaxLen :
            \/ Read(fd, n)
            \/ \E bytes \in [1 .. n -> Byte] :
                 WriteRam(fd, bytes) \/ WriteDevice(fd, bytes) \/ WriteDeviceFails(fd, bytes)
       \/ \E pos \in 0 .. MaxSize : Lseek(fd, pos)

Spec == Init /\ [][Next]_vars

-----------------------------------------------------------------------------

(* The bytes that the sectors make, without the arithmetic of the code.    *)
DeviceBytes == FlattenSeq([i \in 1 .. Blocks |-> disk[i - 1]])

(* A read returns the bytes that are at the position, wherever that is in  *)
(* a sector and however many sectors they are in, or is refused when they  *)
(* are not all on the disk.                                                *)
ReadsWhatIsThere ==
  \A fd \in Fds, n \in 1 .. MaxLen :
    In(fd, "device") /\ File(fd).mode # "WRONLY" =>
      /\ Readable(fd, n) <=> File(fd).pos + n <= Len(DeviceBytes)
      /\ Readable(fd, n) => Reply(fd, n) = SubSeq(DeviceBytes, File(fd).pos + 1, File(fd).pos + n)

FileBytes == [node \in Nodes |-> IF node = "device" THEN DeviceBytes ELSE data]
Positions == [fd \in Fds |-> IF File(fd) = None THEN None ELSE [node |-> File(fd).node, pos |-> File(fd).pos]]
Bytes == INSTANCE ByteFiles WITH bytes <- FileBytes, open <- Positions

(* Descriptors are positions in sequences of bytes: a write leaves all     *)
(* bytes alone that are not its own, even if the disk fails under it, one  *)
(* descriptor does not move another, and a gap reads as zeros.             *)
ImplementsByteFiles == Bytes!Spec
=============================================================================
