-------------------------------- MODULE Ext2 --------------------------------
(***************************************************************************)
(* What python_modules/ext2.py does to the blocks, the inodes and the      *)
(* names of a file system, and in which order it writes that to the disk:  *)
(* the power may go between two writes.  Calls are made one after the      *)
(* other.  What the files hold is left out, and a directory with room for  *)
(* every name is the only one.  Blocks are of 1 KiB, so that the first     *)
(* block that the bitmaps describe is number 1.                            *)
(***************************************************************************)
EXTENDS Integers, Sequences, FiniteSetsExt, SequencesExt

CONSTANTS
  Groups,         \* block groups
  BytesPerMap,    \* bytes of a group's block bitmap
  BitsPerByte,    \* 8
  InodesPerGroup,
  Direct,         \* 12: block numbers in the inode itself
  PerIndex,       \* block numbers in an index block
  Keep,           \* 8: spare blocks that a file keeps while it is open
  Fixed,          \* blocks of the file system's own structures
  FixedInodes,    \* inodes of the root and those not to be used
  Names,          \* file names
  MaxOpens,       \* bound: open files
  MaxCalls,       \* bound: calls
  MaxCrashes,     \* bound: crashes
  NoNode          \* an inode that is not in the cache

Group == 0 .. Groups - 1
PerGroup == BytesPerMap * BitsPerByte
Block == 1 .. Groups * PerGroup
Inode == 1 .. Groups * InodesPerGroup
GroupOf(number, per) == (number - 1) \div per
In(S, g, per) == {number \in S : GroupOf(number, per) = g}

(* A block number, or 0; what the disk has; and what the cache adds to it. *)
Pointer == Block \cup {0}
Counts == [blocks : Int, inodes : Int]
Saved == [links : Int, empty : BOOLEAN, direct : [0 .. Direct - 1 -> Pointer], index : Pointer]
Cached == [links : Int, empty : BOOLEAN, direct : [0 .. Direct - 1 -> Pointer], index : Pointer,
           spare : Seq(Block), opens : Nat]
Image == [blocks : SUBSET Block, inodes : SUBSET Inode, super : Counts, groups : [Group -> Counts],
          table : [Inode -> Saved], names : [Names -> Inode \cup {0}],
          index : [Block -> [0 .. PerIndex - 1 -> Pointer]]]
FileSystem == [blocks : SUBSET Block, inodes : SUBSET Inode, super : Counts, groups : [Group -> Counts],
               node : [Inode -> Cached \cup {NoNode}], images : Seq(Image)]

(* The last block and the last inode of all have no bit 0 of a next group. *)
ASSUME Ext2Assumption ==
  /\ Groups \in Nat \ {0} /\ BytesPerMap \in Nat \ {0} /\ BitsPerByte \in Nat \ {0}
  /\ InodesPerGroup \in Nat \ {0} /\ Direct \in Nat \ {0} /\ PerIndex \in Nat \ {0} /\ Keep \in Nat
  /\ Fixed \subseteq Block /\ Groups * PerGroup \in Fixed
  /\ FixedInodes \subseteq Inode /\ Groups * InodesPerGroup \in FixedInodes
  /\ MaxOpens \in Nat /\ MaxCalls \in Nat /\ MaxCrashes \in Nat
  /\ NoNode \notin Cached /\ IsFiniteSet(Names)

VARIABLES
  fs,       \* the FileSystem object, and the disk's images yet to be written
  disk,     \* the disk
  calls,    \* history: number of calls
  crashes,  \* history: number of crashes
  torn,     \* history: did a restart find counts that are not those of the bitmaps?
  lost,     \* history: inodes that a restart found with more names than links
  stale     \* history: free inodes that a restart found with blocks

vars == <<fs, disk, calls, crashes, torn, lost, stale>>

TypeOK ==
  /\ fs \in FileSystem /\ disk \in Image
  /\ calls \in Nat /\ crashes \in Nat /\ torn \in BOOLEAN
  /\ lost \subseteq Inode /\ stale \subseteq Inode

NoBlocks == [i \in 0 .. PerIndex - 1 |-> 0]
EmptyInode == [links |-> 0, empty |-> TRUE, direct |-> [i \in 0 .. Direct - 1 |-> 0], index |-> 0]

(* The counts of the superblock and of the group descriptors.              *)
Free(marked, all) == Cardinality(all \ marked)
SuperOf(blocks, inodes) == [blocks |-> Free(blocks, Block), inodes |-> Free(inodes, Inode)]
GroupsOf(blocks, inodes) ==
  [g \in Group |-> [blocks |-> Free(blocks, In(Block, g, PerGroup)), inodes |-> Free(inodes, In(Inode, g, InodesPerGroup))]]

(* FileSystem.__init__ reads the bitmaps and the counts, and no inode.     *)
Mounted(d) ==
  [blocks |-> d.blocks, inodes |-> d.inodes, super |-> d.super, groups |-> d.groups,
   node |-> [n \in Inode |-> NoNode], images |-> <<>>]

Formatted ==
  [blocks |-> Fixed, inodes |-> FixedInodes,
   super |-> SuperOf(Fixed, FixedInodes), groups |-> GroupsOf(Fixed, FixedInodes),
   table |-> [n \in Inode |-> EmptyInode],
   names |-> [name \in Names |-> 0],
   index |-> [b \in Block |-> NoBlocks]]

Init ==
  /\ disk = Formatted
  /\ fs = Mounted(Formatted)
  /\ calls = 0 /\ crashes = 0 /\ torn = FALSE /\ lost = {} /\ stale = {}

-----------------------------------------------------------------------------
(* A call takes the file system f to another, and appends to its images    *)
(* what the disk is after each of the call's writes.                       *)

On(f) == IF f.images = <<>> THEN disk ELSE Last(f.images)
Write(f, image) == [f EXCEPT !.images = IF image = On(f) THEN @ ELSE Append(@, image)]

(* _flush_block_bitmaps and _flush_inode_bitmaps, group by group.  What a  *)
(* free block holds is not kept.                                           *)
BlocksFlushed(f, g) ==
  [On(f) EXCEPT !.blocks = (@ \ In(Block, g, PerGroup)) \cup In(f.blocks, g, PerGroup),
                !.index = [b \in Block |-> IF b \in In(Block \ f.blocks, g, PerGroup) THEN NoBlocks ELSE @[b]]]
FlushBlocks(f) ==
  LET flushed[g \in 0 .. Groups] ==
        IF g = 0 THEN f ELSE Write(flushed[g - 1], BlocksFlushed(flushed[g - 1], g - 1))
  IN flushed[Groups]

InodesFlushed(f, g) ==
  [On(f) EXCEPT !.inodes = (@ \ In(Inode, g, InodesPerGroup)) \cup In(f.inodes, g, InodesPerGroup)]
FlushInodes(f) ==
  LET flushed[g \in 0 .. Groups] ==
        IF g = 0 THEN f ELSE Write(flushed[g - 1], InodesFlushed(flushed[g - 1], g - 1))
  IN flushed[Groups]

SaveSuperblock(f) ==
  LET first == Write(f, [On(f) EXCEPT !.super = f.super])
  IN Write(first, [On(first) EXCEPT !.groups = f.groups])

SaveInode(f, n) ==
  LET node == f.node[n] IN
  Write(f, [On(f) EXCEPT !.table[n] = [links |-> node.links, empty |-> node.empty, direct |-> node.direct, index |-> node.index]])

(* Node.from_number                                                        *)
Loaded(f, n) ==
  LET saved == On(f).table[n] IN
  IF f.node[n] # NoNode THEN f
  ELSE [f EXCEPT !.node[n] = [links |-> saved.links, empty |-> saved.empty, direct |-> saved.direct,
                              index |-> saved.index, spare |-> <<>>, opens |-> 0]]

(* mark_bit counts bits from one, and _free_blocks and _free_inode divide  *)
(* the number itself: the last number of a group becomes bit 0 of the next *)
(* one, which is the last bit of that bitmap.                              *)
Marked(number, per) == IF number % per = 0 THEN number + per ELSE number

-----------------------------------------------------------------------------
(* Blocks                                                                  *)

Byte(g, k) == {g * PerGroup + k * BitsPerByte + j : j \in 1 .. BitsPerByte}

(* What one allocation takes: a byte of free blocks, or else one block.    *)
Units(f) ==
  LET bytes == {u \in {Byte(g, k) : g \in Group, k \in 0 .. BytesPerMap - 1} : u \cap f.blocks = {}}
  IN IF bytes # {} THEN bytes ELSE {{b} : b \in Block \ f.blocks}

(* The group of the inode is looked at first, then the others in order.    *)
Earlier(n, u, v) ==
  LET rank(w) == IF GroupOf(Min(w), PerGroup) = n \div InodesPerGroup THEN -1 ELSE GroupOf(Min(w), PerGroup)
  IN rank(u) < rank(v) \/ (rank(u) = rank(v) /\ Min(u) <= Min(v))

(* A unit is without gaps.                                                 *)
InOrder(unit) == [i \in 1 .. Cardinality(unit) |-> Min(unit) + i - 1]

(* An allocation that is flushed without the counts.                       *)
AllocateBlocksUncounted(f, n) ==
  LET unit == CHOOSE u \in Units(f) : \A v \in Units(f) : Earlier(n, u, v)
  IN SaveSuperblock(FlushBlocks(
       [f EXCEPT !.blocks = @ \cup unit, !.super.blocks = @ - Cardinality(unit),
                 !.node[n].spare = InOrder(unit)]))

AllocateBlocks(f, n) ==
  LET unit == CHOOSE u \in Units(f) : \A v \in Units(f) : Earlier(n, u, v)
  IN SaveSuperblock(FlushBlocks(
       [f EXCEPT !.blocks = @ \cup unit, !.super.blocks = @ - Cardinality(unit),
                 !.groups[GroupOf(Min(unit), PerGroup)].blocks = @ - Cardinality(unit),
                 !.node[n].spare = InOrder(unit)]))

(* _allocate_block: the block is the first of the spare ones.              *)
NoSpace(f, n) == f.node[n].spare = <<>> /\ Units(f) = {}
Supplied(f, n) == IF f.node[n].spare = <<>> THEN AllocateBlocks(f, n) ELSE f
Taken(f, n) == [f EXCEPT !.node[n].spare = Tail(@)]

(* The groups' counts, with what becomes free of each.                     *)
Regained(groups, s) ==
  [g \in Group |-> [groups[g] EXCEPT !.blocks = @ + Cardinality({i \in DOMAIN s : s[i] \div PerGroup = g})]]
FreeBlocks(f, s) ==
  IF s = <<>> THEN f
  ELSE SaveSuperblock(FlushBlocks(
         [f EXCEPT !.blocks = @ \ {Marked(s[i], PerGroup) : i \in DOMAIN s}, !.super.blocks = @ + Len(s),
                   !.groups = Regained(@, s)]))

(* BlockList.__getitem__, and after the last block the index block itself. *)
BlockAt(inode, index, i) ==
  IF i < Direct THEN inode.direct[i]
  ELSE IF inode.index = 0 THEN 0
  ELSE IF i < Direct + PerIndex THEN index[inode.index][i - Direct]
  ELSE inode.index

(* The blocks of an inode as BlockList.truncate(0) comes across them.      *)
NonZero(s) ==
  LET kept[i \in 0 .. Len(s)] ==
        IF i = 0 THEN <<>> ELSE IF s[i] = 0 THEN kept[i - 1] ELSE Append(kept[i - 1], s[i])
  IN kept[Len(s)]
BlocksOf(inode, index) == NonZero([i \in 1 .. Direct + PerIndex + 1 |-> BlockAt(inode, index, i - 1)])

(* They become spare blocks of the inode, the last one first.              *)
Truncated(f, n) ==
  [f EXCEPT !.node[n].spare = Reverse(BlocksOf(f.node[n], On(f).index)) \o @,
            !.node[n].direct = EmptyInode.direct, !.node[n].index = 0]

-----------------------------------------------------------------------------
(* Inodes                                                                  *)

FreeInode(f, n) ==
  SaveSuperblock(FlushInodes(
    [f EXCEPT !.inodes = @ \ {Marked(n, InodesPerGroup)}, !.super.inodes = @ + 1,
              !.groups[n \div InodesPerGroup].inodes = @ + 1]))

AllocateInode(f, n) ==
  SaveSuperblock(FlushInodes(
    [f EXCEPT !.inodes = @ \cup {n}, !.super.inodes = @ - 1,
              !.groups[GroupOf(n, InodesPerGroup)].inodes = @ - 1]))

(* Node._free                                                              *)
FreeNode(f, n) ==
  LET empty == Truncated(FreeInode(f, n), n)
      clean == FreeBlocks(empty, empty.node[n].spare)
  IN [SaveInode(clean, n) EXCEPT !.node[n] = NoNode]

DecLinkCount(f, n) ==
  LET less == [f EXCEPT !.node[n].links = @ - 1]
  IN IF less.node[n].links = 0 THEN FreeNode(less, n) ELSE less

IncLinkCount(f, n) == [f EXCEPT !.node[n].links = @ + 1]

-----------------------------------------------------------------------------
(* Calls                                                                   *)

Written == fs.images = <<>>

(* Calls are followed up to the first name whose inode has been freed.     *)
NoDangling == \A name \in Names : disk.names[name] # 0 => disk.names[name] \in disk.inodes
Called ==
  /\ Written /\ NoDangling
  /\ calls < MaxCalls
  /\ calls' = calls + 1
  /\ UNCHANGED <<disk, crashes, torn, lost, stale>>

Named(name, n) == [fs EXCEPT !.images = Append(@, [disk EXCEPT !.names[name] = n])]

(* create_regular_child: an inode, then its name; the inode is not saved.  *)
Create(name) ==
  LET n == Min(Inode \ fs.inodes)
      f == AllocateInode(fs, n)
  IN
  /\ Called /\ disk.names[name] = 0 /\ Inode \ fs.inodes # {}
  /\ fs' = IncLinkCount([Write(f, [On(f) EXCEPT !.names[name] = n]) EXCEPT !.node[n] =
                 [links |-> 0, empty |-> TRUE, direct |-> EmptyInode.direct, index |-> 0, spare |-> <<>>, opens |-> 0]], n)

(* Directory.link to the inode of another name, and Directory.unlink.      *)
Link(old, name) ==
  LET n == disk.names[old]
      f == Loaded(fs, n)
  IN
  /\ Called /\ n # 0 /\ disk.names[name] = 0
  /\ fs' = IncLinkCount(Write(f, [disk EXCEPT !.names[name] = n]), n)

(* An unlink that frees the inode before its name is gone.                 *)
UnlinkLate(name) ==
  LET n == disk.names[name]
      f == DecLinkCount(Loaded(fs, n), n)
  IN
  /\ Called /\ n # 0
  /\ fs' = Write(f, [On(f) EXCEPT !.names[name] = 0])

Unlink(name) ==
  LET n == disk.names[name]
      f == Loaded(fs, n)
  IN
  /\ Called /\ n # 0
  /\ fs' = DecLinkCount(Write(f, [disk EXCEPT !.names[name] = 0]), n)

(* Node.open: `truncate` saves the inode before the file is counted.       *)
Opens == MapThenSumSet(LAMBDA n : IF fs.node[n] = NoNode THEN 0 ELSE fs.node[n].opens, Inode)
FileOpened(f, n) == IncLinkCount([f EXCEPT !.node[n].opens = @ + 1], n)
Open(name) ==
  LET n == disk.names[name]
      f == Loaded(fs, n)
  IN
  /\ Called /\ n # 0
  /\ Opens < MaxOpens
  /\ fs' = FileOpened(f, n)

(* A truncation that leaves the inode to the close to be saved.            *)
OpenTruncateUnsaved(name) ==
  LET n == disk.names[name]
      f == Loaded(fs, n)
      empty == Truncated(f, n)
  IN
  /\ Called /\ n # 0
  /\ Opens < MaxOpens /\ ~f.node[n].empty
  /\ fs' = FileOpened([empty EXCEPT !.node[n].empty = TRUE], n)

OpenTruncate(name) ==
  LET n == disk.names[name]
      f == Loaded(fs, n)
      empty == Truncated(f, n)
  IN
  /\ Called /\ n # 0
  /\ Opens < MaxOpens /\ ~f.node[n].empty
  /\ fs' = FileOpened(SaveInode([empty EXCEPT !.node[n].empty = TRUE], n), n)

(* _file_closed: the last file gives the spare blocks back, the others     *)
(* those that are too many; the inode is saved unless it was freed.        *)
SpareFreed(f, n, kept) ==
  LET spare == f.node[n].spare
  IN [FreeBlocks(f, SubSeq(spare, kept + 1, Len(spare)))
      EXCEPT !.node[n].spare = SubSeq(spare, 1, IF kept < Len(spare) THEN kept ELSE Len(spare))]
FileClosed(f, n) ==
  LET less == [f EXCEPT !.node[n].opens = @ - 1]
      final == DecLinkCount(SpareFreed(less, n, IF less.node[n].opens = 0 THEN 0 ELSE Keep), n)
  IN IF final.node[n] = NoNode THEN final ELSE SaveInode(final, n)
IsOpen(n) == fs.node[n] # NoNode /\ fs.node[n].opens > 0
Close(n) ==
  /\ Called /\ IsOpen(n)
  /\ fs' = FileClosed(fs, n)

(* File.write of a block: the size is set before there is a block for it.  *)
Sized(n) == [fs EXCEPT !.node[n].empty = FALSE]

WriteData(f, block) == Write(f, [On(f) EXCEPT !.index[block] = NoBlocks])
WriteFull(n, i) ==
  /\ Called /\ IsOpen(n)
  /\ BlockAt(fs.node[n], disk.index, i) = 0
  /\ NoSpace(fs, n)
  /\ fs' = Sized(n)
WriteDirect(n, i) ==
  LET f == Supplied(Sized(n), n)
      block == Head(f.node[n].spare)
  IN
  /\ Called /\ IsOpen(n)
  /\ i < Direct /\ BlockAt(fs.node[n], disk.index, i) = 0
  /\ ~NoSpace(fs, n)
  /\ fs' = WriteData([Taken(f, n) EXCEPT !.node[n].direct[i] = block], block)
WriteIndexed(n, i) ==
  LET index == fs.node[n].index
      f == Supplied(Sized(n), n)
      g == Taken(f, n)
      block == Head(f.node[n].spare)
  IN
  /\ Called /\ IsOpen(n)
  /\ i >= Direct /\ fs.node[n].index # 0
  /\ BlockAt(fs.node[n], disk.index, i) = 0 /\ ~NoSpace(fs, n)
  /\ fs' = WriteData(Write(g, [On(g) EXCEPT !.index[index][i - Direct] = block]), block)

(* The index block comes after the block that it is for, which no one has  *)
(* if there is none.                                                       *)
WriteNewIndex(n, i) ==
  LET f == Supplied(Sized(n), n)
      g == Taken(f, n)
      h == Supplied(g, n)
      block == Head(f.node[n].spare)
      index == Head(h.node[n].spare)
      k == [Taken(h, n) EXCEPT !.node[n].index = index]
  IN
  /\ Called /\ IsOpen(n)
  /\ i >= Direct /\ fs.node[n].index = 0 /\ ~NoSpace(fs, n)
  /\ fs' = IF NoSpace(g, n) THEN g
           ELSE WriteData(Write(k, [On(k) EXCEPT !.index[index] = [NoBlocks EXCEPT ![i - Direct] = block]]), block)

(* A write reaches the disk.                                               *)
DiskWrite ==
  /\ ~Written
  /\ disk' = Head(fs.images)
  /\ fs' = [fs EXCEPT !.images = Tail(@)]
  /\ stale' = {n \in stale : disk'.table[n] = disk.table[n]}
  /\ UNCHANGED <<calls, crashes, torn, lost>>

(* The power goes, and the disk is mounted again: s_state is never marked, *)
(* and nothing is repaired.                                                *)
NamesOf(d, n) == {name \in Names : d.names[name] = n}
Crash ==
  /\ crashes < MaxCrashes
  /\ crashes' = crashes + 1
  /\ fs' = Mounted(disk)
  /\ torn' = (torn \/ disk.super # SuperOf(disk.blocks, disk.inodes) \/ disk.groups # GroupsOf(disk.blocks, disk.inodes))
  /\ lost' = lost \cup {n \in Inode : Cardinality(NamesOf(disk, n)) > disk.table[n].links}
  /\ stale' = stale \cup {n \in Inode \ disk.inodes : BlocksOf(disk.table[n], disk.index) # <<>>}
  /\ UNCHANGED <<disk, calls>>

Next ==
  \/ \E name \in Names :
       \/ Create(name) \/ Unlink(name) \/ Open(name) \/ OpenTruncate(name)
       \/ \E old \in Names : Link(old, name)
  \/ \E n \in Inode :
       \/ Close(n)
       \/ \E i \in 0 .. Direct + PerIndex - 1 :
            WriteFull(n, i) \/ WriteDirect(n, i) \/ WriteIndexed(n, i) \/ WriteNewIndex(n, i)
  \/ DiskWrite
  \/ Crash

Spec == Init /\ [][Next]_vars

-----------------------------------------------------------------------------

(* The counts of the superblock and of each group are those of the         *)
(* bitmaps, in memory after every call and on disk once it is written,     *)
(* unless a crash came between the two or a name lost its inode.           *)
CountsAgree ==
  ~torn /\ lost = {} =>
    /\ fs.super = SuperOf(fs.blocks, fs.inodes) /\ fs.groups = GroupsOf(fs.blocks, fs.inodes)
    /\ Written => disk.super = fs.super /\ disk.groups = fs.groups

(* The blocks of an inode in memory and on disk: an inode in use owns what *)
(* its entry in the table says, unless that is left from an earlier life.  *)
InMemory(n) ==
  IF fs.node[n] = NoNode THEN <<>> ELSE BlocksOf(fs.node[n], disk.index) \o fs.node[n].spare
OnDisk(n) ==
  IF n \in disk.inodes \ stale THEN BlocksOf(disk.table[n], disk.index) ELSE <<>>

(* At no time, with the power gone or not, has a block two owners, or one  *)
(* owner twice, or is a block with an owner marked free.                   *)
OwnedOnce ==
  /\ \A n \in Inode :
       /\ IsInjective(OnDisk(n)) /\ ToSet(OnDisk(n)) \subseteq disk.blocks \ Fixed
       /\ Written => IsInjective(InMemory(n)) /\ ToSet(InMemory(n)) \subseteq fs.blocks \ Fixed
  /\ \A m, n \in Inode :
       m # n =>
         /\ ToSet(OnDisk(m)) \cap ToSet(OnDisk(n)) = {}
         /\ Written => ToSet(InMemory(m)) \cap (ToSet(OnDisk(n)) \cup ToSet(InMemory(n))) = {}

(* At no time does a name on disk belong to a free inode, but if a restart *)
(* found the inode with fewer links than names.                            *)
NamesLive == \A name \in Names : disk.names[name] # 0 => disk.names[name] \in disk.inodes \cup lost

(* _free_blocks: "Mark all block numbers in iterable `blocks` as free."    *)
FreedIsFree ==
  [][\A n \in Inode :
       Close(n) /\ fs.node[n].opens = 1 => ToSet(fs.node[n].spare) \cap fs'.blocks = {}]_vars
=============================================================================
