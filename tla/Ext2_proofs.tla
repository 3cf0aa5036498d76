---------------------------- MODULE Ext2_proofs ----------------------------
(***************************************************************************)
(* Theorems about Ext2, for file systems of any size and any number of     *)
(* names, opens and calls: no name loses its inode, and no block has two   *)
(* owners, wherever the power goes.                                        *)
(***************************************************************************)
EXTENDS Ext2, FiniteSetTheorems, SequenceTheorems, TLAPS

(* A set of numbers that is not empty has a least one.                     *)
LEMMA LeastOf ==
  ASSUME NEW B, B \subseteq Nat, B # {}
  PROVE  \E x \in B : \A y \in B : x <= y
<1> DEFINE Below == {ss \in Nat \X Nat : ss[1] < ss[2]}
<1>1. IsWellFoundedOn(Below, Nat)
  BY NatLessThanWellFounded DEF OpToRel
<1>2. PICK x \in B : \A y \in B : ~(<<y, x>> \in Below)
  BY <1>1, WFMin, Zenon
<1>3. ASSUME NEW y \in B
      PROVE  x <= y
  <2>1. x \in Nat /\ y \in Nat /\ <<y, x>> \in Nat \X Nat
    OBVIOUS
  <2>2. ~(<<y, x>>[1] < <<y, x>>[2])
    BY <1>2, <2>1, Zenon
  <2> QED BY <2>1, <2>2
<1> QED BY <1>3

(* Induction up to m, of a set of numbers, and the functions by recursion  *)
(* up to m: Step[i] is what makes the value at i of that before it.        *)
LEMMA Upwards ==
  ASSUME NEW m \in Nat, NEW G, 0 \in G, \A i \in 1 .. m : i - 1 \in G => i \in G
  PROVE  \A i \in 0 .. m : i \in G
<1> DEFINE B == {i \in 0 .. m : i \notin G}
<1>1. ASSUME B # {}
      PROVE  FALSE
  <2>1. PICK x \in B : \A y \in B : x <= y
    <3>1. B \subseteq Nat
      OBVIOUS
    <3> QED BY <1>1, <3>1, LeastOf
  <2>2. x # 0 /\ x \in 0 .. m /\ x \notin G
    OBVIOUS
  <2>3. x \in 1 .. m /\ x - 1 \in 0 .. m /\ ~(x <= x - 1)
    BY <2>2
  <2>4. x - 1 \in G
    BY <2>1, <2>3
  <2> QED BY <2>2, <2>3, <2>4
<1> QED BY <1>1

IsRecursion(f, m, base, Step) == f = [i \in 0 .. m |-> IF i = 0 THEN base ELSE Step[i][f[i - 1]]]

LEMMA Recursion ==
  ASSUME NEW X, NEW m \in Nat, NEW base \in X, NEW Step, \A i \in 1 .. m, x \in X : Step[i][x] \in X
  PROVE  \E f : IsRecursion(f, m, base, Step) /\ \A i \in 0 .. m : f[i] \in X
<1> DEFINE P(f, k) == IsRecursion(f, k, base, Step) /\ \A i \in 0 .. k : f[i] \in X
           G == {k \in 0 .. m : \E f : P(f, k)}
<1>1. 0 \in G
  <2>1. P([i \in 0 .. 0 |-> base], 0)
    BY DEF IsRecursion
  <2> QED BY <2>1
<1>2. ASSUME NEW k \in 1 .. m, k - 1 \in G
      PROVE  k \in G
  <2>1. PICK g : P(g, k - 1)
    BY <1>2
  <2> DEFINE f == [i \in 0 .. k |-> IF i = k THEN Step[k][g[k - 1]] ELSE g[i]]
  <2>2. k - 1 \in 0 .. k - 1 /\ g[k - 1] \in X
    BY <2>1
  <2>3. ASSUME NEW i \in 0 .. k
        PROVE  f[i] \in X /\ f[i] = IF i = 0 THEN base ELSE Step[i][f[i - 1]]
    <3>1. CASE i = k
      <4>1. i # 0 /\ f[i] = Step[k][g[k - 1]] /\ f[i - 1] = g[k - 1]
        BY <3>1
      <4> QED BY <4>1, <3>1, <2>2
    <3>2. CASE i # k
      <4>1. i \in 0 .. k - 1 /\ f[i] = g[i]
        BY <3>2
      <4>2. i # 0 => f[i - 1] = g[i - 1]
        BY <3>2
      <4> HIDE DEF f
      <4> QED BY <4>1, <4>2, <2>1 DEF IsRecursion
    <3> QED BY <3>1, <3>2
  <2>4. P(f, k)
    BY <2>3 DEF IsRecursion
  <2> QED BY <2>4
<1> HIDE DEF P
<1>3. \A k \in 0 .. m : k \in G
  <2> HIDE DEF G
  <2> QED BY <1>1, <1>2, Upwards
<1> QED BY <1>3 DEF P

-----------------------------------------------------------------------------
(* The numbers of blocks and inodes.                                       *)

LEMMA Sizes ==
  /\ Groups \in Nat \ {0} /\ PerGroup \in Nat \ {0} /\ InodesPerGroup \in Nat \ {0}
  /\ Direct \in Nat \ {0} /\ PerIndex \in Nat \ {0}
  /\ Block \subseteq Nat \ {0} /\ Inode \subseteq Nat \ {0}
<1>1. /\ Groups \in Nat \ {0} /\ BytesPerMap \in Nat \ {0} /\ BitsPerByte \in Nat \ {0}
      /\ InodesPerGroup \in Nat \ {0} /\ Direct \in Nat \ {0} /\ PerIndex \in Nat \ {0}
  BY Ext2Assumption
<1>2. PerGroup \in Nat \ {0}
  BY <1>1 DEF PerGroup
<1>3. Block \subseteq Nat \ {0} /\ Inode \subseteq Nat \ {0}
  BY <1>1, <1>2 DEF Block, Inode
<1> QED BY <1>1, <1>2, <1>3

LEMMA Division ==
  ASSUME NEW m \in Nat \ {0}, NEW x \in Int
  PROVE  \E q \in Int, r \in 0 .. m - 1 : q = x \div m /\ r = x % m /\ x = q * m + r
<1>1. x \div m \in Int /\ x % m \in 0 .. m - 1 /\ x = (x \div m) * m + (x % m)
  OBVIOUS
<1> QED BY <1>1, Zenon

LEMMA GroupsOfNumbers ==
  /\ \A b \in Block : GroupOf(b, PerGroup) \in Group
  /\ \A n \in Inode : GroupOf(n, InodesPerGroup) \in Group
<1>1. ASSUME NEW per \in Nat \ {0}, NEW b \in 1 .. Groups * per
      PROVE  GroupOf(b, per) \in 0 .. Groups - 1
  <2>1. Groups \in Nat
    BY Sizes
  <2>2. PICK q \in Int, r \in 0 .. per - 1 : q = (b - 1) \div per /\ b - 1 = q * per + r
    <3>1. b - 1 \in Int
      BY <2>1
    <3> QED BY <3>1, Division
  <2>3. q >= 0
    <3>1. CASE q <= -1
      <4>1. q * per <= -per
        BY <3>1
      <4> QED BY <4>1, <2>2
    <3> QED BY <3>1
  <2>4. q < Groups
    <3>1. CASE q >= Groups
      <4>1. q * per >= Groups * per
        BY <3>1, <2>1
      <4>2. PICK top \in Int : top = Groups * per
        BY <2>1
      <4> QED BY <4>1, <4>2, <2>2
    <3> QED BY <3>1, <2>1
  <2> QED BY <2>2, <2>3, <2>4, <2>1 DEF GroupOf
<1> QED BY <1>1, Sizes DEF Block, Inode, Group

-----------------------------------------------------------------------------
(* Writes: g is f after some more images, the last of which is `image`,    *)
(* and all of which are in P.                                              *)
Adds(f, g, image, P) ==
  /\ g \in FileSystem /\ g.blocks = f.blocks /\ g.inodes = f.inodes
  /\ g.super = f.super /\ g.groups = f.groups /\ g.node = f.node
  /\ image \in P /\ On(g) = image
  /\ \E more \in Seq(P) : g.images = f.images \o more

LEMMA OnImage ==
  ASSUME disk \in Image, NEW f \in FileSystem
  PROVE  On(f) \in Image
<1>1. f.images \in Seq(Image)
  BY DEF FileSystem
<1> QED BY <1>1 DEF On, Last

LEMMA AddsNothing ==
  ASSUME NEW f \in FileSystem, NEW P, On(f) \in P
  PROVE  Adds(f, f, On(f), P)
<1>1. <<>> \in Seq(P) /\ f.images = f.images \o <<>>
  BY DEF FileSystem
<1> QED BY <1>1 DEF Adds

LEMMA AddsMore ==
  ASSUME NEW f \in FileSystem, NEW g, NEW h, NEW i, NEW j, NEW P, P \subseteq Image, Adds(f, g, i, P), Adds(g, h, j, P)
  PROVE  Adds(f, h, j, P)
<1>1. PICK a \in Seq(P) : g.images = f.images \o a
  BY DEF Adds
<1>2. PICK b \in Seq(P) : h.images = g.images \o b
  BY DEF Adds
<1>3. a \o b \in Seq(P)
  OBVIOUS
<1>4. a \in Seq(Image) /\ b \in Seq(Image) /\ f.images \in Seq(Image)
  BY DEF FileSystem
<1>5. h.images = f.images \o (a \o b)
  <2>1. PICK s \in Seq(Image) : s = f.images
    BY <1>4
  <2>2. (s \o a) \o b = s \o (a \o b)
    BY <1>4, ConcatAssociative
  <2> QED BY <2>1, <2>2, <1>1, <1>2
<1> QED BY <1>3, <1>5 DEF Adds

LEMMA WriteAdds ==
  ASSUME NEW f \in FileSystem, NEW P, P \subseteq Image, NEW image \in P
  PROVE  Adds(f, Write(f, image), image, P)
<1>1. CASE image = On(f)
  <2>1. Write(f, image) = f
    BY <1>1 DEF Write, FileSystem
  <2> QED BY <2>1, <1>1, AddsNothing
<1>2. CASE image # On(f)
  <2>1. Write(f, image) = [f EXCEPT !.images = Append(@, image)]
    BY <1>2 DEF Write
  <2>2. f.images \in Seq(Image) /\ image \in Image
    BY DEF FileSystem
  <2>3. PICK s \in Seq(Image) : s = Append(f.images, image)
    <3>1. Append(f.images, image) \in Seq(Image)
      BY <2>2
    <3> QED BY <3>1
  <2>5. s = f.images \o <<image>>
    BY <2>2, <2>3, AppendIsConcat
  <2>6. s # <<>> /\ s[Len(s)] = image
    BY <2>2, <2>3
  <2>4. <<image>> \in Seq(P)
    OBVIOUS
  <2> QED BY <2>1, <2>3, <2>4, <2>5, <2>6 DEF Adds, On, FileSystem, Last
<1> QED BY <1>1, <1>2

-----------------------------------------------------------------------------
(* The bitmaps are flushed group by group: what the disk is after the      *)
(* groups below g.                                                         *)
PartBlocks(f, g) ==
  [On(f) EXCEPT !.blocks = {b \in Block : b \in (IF GroupOf(b, PerGroup) < g THEN f.blocks ELSE On(f).blocks)},
                !.index = [b \in Block |-> IF GroupOf(b, PerGroup) < g /\ b \notin f.blocks THEN NoBlocks ELSE On(f).index[b]]]
PartInodes(f, g) ==
  [On(f) EXCEPT !.inodes = {n \in Inode : n \in (IF GroupOf(n, InodesPerGroup) < g THEN f.inodes ELSE On(f).inodes)}]

LEMMA NoBlocksTyped == NoBlocks \in [0 .. PerIndex - 1 -> Pointer]
BY DEF NoBlocks, Pointer

LEMMA PartTyped ==
  ASSUME disk \in Image, NEW f \in FileSystem, NEW g
  PROVE  PartBlocks(f, g) \in Image /\ PartInodes(f, g) \in Image
<1>1. PICK d \in Image : d = On(f)
  BY OnImage
<1>2. d.index \in [Block -> [0 .. PerIndex - 1 -> Pointer]]
  BY DEF Image
<1>3. [b \in Block |-> IF GroupOf(b, PerGroup) < g /\ b \notin f.blocks THEN NoBlocks ELSE d.index[b]]
        \in [Block -> [0 .. PerIndex - 1 -> Pointer]]
  BY <1>2, NoBlocksTyped
<1>4. PartBlocks(f, g) \in Image
  BY <1>1, <1>3 DEF PartBlocks, Image
<1>5. PartInodes(f, g) \in Image
  BY <1>1 DEF PartInodes, Image
<1> QED BY <1>4, <1>5

LEMMA FlushedTyped ==
  ASSUME disk \in Image, NEW e \in FileSystem, NEW g
  PROVE  /\ BlocksFlushed(e, g) \in Image /\ Write(e, BlocksFlushed(e, g)) \in FileSystem
         /\ InodesFlushed(e, g) \in Image /\ Write(e, InodesFlushed(e, g)) \in FileSystem
<1>1. PICK d \in Image : d = On(e)
  BY OnImage
<1>2. d.index \in [Block -> [0 .. PerIndex - 1 -> Pointer]]
  BY DEF Image
<1>3. [b \in Block |-> IF b \in In(Block \ e.blocks, g, PerGroup) THEN NoBlocks ELSE d.index[b]]
        \in [Block -> [0 .. PerIndex - 1 -> Pointer]]
  BY <1>2, NoBlocksTyped
<1>4. (d.blocks \ In(Block, g, PerGroup)) \cup In(e.blocks, g, PerGroup) \in SUBSET Block
  BY DEF Image, In, FileSystem
<1>5. (d.inodes \ In(Inode, g, InodesPerGroup)) \cup In(e.inodes, g, InodesPerGroup) \in SUBSET Inode
  BY DEF Image, In, FileSystem
<1>6. BlocksFlushed(e, g) \in Image
  BY <1>1, <1>3, <1>4 DEF BlocksFlushed, Image
<1>7. InodesFlushed(e, g) \in Image
  BY <1>1, <1>5 DEF InodesFlushed, Image
<1> QED BY <1>6, <1>7, WriteAdds DEF Adds

LEMMA PartBlocksStep ==
  ASSUME disk \in Image, NEW f \in FileSystem, NEW e \in FileSystem, NEW g \in 1 .. Groups,
         On(e) = PartBlocks(f, g - 1), e.blocks = f.blocks
  PROVE  BlocksFlushed(e, g - 1) = PartBlocks(f, g)
<1>1. PICK d \in Image : d = On(f)
  BY OnImage
<1> DEFINE A(k) == {b \in Block : b \in (IF GroupOf(b, PerGroup) < k THEN f.blocks ELSE d.blocks)}
           I(k) == [b \in Block |-> IF GroupOf(b, PerGroup) < k /\ b \notin f.blocks THEN NoBlocks ELSE d.index[b]]
<1>2. \A b \in Block : /\ GroupOf(b, PerGroup) \in Int
                       /\ GroupOf(b, PerGroup) < g <=> GroupOf(b, PerGroup) < g - 1 \/ GroupOf(b, PerGroup) = g - 1
  BY GroupsOfNumbers, Sizes DEF Group
<1>3. (A(g - 1) \ In(Block, g - 1, PerGroup)) \cup In(f.blocks, g - 1, PerGroup) = A(g)
  <2>1. f.blocks \subseteq Block
    BY DEF FileSystem
  <2> QED BY <1>2, <2>1 DEF In
<1>4. [b \in Block |-> IF b \in In(Block \ f.blocks, g - 1, PerGroup) THEN NoBlocks ELSE I(g - 1)[b]] = I(g)
  BY <1>2 DEF In
<1>5. On(e) = [d EXCEPT !.blocks = A(g - 1), !.index = I(g - 1)]
  BY <1>1 DEF PartBlocks
<1>6. PartBlocks(f, g) = [d EXCEPT !.blocks = A(g), !.index = I(g)]
  BY <1>1 DEF PartBlocks
<1> HIDE DEF A, I
<1>7. BlocksFlushed(e, g - 1) = [d EXCEPT !.blocks = A(g), !.index = I(g)]
  BY <1>3, <1>4, <1>5 DEF BlocksFlushed, Image
<1> QED BY <1>6, <1>7

LEMMA PartInodesStep ==
  ASSUME disk \in Image, NEW f \in FileSystem, NEW e \in FileSystem, NEW g \in 1 .. Groups,
         On(e) = PartInodes(f, g - 1), e.inodes = f.inodes
  PROVE  InodesFlushed(e, g - 1) = PartInodes(f, g)
<1>1. PICK d \in Image : d = On(f)
  BY OnImage
<1> DEFINE A(k) == {n \in Inode : n \in (IF GroupOf(n, InodesPerGroup) < k THEN f.inodes ELSE d.inodes)}
<1>2. \A n \in Inode : /\ GroupOf(n, InodesPerGroup) \in Int
                       /\ GroupOf(n, InodesPerGroup) < g <=> GroupOf(n, InodesPerGroup) < g - 1 \/ GroupOf(n, InodesPerGroup) = g - 1
  BY GroupsOfNumbers, Sizes DEF Group
<1>3. (A(g - 1) \ In(Inode, g - 1, InodesPerGroup)) \cup In(f.inodes, g - 1, InodesPerGroup) = A(g)
  <2>1. f.inodes \subseteq Inode
    BY DEF FileSystem
  <2> QED BY <1>2, <2>1 DEF In
<1>5. On(e) = [d EXCEPT !.inodes = A(g - 1)]
  BY <1>1 DEF PartInodes
<1>6. PartInodes(f, g) = [d EXCEPT !.inodes = A(g)]
  BY <1>1 DEF PartInodes
<1> HIDE DEF A
<1>7. InodesFlushed(e, g - 1) = [d EXCEPT !.inodes = A(g)]
  BY <1>3, <1>5 DEF InodesFlushed, Image
<1> QED BY <1>6, <1>7

LEMMA PartNone ==
  ASSUME disk \in Image, NEW f \in FileSystem
  PROVE  PartBlocks(f, 0) = On(f) /\ PartInodes(f, 0) = On(f)
<1>1. PICK d \in Image : d = On(f)
  BY OnImage
<1>2. \A b \in Block : ~(GroupOf(b, PerGroup) < 0)
  BY GroupsOfNumbers, Sizes DEF Group
<1>3. \A n \in Inode : ~(GroupOf(n, InodesPerGroup) < 0)
  BY GroupsOfNumbers, Sizes DEF Group
<1>4. d.blocks \subseteq Block /\ d.inodes \subseteq Inode /\ d.index \in [Block -> [0 .. PerIndex - 1 -> Pointer]]
  BY DEF Image
<1>5. PartBlocks(f, 0) = [d EXCEPT !.blocks = d.blocks, !.index = d.index]
  <2>1. {b \in Block : b \in (IF GroupOf(b, PerGroup) < 0 THEN f.blocks ELSE d.blocks)} = d.blocks
    BY <1>2, <1>4
  <2>2. [b \in Block |-> IF GroupOf(b, PerGroup) < 0 /\ b \notin f.blocks THEN NoBlocks ELSE d.index[b]] = d.index
    BY <1>2, <1>4
  <2> QED BY <2>1, <2>2, <1>1 DEF PartBlocks
<1>6. PartInodes(f, 0) = [d EXCEPT !.inodes = d.inodes]
  <2>1. {n \in Inode : n \in (IF GroupOf(n, InodesPerGroup) < 0 THEN f.inodes ELSE d.inodes)} = d.inodes
    BY <1>3, <1>4
  <2> QED BY <2>1, <1>1 DEF PartInodes
<1> QED BY <1>1, <1>5, <1>6 DEF Image

LEMMA FlushedBlocks ==
  ASSUME disk \in Image, NEW f \in FileSystem, NEW P, P \subseteq Image,
         \A g \in 0 .. Groups : PartBlocks(f, g) \in P
  PROVE  Adds(f, FlushBlocks(f), PartBlocks(f, Groups), P)
<1> DEFINE Step == [g \in 1 .. Groups |-> [e \in FileSystem |-> Write(e, BlocksFlushed(e, g - 1))]]
           F == CHOOSE h : h = [g \in 0 .. Groups |-> IF g = 0 THEN f ELSE Write(h[g - 1], BlocksFlushed(h[g - 1], g - 1))]
<1>1. \A g \in 1 .. Groups, e \in FileSystem : Step[g][e] \in FileSystem /\ Step[g][e] = Write(e, BlocksFlushed(e, g - 1))
  BY FlushedTyped
<1>2. \E h : h = [g \in 0 .. Groups |-> IF g = 0 THEN f ELSE Write(h[g - 1], BlocksFlushed(h[g - 1], g - 1))]
  <2> HIDE DEF Step
  <2>1. PICK h : IsRecursion(h, Groups, f, Step) /\ \A g \in 0 .. Groups : h[g] \in FileSystem
    <3>1. Groups \in Nat
      BY Sizes
    <3>2. \A g \in 1 .. Groups, e \in FileSystem : Step[g][e] \in FileSystem
      BY <1>1
    <3> QED BY <3>1, <3>2, Recursion
  <2>2. h = [g \in 0 .. Groups |-> IF g = 0 THEN f ELSE Step[g][h[g - 1]]]
    BY <2>1 DEF IsRecursion
  <2>3. ASSUME NEW g \in 0 .. Groups
        PROVE  g # 0 => Step[g][h[g - 1]] = Write(h[g - 1], BlocksFlushed(h[g - 1], g - 1))
    <3>1. g # 0 => g \in 1 .. Groups /\ g - 1 \in 0 .. Groups
      BY Sizes
    <3> QED BY <3>1, <2>1, <1>1
  <2>4. h = [g \in 0 .. Groups |-> IF g = 0 THEN f ELSE Write(h[g - 1], BlocksFlushed(h[g - 1], g - 1))]
    BY <2>2, <2>3
  <2> QED BY <2>4
<1>3. F = [g \in 0 .. Groups |-> IF g = 0 THEN f ELSE Write(F[g - 1], BlocksFlushed(F[g - 1], g - 1))]
  BY <1>2
<1>4. FlushBlocks(f) = F[Groups]
  BY DEF FlushBlocks
<1> HIDE DEF F
<1>5. F[0] = f
  BY <1>3, Sizes
<1>6. ASSUME NEW g \in 1 .. Groups
      PROVE  F[g] = Write(F[g - 1], BlocksFlushed(F[g - 1], g - 1))
  <2>1. g \in 0 .. Groups /\ g # 0
    BY Sizes
  <2> QED BY <1>3, <2>1, Zenon
<1> DEFINE G == {g \in 0 .. Groups : Adds(f, F[g], PartBlocks(f, g), P)}
<1>7. 0 \in G
  <2>1. Adds(f, f, On(f), P)
    <3>1. On(f) \in P
      BY PartNone, Sizes
    <3> QED BY <3>1, AddsNothing
  <2> QED BY <2>1, <1>5, PartNone, Sizes
<1>8. ASSUME NEW g \in 1 .. Groups, g - 1 \in G
      PROVE  g \in G
  <2>1. PICK e \in FileSystem : e = F[g - 1] /\ Adds(f, e, PartBlocks(f, g - 1), P)
    BY <1>8 DEF Adds
  <2>2. BlocksFlushed(e, g - 1) = PartBlocks(f, g)
    BY <2>1, PartBlocksStep DEF Adds
  <2>3. PartBlocks(f, g) \in P
    BY Sizes
  <2>4. Adds(e, F[g], PartBlocks(f, g), P)
    BY <2>1, <2>2, <2>3, <1>6, WriteAdds
  <2>5. Adds(f, F[g], PartBlocks(f, g), P)
    BY <2>1, <2>4, AddsMore
  <2> QED BY <2>5, Sizes
<1>9. \A g \in 0 .. Groups : g \in G
  <2> HIDE DEF G
  <2> QED BY <1>7, <1>8, Sizes, Upwards
<1> QED BY <1>4, <1>9, Sizes


LEMMA FlushedInodes ==
  ASSUME disk \in Image, NEW f \in FileSystem, NEW P, P \subseteq Image,
         \A g \in 0 .. Groups : PartInodes(f, g) \in P
  PROVE  Adds(f, FlushInodes(f), PartInodes(f, Groups), P)
<1> DEFINE Step == [g \in 1 .. Groups |-> [e \in FileSystem |-> Write(e, InodesFlushed(e, g - 1))]]
           F == CHOOSE h : h = [g \in 0 .. Groups |-> IF g = 0 THEN f ELSE Write(h[g - 1], InodesFlushed(h[g - 1], g - 1))]
<1>1. \A g \in 1 .. Groups, e \in FileSystem : Step[g][e] \in FileSystem /\ Step[g][e] = Write(e, InodesFlushed(e, g - 1))
  BY FlushedTyped
<1>2. \E h : h = [g \in 0 .. Groups |-> IF g = 0 THEN f ELSE Write(h[g - 1], InodesFlushed(h[g - 1], g - 1))]
  <2> HIDE DEF Step
  <2>1. PICK h : IsRecursion(h, Groups, f, Step) /\ \A g \in 0 .. Groups : h[g] \in FileSystem
    <3>1. Groups \in Nat
      BY Sizes
    <3>2. \A g \in 1 .. Groups, e \in FileSystem : Step[g][e] \in FileSystem
      BY <1>1
    <3> QED BY <3>1, <3>2, Recursion
  <2>2. h = [g \in 0 .. Groups |-> IF g = 0 THEN f ELSE Step[g][h[g - 1]]]
    BY <2>1 DEF IsRecursion
  <2>3. ASSUME NEW g \in 0 .. Groups
        PROVE  g # 0 => Step[g][h[g - 1]] = Write(h[g - 1], InodesFlushed(h[g - 1], g - 1))
    <3>1. g # 0 => g \in 1 .. Groups /\ g - 1 \in 0 .. Groups
      BY Sizes
    <3> QED BY <3>1, <2>1, <1>1
  <2>4. h = [g \in 0 .. Groups |-> IF g = 0 THEN f ELSE Write(h[g - 1], InodesFlushed(h[g - 1], g - 1))]
    BY <2>2, <2>3
  <2> QED BY <2>4
<1>3. F = [g \in 0 .. Groups |-> IF g = 0 THEN f ELSE Write(F[g - 1], InodesFlushed(F[g - 1], g - 1))]
  BY <1>2
<1>4. FlushInodes(f) = F[Groups]
  BY DEF FlushInodes
<1> HIDE DEF F
<1>5. F[0] = f
  BY <1>3, Sizes
<1>6. ASSUME NEW g \in 1 .. Groups
      PROVE  F[g] = Write(F[g - 1], InodesFlushed(F[g - 1], g - 1))
  <2>1. g \in 0 .. Groups /\ g # 0
    BY Sizes
  <2> QED BY <1>3, <2>1, Zenon
<1> DEFINE G == {g \in 0 .. Groups : Adds(f, F[g], PartInodes(f, g), P)}
<1>7. 0 \in G
  <2>1. Adds(f, f, On(f), P)
    <3>1. On(f) \in P
      BY PartNone, Sizes
    <3> QED BY <3>1, AddsNothing
  <2> QED BY <2>1, <1>5, PartNone, Sizes
<1>8. ASSUME NEW g \in 1 .. Groups, g - 1 \in G
      PROVE  g \in G
  <2>1. PICK e \in FileSystem : e = F[g - 1] /\ Adds(f, e, PartInodes(f, g - 1), P)
    BY <1>8 DEF Adds
  <2>2. InodesFlushed(e, g - 1) = PartInodes(f, g)
    BY <2>1, PartInodesStep DEF Adds
  <2>3. PartInodes(f, g) \in P
    BY Sizes
  <2>4. Adds(e, F[g], PartInodes(f, g), P)
    BY <2>1, <2>2, <2>3, <1>6, WriteAdds
  <2>5. Adds(f, F[g], PartInodes(f, g), P)
    BY <2>1, <2>4, AddsMore
  <2> QED BY <2>5, Sizes
<1>9. \A g \in 0 .. Groups : g \in G
  <2> HIDE DEF G
  <2> QED BY <1>7, <1>8, Sizes, Upwards
<1> QED BY <1>4, <1>9, Sizes

-----------------------------------------------------------------------------
(* The counts are written after the bitmaps.  P does not tell images with  *)
(* different counts apart.                                                 *)
CountFree(P) ==
  /\ P \subseteq Image
  /\ \A d \in P : /\ \A c \in Counts : [d EXCEPT !.super = c] \in P
                  /\ \A c \in [Group -> Counts] : [d EXCEPT !.groups = c] \in P

LEMMA SuperSaved ==
  ASSUME disk \in Image, NEW f \in FileSystem, NEW P, CountFree(P), On(f) \in P
  PROVE  Adds(f, SaveSuperblock(f), [On(f) EXCEPT !.super = f.super, !.groups = f.groups], P)
<1>1. PICK d \in P : d = On(f) /\ d \in Image
  BY OnImage
<1>2. f.super \in Counts /\ f.groups \in [Group -> Counts] /\ P \subseteq Image
  BY DEF FileSystem, CountFree
<1>3. PICK d1 \in P : d1 = [d EXCEPT !.super = f.super]
  BY <1>2 DEF CountFree
<1>4. PICK d2 \in P : d2 = [d1 EXCEPT !.groups = f.groups]
  BY <1>2 DEF CountFree
<1>5. PICK g : g = Write(f, d1)
  OBVIOUS
<1>6. Adds(f, g, d1, P)
  BY <1>2, <1>5, WriteAdds
<1>7. g \in FileSystem /\ On(g) = d1
  BY <1>6 DEF Adds
<1>8. SaveSuperblock(f) = Write(g, d2)
  BY <1>1, <1>3, <1>4, <1>5, <1>7 DEF SaveSuperblock
<1>9. Adds(g, Write(g, d2), d2, P)
  BY <1>2, <1>7, WriteAdds
<1>10. Adds(f, Write(g, d2), d2, P)
  BY <1>2, <1>6, <1>9, AddsMore
<1>11. d2 = [On(f) EXCEPT !.super = f.super, !.groups = f.groups]
  BY <1>1, <1>3, <1>4 DEF Image
<1> QED BY <1>8, <1>10, <1>11

(* What the disk is after the blocks, or the inodes, and the counts.       *)
WithBlocks(f, image) ==
  /\ image \in Image /\ image.blocks = f.blocks /\ image.super = f.super /\ image.groups = f.groups
  /\ image.inodes = On(f).inodes /\ image.table = On(f).table /\ image.names = On(f).names
  /\ \A b \in Block : image.index[b] = IF b \in f.blocks THEN On(f).index[b] ELSE NoBlocks
WithInodes(f, image) ==
  /\ image \in Image /\ image.inodes = f.inodes /\ image.super = f.super /\ image.groups = f.groups
  /\ image.blocks = On(f).blocks /\ image.table = On(f).table /\ image.names = On(f).names /\ image.index = On(f).index

LEMMA PartAll ==
  ASSUME disk \in Image, NEW f \in FileSystem
  PROVE  /\ WithBlocks(f, [PartBlocks(f, Groups) EXCEPT !.super = f.super, !.groups = f.groups])
         /\ WithInodes(f, [PartInodes(f, Groups) EXCEPT !.super = f.super, !.groups = f.groups])
<1>1. PICK d \in Image : d = On(f)
  BY OnImage
<1>2. f.blocks \subseteq Block /\ f.inodes \subseteq Inode /\ f.super \in Counts /\ f.groups \in [Group -> Counts]
  BY DEF FileSystem
<1>3. /\ \A b \in Block : GroupOf(b, PerGroup) < Groups
      /\ \A n \in Inode : GroupOf(n, InodesPerGroup) < Groups
  BY GroupsOfNumbers, Sizes DEF Group
<1>4. WithBlocks(f, [PartBlocks(f, Groups) EXCEPT !.super = f.super, !.groups = f.groups])
  <2> DEFINE A == {b \in Block : b \in (IF GroupOf(b, PerGroup) < Groups THEN f.blocks ELSE d.blocks)}
             I == [b \in Block |-> IF GroupOf(b, PerGroup) < Groups /\ b \notin f.blocks THEN NoBlocks ELSE d.index[b]]
  <2>1. PICK image : image = [PartBlocks(f, Groups) EXCEPT !.super = f.super, !.groups = f.groups]
    OBVIOUS
  <2>2. A = f.blocks /\ \A b \in Block : I[b] = IF b \in f.blocks THEN d.index[b] ELSE NoBlocks
    BY <1>2, <1>3
  <2>3. PartBlocks(f, Groups) = [d EXCEPT !.blocks = A, !.index = I] /\ PartBlocks(f, Groups) \in Image
    BY <1>1, PartTyped DEF PartBlocks
  <2> HIDE DEF A, I
  <2>4. image \in Image /\ image.blocks = A /\ image.index = I /\ image.super = f.super /\ image.groups = f.groups
    BY <2>1, <2>3, <1>2 DEF Image
  <2>5. image.inodes = d.inodes /\ image.table = d.table /\ image.names = d.names
    BY <2>1, <2>3 DEF Image
  <2> QED BY <2>1, <2>2, <2>4, <2>5, <1>1 DEF WithBlocks
<1>5. WithInodes(f, [PartInodes(f, Groups) EXCEPT !.super = f.super, !.groups = f.groups])
  <2> DEFINE A == {n \in Inode : n \in (IF GroupOf(n, InodesPerGroup) < Groups THEN f.inodes ELSE d.inodes)}
  <2>1. PICK image : image = [PartInodes(f, Groups) EXCEPT !.super = f.super, !.groups = f.groups]
    OBVIOUS
  <2>2. A = f.inodes
    BY <1>2, <1>3
  <2>3. PartInodes(f, Groups) = [d EXCEPT !.inodes = A] /\ PartInodes(f, Groups) \in Image
    BY <1>1, PartTyped DEF PartInodes
  <2> HIDE DEF A
  <2>4. image \in Image /\ image.inodes = A /\ image.super = f.super /\ image.groups = f.groups
    BY <2>1, <2>3, <1>2 DEF Image
  <2>5. image.blocks = d.blocks /\ image.table = d.table /\ image.names = d.names /\ image.index = d.index
    BY <2>1, <2>3 DEF Image
  <2> QED BY <2>1, <2>2, <2>4, <2>5, <1>1 DEF WithInodes
<1> QED BY <1>4, <1>5

LEMMA BlocksSaved ==
  ASSUME disk \in Image, NEW f \in FileSystem, NEW P, CountFree(P),
         \A g \in 0 .. Groups : PartBlocks(f, g) \in P
  PROVE  \E image \in P : Adds(f, SaveSuperblock(FlushBlocks(f)), image, P) /\ WithBlocks(f, image)
<1>1. P \subseteq Image /\ Groups \in 0 .. Groups
  BY Sizes DEF CountFree
<1>2. PICK g : g = FlushBlocks(f)
  OBVIOUS
<1>3. Adds(f, g, PartBlocks(f, Groups), P)
  BY <1>1, <1>2, FlushedBlocks
<1>4. g \in FileSystem /\ On(g) = PartBlocks(f, Groups) /\ On(g) \in P /\ g.super = f.super /\ g.groups = f.groups
  BY <1>1, <1>3 DEF Adds
<1>5. PICK image : image = [PartBlocks(f, Groups) EXCEPT !.super = f.super, !.groups = f.groups]
  OBVIOUS
<1>6. Adds(g, SaveSuperblock(g), image, P)
  BY <1>4, <1>5, SuperSaved
<1>7. Adds(f, SaveSuperblock(g), image, P)
  BY <1>1, <1>3, <1>6, AddsMore
<1>8. image \in P
  BY <1>7 DEF Adds
<1> QED BY <1>2, <1>5, <1>7, <1>8, PartAll

LEMMA InodesSaved ==
  ASSUME disk \in Image, NEW f \in FileSystem, NEW P, CountFree(P),
         \A g \in 0 .. Groups : PartInodes(f, g) \in P
  PROVE  \E image \in P : Adds(f, SaveSuperblock(FlushInodes(f)), image, P) /\ WithInodes(f, image)
<1>1. P \subseteq Image /\ Groups \in 0 .. Groups
  BY Sizes DEF CountFree
<1>2. PICK g : g = FlushInodes(f)
  OBVIOUS
<1>3. Adds(f, g, PartInodes(f, Groups), P)
  BY <1>1, <1>2, FlushedInodes
<1>4. g \in FileSystem /\ On(g) = PartInodes(f, Groups) /\ On(g) \in P /\ g.super = f.super /\ g.groups = f.groups
  BY <1>1, <1>3 DEF Adds
<1>5. PICK image : image = [PartInodes(f, Groups) EXCEPT !.super = f.super, !.groups = f.groups]
  OBVIOUS
<1>6. Adds(g, SaveSuperblock(g), image, P)
  BY <1>4, <1>5, SuperSaved
<1>7. Adds(f, SaveSuperblock(g), image, P)
  BY <1>1, <1>3, <1>6, AddsMore
<1>8. image \in P
  BY <1>7 DEF Adds
<1> QED BY <1>2, <1>5, <1>7, <1>8, PartAll

LEMMA GroupBetween ==
  ASSUME NEW m \in Nat \ {0}, NEW g \in Nat, NEW b \in Int, NEW gp \in Int, gp = g * m, gp < b, b <= gp + m
  PROVE  GroupOf(b, m) = g
<1>1. PICK q \in Int, r \in 0 .. m - 1 : q = (b - 1) \div m /\ b - 1 = q * m + r
  <2>1. b - 1 \in Int
    OBVIOUS
  <2> QED BY <2>1, Division
<1>2. CASE q < g
  <2>1. PICK d \in Nat : g = q + 1 + d
    <3>1. g - (q + 1) \in Nat
      BY <1>2
    <3> QED BY <3>1
  <2>2. g * m = q * m + m + d * m /\ d * m \in Nat /\ q * m \in Int
    BY <2>1
  <2> QED BY <2>2, <1>1
<1>3. CASE q > g
  <2>1. PICK d \in Nat : q = g + 1 + d
    <3>1. q - (g + 1) \in Nat
      BY <1>3
    <3> QED BY <3>1
  <2>2. q * m = g * m + m + d * m /\ d * m \in Nat
    BY <2>1
  <2> QED BY <2>2, <1>1
<1> QED BY <1>1, <1>2, <1>3 DEF GroupOf

-----------------------------------------------------------------------------
(* The blocks that one allocation takes are n in a row, from lo, in group g. *)
IsUnit(u, lo, n, g) ==
  /\ n \in Nat \ {0} /\ lo \in Nat \ {0} /\ u = lo .. (lo + n) - 1
  /\ u \subseteq Block /\ g \in Group /\ \A b \in u : GroupOf(b, PerGroup) = g

LEMMA ByteIs ==
  ASSUME NEW g \in Group, NEW k \in 0 .. BytesPerMap - 1
  PROVE  \E lo : IsUnit(Byte(g, k), lo, BitsPerByte, g)
<1>1. BitsPerByte \in Nat \ {0} /\ BytesPerMap \in Nat \ {0} /\ Groups \in Nat \ {0} /\ g \in Nat /\ k \in Nat
  BY Ext2Assumption DEF Group
<1>2. PICK gp \in Nat, kb \in Nat : gp = g * PerGroup /\ kb = k * BitsPerByte
  BY <1>1, Sizes
<1>3. kb + BitsPerByte <= PerGroup
  <2>1. PICK d \in Nat : BytesPerMap = k + 1 + d
    <3>1. BytesPerMap - (k + 1) \in Nat
      BY <1>1
    <3> QED BY <3>1, <1>1
  <2>2. BytesPerMap * BitsPerByte = kb + BitsPerByte + d * BitsPerByte /\ d * BitsPerByte \in Nat
    BY <2>1, <1>1, <1>2
  <2> QED BY <2>2, <1>1, <1>2 DEF PerGroup
<1>4. gp + PerGroup <= Groups * PerGroup
  <2>1. PICK d \in Nat : Groups = g + 1 + d
    <3>1. Groups - (g + 1) \in Nat
      BY <1>1 DEF Group
    <3> QED BY <3>1, <1>1
  <2>2. Groups * PerGroup = gp + PerGroup + d * PerGroup /\ d * PerGroup \in Nat
    BY <2>1, <1>1, <1>2, Sizes
  <2> QED BY <2>2, <1>1, <1>2, Sizes
<1>5. PICK top \in Nat : top = Groups * PerGroup
  BY <1>1, Sizes
<1> DEFINE lo == gp + kb + 1
<1>6. Byte(g, k) = lo .. (lo + BitsPerByte) - 1
  <2>1. Byte(g, k) = {gp + kb + j : j \in 1 .. BitsPerByte}
    BY <1>2 DEF Byte
  <2>2. ASSUME NEW x \in lo .. (lo + BitsPerByte) - 1
        PROVE  x \in {gp + kb + j : j \in 1 .. BitsPerByte}
    <3>1. x - (gp + kb) \in 1 .. BitsPerByte /\ x = gp + kb + (x - (gp + kb))
      BY <1>1, <1>2
    <3> QED BY <3>1
  <2>3. ASSUME NEW j \in 1 .. BitsPerByte
        PROVE  gp + kb + j \in lo .. (lo + BitsPerByte) - 1
    BY <1>1, <1>2
  <2> QED BY <2>1, <2>2, <2>3
<1>7. ASSUME NEW b \in lo .. (lo + BitsPerByte) - 1
      PROVE  b \in Block /\ GroupOf(b, PerGroup) = g
  <2>1. b \in Int /\ gp < b /\ b <= gp + PerGroup
    <3>1. PerGroup \in Int /\ gp \in Int /\ kb \in Int /\ BitsPerByte \in Int /\ kb >= 0
      BY <1>1, Sizes
    <3> QED BY <3>1, <1>3
  <2>2. b \in Block
    <3>1. PerGroup \in Int /\ gp \in Int /\ gp >= 0
      BY Sizes
    <3> QED BY <2>1, <3>1, <1>4, <1>5 DEF Block
  <2>3. GroupOf(b, PerGroup) = g
    <3>1. PerGroup \in Nat \ {0} /\ g \in Nat /\ gp \in Int /\ gp = g * PerGroup
      BY <1>1, <1>2, Sizes
    <3> QED BY <2>1, <3>1, GroupBetween
  <2> QED BY <2>2, <2>3
<1>8. lo \in Nat \ {0}
  BY <1>1, <1>2
<1> HIDE DEF lo
<1> QED BY <1>1, <1>6, <1>7, <1>8 DEF IsUnit

LEMMA UnitIs ==
  ASSUME NEW f \in FileSystem, NEW u \in Units(f)
  PROVE  u \cap f.blocks = {} /\ \E lo, n, g : IsUnit(u, lo, n, g)
<1> DEFINE Bytes == {v \in {Byte(g, k) : g \in Group, k \in 0 .. BytesPerMap - 1} : v \cap f.blocks = {}}
<1>1. CASE Bytes # {}
  <2>1. u \in Bytes
    BY <1>1 DEF Units
  <2>2. PICK g \in Group, k \in 0 .. BytesPerMap - 1 : u = Byte(g, k) /\ u \cap f.blocks = {}
    BY <2>1
  <2> QED BY <2>2, ByteIs
<1>2. CASE Bytes = {}
  <2>1. u \in {{b} : b \in Block \ f.blocks}
    BY <1>2 DEF Units
  <2>2. PICK b \in Block : u = {b} /\ b \notin f.blocks
    BY <2>1
  <2>3. b \in Nat \ {0} /\ {b} = b .. (b + 1) - 1
    BY Sizes
  <2>4. IsUnit(u, b, 1, GroupOf(b, PerGroup))
    BY <2>2, <2>3, GroupsOfNumbers DEF IsUnit
  <2> QED BY <2>2, <2>4
<1> QED BY <1>1, <1>2

LEMMA UnitMin ==
  ASSUME NEW u, NEW lo, NEW n, NEW g, IsUnit(u, lo, n, g)
  PROVE  Min(u) = lo /\ lo \in u /\ IsFiniteSet(u) /\ Cardinality(u) = n /\ GroupOf(Min(u), PerGroup) = g
<1>1. lo \in u /\ \A b \in u : lo <= b
  BY DEF IsUnit
<1>2. Min(u) \in u /\ \A b \in u : Min(u) <= b
  BY <1>1 DEF Min
<1>3. Min(u) = lo
  BY <1>1, <1>2 DEF IsUnit
<1>4. lo \in Int /\ (lo + n) - 1 \in Int /\ (lo + n) - 1 >= lo
  BY DEF IsUnit
<1>5. IsFiniteSet(u) /\ Cardinality(u) = ((lo + n) - 1) - lo + 1
  <2>1. PICK hi \in Int : hi = (lo + n) - 1
    BY <1>4
  <2>2. IsFiniteSet(lo .. hi) /\ Cardinality(lo .. hi) = hi - lo + 1
    BY <1>4, <2>1, FS_Interval
  <2> QED BY <2>1, <2>2 DEF IsUnit
<1>6. ((lo + n) - 1) - lo + 1 = n
  BY DEF IsUnit
<1> QED BY <1>1, <1>3, <1>5, <1>6 DEF IsUnit

LEMMA InOrderIs ==
  ASSUME NEW u, NEW lo, NEW n, NEW g, IsUnit(u, lo, n, g)
  PROVE  /\ InOrder(u) \in Seq(Block) /\ InOrder(u) # <<>> /\ Len(InOrder(u)) = n
         /\ \A i \in 1 .. n : InOrder(u)[i] \in u
         /\ \A i, j \in 1 .. n : InOrder(u)[i] = InOrder(u)[j] => i = j
         /\ \A b \in u : \E i \in 1 .. n : InOrder(u)[i] = b
<1>1. InOrder(u) = [i \in 1 .. n |-> lo + i - 1] /\ n \in Nat \ {0} /\ lo \in Nat
  <2>1. Min(u) = lo /\ Cardinality(u) = n
    BY UnitMin
  <2> QED BY <2>1 DEF InOrder, IsUnit
<1>2. ASSUME NEW i \in 1 .. n
      PROVE  lo + i - 1 \in u /\ lo + i - 1 \in Block
  BY <1>1 DEF IsUnit
<1>3. InOrder(u) \in [1 .. n -> Block]
  BY <1>1, <1>2
<1>4. InOrder(u) \in Seq(Block) /\ Len(InOrder(u)) = n /\ InOrder(u) # <<>>
  <2>1. PICK s \in [1 .. n -> Block] : s = InOrder(u)
    BY <1>3
  <2>2. s \in Seq(Block) /\ Len(s) = n /\ s # <<>>
    BY <1>1
  <2> QED BY <2>1, <2>2
<1>5. ASSUME NEW b \in u
      PROVE  \E i \in 1 .. n : InOrder(u)[i] = b
  <2>1. b - lo + 1 \in 1 .. n /\ lo + (b - lo + 1) - 1 = b
    BY DEF IsUnit
  <2> QED BY <2>1, <1>1
<1>6. \A i, j \in 1 .. n : InOrder(u)[i] = InOrder(u)[j] => i = j
  BY <1>1
<1> QED BY <1>1, <1>2, <1>4, <1>5, <1>6

LEMMA UnitChosen ==
  ASSUME NEW f \in FileSystem, NEW n \in Inode, Units(f) # {}
  PROVE  (CHOOSE u \in Units(f) : \A v \in Units(f) : Earlier(n, u, v)) \in Units(f)
<1> DEFINE rank(w) == IF GroupOf(Min(w), PerGroup) = n \div InodesPerGroup THEN -1 ELSE GroupOf(Min(w), PerGroup)
           R == {rank(w) + 1 : w \in Units(f)}
<1>1. ASSUME NEW w \in Units(f)
      PROVE  rank(w) + 1 \in Nat /\ rank(w) \in Int /\ Min(w) \in Nat
  <2>1. PICK lo, k, g : IsUnit(w, lo, k, g)
    BY UnitIs
  <2>2. Min(w) = lo /\ GroupOf(Min(w), PerGroup) = g
    BY <2>1, UnitMin
  <2>3. g \in Nat /\ lo \in Nat
    BY <2>1 DEF IsUnit, Group
  <2> QED BY <2>2, <2>3
<1> HIDE DEF rank
<1>2. PICK r \in R : \A x \in R : r <= x
  <2>1. R \subseteq Nat /\ R # {}
    BY <1>1
  <2> HIDE DEF R
  <2> QED BY <2>1, LeastOf
<1> DEFINE M == {Min(w) : w \in {v \in Units(f) : rank(v) + 1 = r}}
<1>3. PICK l \in M : \A x \in M : l <= x
  <2>1. M \subseteq Nat /\ M # {}
    BY <1>1, <1>2
  <2> HIDE DEF M
  <2> QED BY <2>1, LeastOf
<1>4. PICK u \in Units(f) : rank(u) + 1 = r /\ Min(u) = l
  BY <1>3
<1>5. ASSUME NEW v \in Units(f)
      PROVE  Earlier(n, u, v)
  <2>1. rank(u) + 1 <= rank(v) + 1 /\ rank(u) \in Int /\ rank(v) \in Int
    BY <1>1, <1>2, <1>4
  <2>2. CASE rank(u) < rank(v)
    BY <2>2 DEF Earlier, rank
  <2>3. CASE rank(u) = rank(v)
    <3>1. Min(u) <= Min(v)
      BY <2>3, <1>3, <1>4
    <3> QED BY <2>3, <3>1 DEF Earlier, rank
  <2> QED BY <2>1, <2>2, <2>3
<1> QED BY <1>4, <1>5

-----------------------------------------------------------------------------
(* f with the node of n replaced.                                          *)
NodeSet(f, g, n, node) ==
  /\ node \in Cached \cup {NoNode} /\ g.node[n] = node
  /\ \A m \in Inode \ {n} : g.node[m] = f.node[m]

(* The memory of an allocation, before it is flushed.                      *)
Allocated(f, n, u) ==
  [f EXCEPT !.blocks = @ \cup u, !.super.blocks = @ - Cardinality(u),
            !.groups[GroupOf(Min(u), PerGroup)].blocks = @ - Cardinality(u),
            !.node[n].spare = InOrder(u)]

IsAllocated(f, g, n, u) ==
  /\ g \in FileSystem /\ g.blocks = f.blocks \cup u /\ g.inodes = f.inodes /\ g.images = f.images
  /\ g.super.blocks = f.super.blocks - Cardinality(u) /\ g.super.inodes = f.super.inodes
  /\ \A h \in Group : /\ g.groups[h].inodes = f.groups[h].inodes
                      /\ g.groups[h].blocks = IF h = GroupOf(Min(u), PerGroup) THEN f.groups[h].blocks - Cardinality(u)
                                              ELSE f.groups[h].blocks
  /\ NodeSet(f, g, n, [f.node[n] EXCEPT !.spare = InOrder(u)])

LEMMA AllocatedTyped ==
  ASSUME NEW f \in FileSystem, NEW n \in Inode, f.node[n] # NoNode, NEW u \in Units(f)
  PROVE  IsAllocated(f, Allocated(f, n, u), n, u)
<1>1. PICK lo, k, j : IsUnit(u, lo, k, j)
  BY UnitIs
<1>2. /\ u \subseteq Block /\ Cardinality(u) \in Int /\ GroupOf(Min(u), PerGroup) \in Group
      /\ InOrder(u) \in Seq(Block)
  <2>1. Cardinality(u) = k /\ GroupOf(Min(u), PerGroup) = j /\ InOrder(u) \in Seq(Block)
    BY <1>1, UnitMin, InOrderIs
  <2>2. u \subseteq Block /\ k \in Int /\ j \in Group
    BY <1>1 DEF IsUnit
  <2> QED BY <2>1, <2>2
<1>3. PICK c \in Int, i \in Group, s \in Seq(Block) : c = Cardinality(u) /\ i = GroupOf(Min(u), PerGroup) /\ s = InOrder(u)
  BY <1>2
<1>4. /\ f.node \in [Inode -> Cached \cup {NoNode}] /\ f.node[n] \in Cached
      /\ f.super \in Counts /\ f.groups \in [Group -> Counts]
  BY DEF FileSystem
<1>5. PICK node \in Cached : node = [f.node[n] EXCEPT !.spare = s]
  <2>1. [f.node[n] EXCEPT !.spare = s] \in Cached
    BY <1>4 DEF Cached
  <2> QED BY <2>1
<1>6. PICK super \in Counts : super = [f.super EXCEPT !.blocks = @ - c]
  <2>1. [f.super EXCEPT !.blocks = @ - c] \in Counts
    BY <1>4 DEF Counts
  <2> QED BY <2>1
<1>7. PICK group \in Counts : group = [f.groups[i] EXCEPT !.blocks = @ - c]
  <2>1. PICK count \in Counts : count = f.groups[i]
    BY <1>4
  <2>2. [count EXCEPT !.blocks = @ - c] \in Counts
    BY DEF Counts
  <2> QED BY <2>1, <2>2
<1>8. Allocated(f, n, u) = [f EXCEPT !.blocks = @ \cup u, !.super = super, !.groups = [@ EXCEPT ![i] = group],
                                    !.node = [@ EXCEPT ![n] = node]]
  BY <1>3, <1>5, <1>6, <1>7 DEF Allocated, FileSystem
<1>9. PICK nodes \in [Inode -> Cached \cup {NoNode}] : nodes = [f.node EXCEPT ![n] = node]
  BY <1>4
<1>10. PICK groups \in [Group -> Counts] : groups = [f.groups EXCEPT ![i] = group]
  BY <1>4
<1>11. PICK g : g = Allocated(f, n, u)
  OBVIOUS
<1>12. /\ g \in FileSystem /\ g.blocks = f.blocks \cup u /\ g.inodes = f.inodes /\ g.images = f.images
       /\ g.super = super /\ g.groups = groups /\ g.node = nodes
  BY <1>8, <1>9, <1>10, <1>11, <1>2 DEF FileSystem
<1>13. NodeSet(f, g, n, node)
  BY <1>12, <1>9, <1>4 DEF NodeSet
<1>14. /\ super.blocks = f.super.blocks - c /\ super.inodes = f.super.inodes
       /\ group.blocks = f.groups[i].blocks - c /\ group.inodes = f.groups[i].inodes
  <2>1. PICK count \in Counts : count = f.groups[i]
    BY <1>4
  <2> QED BY <2>1, <1>4, <1>6, <1>7 DEF Counts
<1>16. \A h \in Group : groups[h] = IF h = i THEN group ELSE f.groups[h]
  BY <1>4, <1>10
<1>15. NodeSet(f, g, n, [f.node[n] EXCEPT !.spare = InOrder(u)])
  BY <1>3, <1>5, <1>13
<1> QED BY <1>3, <1>11, <1>12, <1>14, <1>15, <1>16 DEF IsAllocated

LEMMA AllocateBlocksIs ==
  ASSUME NEW f \in FileSystem, NEW n \in Inode, f.node[n] # NoNode, Units(f) # {}
  PROVE  \E u \in Units(f) : /\ AllocateBlocks(f, n) = SaveSuperblock(FlushBlocks(Allocated(f, n, u)))
                             /\ IsAllocated(f, Allocated(f, n, u), n, u)
<1>1. PICK u \in Units(f) : u = CHOOSE v \in Units(f) : \A w \in Units(f) : Earlier(n, v, w)
  BY UnitChosen
<1> QED BY <1>1, AllocatedTyped DEF AllocateBlocks, Allocated

-----------------------------------------------------------------------------
(* The numbers that end a group belong to the file system: for no other    *)
(* number do _free_blocks and _free_inode find another bit than that of    *)
(* the number.                                                             *)
Aligned == \A g \in 1 .. Groups : g * PerGroup \in Fixed /\ g * InodesPerGroup \in FixedInodes

LEMMA NotLast ==
  ASSUME NEW m \in Nat \ {0}, NEW b \in 1 .. Groups * m, \A g \in 1 .. Groups : b # g * m
  PROVE  Marked(b, m) = b /\ b \div m = GroupOf(b, m)
<1>1. Groups \in Nat \ {0}
  BY Sizes
<1>2. PICK top \in Nat : top = Groups * m
  BY <1>1
<1>3. b \in Nat \ {0} /\ b <= top
  BY <1>2
<1>4. PICK q \in Int, r \in 0 .. m - 1 : q = b \div m /\ r = b % m /\ b = q * m + r
  BY <1>3, Division
<1>5. r # 0
  <2>1. CASE r = 0
    <3>1. b = q * m
      BY <1>4, <2>1
    <3>2. q >= 1
      <4>1. CASE q <= 0
        <5>1. q * m <= 0
          BY <4>1
        <5> QED BY <5>1, <3>1, <1>3
      <4> QED BY <4>1
    <3>3. q <= Groups
      <4>1. CASE q > Groups
        <5>1. PICK d \in Nat : q = Groups + 1 + d
          <6>1. q - (Groups + 1) \in Nat
            BY <4>1, <1>1
          <6> QED BY <6>1, <1>1
        <5>2. q * m = Groups * m + m + d * m /\ d * m \in Nat
          BY <5>1, <1>1
        <5> QED BY <5>2, <3>1, <1>2, <1>3
      <4> QED BY <4>1, <1>1
    <3> QED BY <3>1, <3>2, <3>3, <1>1
  <2> QED BY <2>1
<1>6. Marked(b, m) = b
  BY <1>4, <1>5 DEF Marked
<1>7. GroupOf(b, m) = q
  <2>1. PICK p \in Int, t \in 0 .. m - 1 : p = (b - 1) \div m /\ b - 1 = p * m + t
    <3>1. b - 1 \in Int
      BY <1>3
    <3> QED BY <3>1, Division
  <2>2. PICK qm \in Int : qm = q * m
    OBVIOUS
  <2>3. CASE q < p
    <3>1. PICK d \in Nat : p = q + 1 + d
      <4>1. p - (q + 1) \in Nat
        BY <2>3
      <4> QED BY <4>1
    <3>2. p * m = q * m + m + d * m /\ d * m \in Nat
      BY <3>1
    <3> QED BY <3>2, <2>1, <2>2, <1>3, <1>4
  <2>4. CASE p < q
    <3>1. PICK d \in Nat : q = p + 1 + d
      <4>1. q - (p + 1) \in Nat
        BY <2>4
      <4> QED BY <4>1
    <3>2. q * m = p * m + m + d * m /\ d * m \in Nat /\ p * m \in Int
      BY <3>1
    <3> QED BY <3>2, <2>1, <2>2, <1>3, <1>4, <1>5
  <2> QED BY <2>1, <2>3, <2>4 DEF GroupOf
<1> QED BY <1>4, <1>6, <1>7

LEMMA FreeNumbers ==
  ASSUME Aligned
  PROVE  /\ \A b \in Block \ Fixed : Marked(b, PerGroup) = b /\ b \div PerGroup = GroupOf(b, PerGroup)
         /\ \A n \in Inode \ FixedInodes : Marked(n, InodesPerGroup) = n /\ n \div InodesPerGroup = GroupOf(n, InodesPerGroup)
<1>1. ASSUME NEW b \in Block \ Fixed
      PROVE  Marked(b, PerGroup) = b /\ b \div PerGroup = GroupOf(b, PerGroup)
  <2>1. PICK m \in Nat \ {0} : m = PerGroup
    BY Sizes
  <2>2. b \in 1 .. Groups * m /\ \A g \in 1 .. Groups : b # g * m
    BY <2>1 DEF Aligned, Block
  <2> QED BY <2>1, <2>2, NotLast
<1>2. ASSUME NEW n \in Inode \ FixedInodes
      PROVE  Marked(n, InodesPerGroup) = n /\ n \div InodesPerGroup = GroupOf(n, InodesPerGroup)
  <2>1. PICK m \in Nat \ {0} : m = InodesPerGroup
    BY Sizes
  <2>2. n \in 1 .. Groups * m /\ \A g \in 1 .. Groups : n # g * m
    BY <2>1 DEF Aligned, Inode
  <2> QED BY <2>1, <2>2, NotLast
<1> QED BY <1>1, <1>2

(* The memory of a release of blocks, and of those of inodes.              *)
Released(f, s) ==
  [f EXCEPT !.blocks = @ \ {Marked(s[i], PerGroup) : i \in DOMAIN s}, !.super.blocks = @ + Len(s),
            !.groups = Regained(@, s)]
InodeTaken(f, n) ==
  [f EXCEPT !.inodes = @ \cup {n}, !.super.inodes = @ - 1, !.groups[GroupOf(n, InodesPerGroup)].inodes = @ - 1]
InodeReleased(f, n) ==
  [f EXCEPT !.inodes = @ \ {Marked(n, InodesPerGroup)}, !.super.inodes = @ + 1,
            !.groups[n \div InodesPerGroup].inodes = @ + 1]

(* The blocks S are no longer marked, and K[h] of the counts are group h's. *)
IsFreed(f, g, s, S, K) ==
  /\ g \in FileSystem /\ g.blocks = f.blocks \ S /\ g.inodes = f.inodes /\ g.images = f.images /\ g.node = f.node
  /\ g.super.blocks = f.super.blocks + Len(s) /\ g.super.inodes = f.super.inodes
  /\ \A h \in Group : /\ g.groups[h].inodes = f.groups[h].inodes
                      /\ g.groups[h].blocks = f.groups[h].blocks + K[h]
IsReleased(f, g, s) ==
  IsFreed(f, g, s, ToSet(s), [h \in Group |-> Cardinality({i \in DOMAIN s : GroupOf(s[i], PerGroup) = h})])

(* The inodes are now I, and `more` is what becomes free of them.          *)
IsInodes(f, g, n, I, more) ==
  /\ g \in FileSystem /\ g.blocks = f.blocks /\ g.inodes = I /\ g.images = f.images /\ g.node = f.node
  /\ g.super.inodes = f.super.inodes + more /\ g.super.blocks = f.super.blocks
  /\ \A h \in Group : /\ g.groups[h].blocks = f.groups[h].blocks
                      /\ g.groups[h].inodes = IF h = GroupOf(n, InodesPerGroup) THEN f.groups[h].inodes + more
                                              ELSE f.groups[h].inodes

LEMMA ReleasedTyped ==
  ASSUME NEW f \in FileSystem, NEW s \in Seq(Block)
  PROVE  IsFreed(f, Released(f, s), s, {Marked(s[i], PerGroup) : i \in DOMAIN s},
                 [h \in Group |-> Cardinality({i \in DOMAIN s : s[i] \div PerGroup = h})])
<1>4. /\ f.super \in Counts /\ f.groups \in [Group -> Counts] /\ f.blocks \subseteq Block
  BY DEF FileSystem
<1>5. ASSUME NEW g \in Group
      PROVE  Cardinality({i \in DOMAIN s : s[i] \div PerGroup = g}) \in Nat
  <2>1. IsFiniteSet(1 .. Len(s))
    <3>1. Len(s) \in Int /\ 1 \in Int
      OBVIOUS
    <3> QED BY <3>1, FS_Interval
  <2>2. PICK X \in SUBSET (1 .. Len(s)) : X = {i \in DOMAIN s : s[i] \div PerGroup = g}
    <3>1. DOMAIN s = 1 .. Len(s)
      OBVIOUS
    <3>2. {i \in DOMAIN s : s[i] \div PerGroup = g} \in SUBSET (1 .. Len(s))
      BY <3>1
    <3> QED BY <3>2
  <2>3. IsFiniteSet(X)
    BY <2>1, FS_Subset
  <2> QED BY <2>2, <2>3, FS_CardinalityType
<1>6. PICK len \in Nat, S \in {{Marked(s[i], PerGroup) : i \in DOMAIN s}}, K \in [Group -> Nat] :
        /\ len = Len(s) /\ S = {Marked(s[i], PerGroup) : i \in DOMAIN s}
        /\ K = [h \in Group |-> Cardinality({i \in DOMAIN s : s[i] \div PerGroup = h})]
  <2>1. Len(s) \in Nat
    OBVIOUS
  <2>2. [h \in Group |-> Cardinality({i \in DOMAIN s : s[i] \div PerGroup = h})] \in [Group -> Nat]
    BY <1>5
  <2> QED BY <2>1, <2>2
<1>7. PICK super \in Counts : super = [f.super EXCEPT !.blocks = @ + len]
  <2>1. [f.super EXCEPT !.blocks = @ + len] \in Counts
    BY <1>4 DEF Counts
  <2> QED BY <2>1
<1>8. PICK groups \in [Group -> Counts] : groups = [g \in Group |-> [f.groups[g] EXCEPT !.blocks = @ + K[g]]]
  <2>1. ASSUME NEW g \in Group
        PROVE  [f.groups[g] EXCEPT !.blocks = @ + K[g]] \in Counts
    <3>1. PICK count \in Counts, k \in Nat : count = f.groups[g] /\ k = K[g]
      BY <1>4
    <3>2. [count EXCEPT !.blocks = @ + k] \in Counts
      BY DEF Counts
    <3> QED BY <3>1, <3>2
  <2> QED BY <2>1
<1>9. groups = Regained(f.groups, s)
  <2>1. \A h \in Group : K[h] = Cardinality({i \in DOMAIN s : s[i] \div PerGroup = h})
    BY <1>6, Zenon
  <2> QED BY <1>8, <2>1, Zenon DEF Regained
<1>10. PICK g : g = Released(f, s)
  OBVIOUS
<1>11. g = [f EXCEPT !.blocks = @ \ S, !.super.blocks = @ + Len(s), !.groups = Regained(@, s)]
  BY <1>6, <1>10, Zenon DEF Released
<1>12. g = [f EXCEPT !.blocks = @ \ S, !.super = super, !.groups = groups]
  BY <1>6, <1>7, <1>9, <1>11 DEF FileSystem
<1>13. /\ g \in FileSystem /\ g.blocks = f.blocks \ S /\ g.inodes = f.inodes /\ g.images = f.images /\ g.node = f.node
       /\ g.super = super /\ g.groups = groups
  BY <1>4, <1>12 DEF FileSystem
<1>14. super.blocks = f.super.blocks + len /\ super.inodes = f.super.inodes
  BY <1>4, <1>7 DEF Counts
<1>15. ASSUME NEW h \in Group
       PROVE  groups[h].blocks = f.groups[h].blocks + K[h] /\ groups[h].inodes = f.groups[h].inodes
  <2>1. PICK count \in Counts, k \in Nat : count = f.groups[h] /\ k = K[h]
    BY <1>4
  <2>2. groups[h] = [count EXCEPT !.blocks = @ + k]
    BY <1>8, <2>1
  <2> QED BY <2>1, <2>2 DEF Counts
<1>16. IsFreed(f, g, s, S, K)
  BY <1>6, <1>13, <1>14, <1>15 DEF IsFreed
<1> QED BY <1>6, <1>10, <1>16, Zenon

LEMMA ReleasedIs ==
  ASSUME Aligned, NEW f \in FileSystem, NEW s \in Seq(Block \ Fixed)
  PROVE  IsReleased(f, Released(f, s), s)
<1>1. \A i \in DOMAIN s : Marked(s[i], PerGroup) = s[i] /\ s[i] \div PerGroup = GroupOf(s[i], PerGroup)
  BY FreeNumbers
<1>2. {Marked(s[i], PerGroup) : i \in DOMAIN s} = ToSet(s)
  BY <1>1 DEF ToSet
<1>3. \A g \in Group : {i \in DOMAIN s : s[i] \div PerGroup = g} = {i \in DOMAIN s : GroupOf(s[i], PerGroup) = g}
  BY <1>1
<1>4. PICK p \in Seq(Block) : p = s
  <2>1. s \in Seq(Block)
    OBVIOUS
  <2> QED BY <2>1
<1>5. IsFreed(f, Released(f, p), p, {Marked(p[i], PerGroup) : i \in DOMAIN p},
              [h \in Group |-> Cardinality({i \in DOMAIN p : p[i] \div PerGroup = h})])
  BY ReleasedTyped
<1>6. [h \in Group |-> Cardinality({i \in DOMAIN s : s[i] \div PerGroup = h})]
        = [h \in Group |-> Cardinality({i \in DOMAIN s : GroupOf(s[i], PerGroup) = h})]
  BY <1>3, Zenon
<1> QED BY <1>2, <1>4, <1>5, <1>6, Zenon DEF IsReleased

LEMMA FreeBlocksIs ==
  ASSUME NEW f, NEW s
  PROVE  FreeBlocks(f, s) = IF s = <<>> THEN f ELSE SaveSuperblock(FlushBlocks(Released(f, s)))
BY DEF FreeBlocks, Released

LEMMA InodesTyped ==
  ASSUME NEW f \in FileSystem, NEW n \in Inode, NEW I \in SUBSET Inode, NEW more \in Int, NEW i, i = GroupOf(n, InodesPerGroup),
         NEW g, g = [f EXCEPT !.inodes = I, !.super.inodes = @ + more, !.groups[i].inodes = @ + more]
  PROVE  IsInodes(f, g, n, I, more)
<1>1. i \in Group
  BY GroupsOfNumbers
<1>2. f.super \in Counts /\ f.groups \in [Group -> Counts]
  BY DEF FileSystem
<1>3. PICK super \in Counts : super = [f.super EXCEPT !.inodes = @ + more]
  <2>1. [f.super EXCEPT !.inodes = @ + more] \in Counts
    BY <1>2 DEF Counts
  <2> QED BY <2>1
<1>4. PICK group \in Counts : group = [f.groups[i] EXCEPT !.inodes = @ + more]
  <2>1. PICK count \in Counts : count = f.groups[i]
    BY <1>1, <1>2
  <2>2. [count EXCEPT !.inodes = @ + more] \in Counts
    BY DEF Counts
  <2> QED BY <2>1, <2>2
<1>5. PICK groups \in [Group -> Counts] : groups = [f.groups EXCEPT ![i] = group]
  BY <1>2
<1>6. g = [f EXCEPT !.inodes = I, !.super = super, !.groups = groups]
  BY <1>3, <1>4, <1>5 DEF FileSystem
<1>7. /\ g \in FileSystem /\ g.blocks = f.blocks /\ g.inodes = I /\ g.images = f.images /\ g.node = f.node
      /\ g.super = super /\ g.groups = groups
  BY <1>6 DEF FileSystem
<1>8. /\ super.inodes = f.super.inodes + more /\ super.blocks = f.super.blocks
      /\ group.inodes = f.groups[i].inodes + more /\ group.blocks = f.groups[i].blocks
  <2>1. PICK count \in Counts : count = f.groups[i]
    BY <1>1, <1>2
  <2> QED BY <2>1, <1>2, <1>3, <1>4 DEF Counts
<1>9. \A h \in Group : groups[h] = IF h = i THEN group ELSE f.groups[h]
  BY <1>2, <1>5
<1> QED BY <1>7, <1>8, <1>9 DEF IsInodes

LEMMA AllocateInodeIs ==
  ASSUME NEW f \in FileSystem, NEW n \in Inode
  PROVE  /\ AllocateInode(f, n) = SaveSuperblock(FlushInodes(InodeTaken(f, n)))
         /\ IsInodes(f, InodeTaken(f, n), n, f.inodes \cup {n}, -1)
<1>1. PICK g : g = InodeTaken(f, n)
  OBVIOUS
<1>2. PICK I \in SUBSET Inode : I = f.inodes \cup {n}
  BY DEF FileSystem
<1>3. PICK i \in Group : i = GroupOf(n, InodesPerGroup)
  BY GroupsOfNumbers
<1>4. f.super \in Counts /\ f.groups \in [Group -> Counts]
  BY DEF FileSystem
<1>5. g = [f EXCEPT !.inodes = I, !.super.inodes = @ + (-1), !.groups[i].inodes = @ + (-1)]
  <2>1. \A x \in Int : x - 1 = x + (-1)
    OBVIOUS
  <2>2. g = [f EXCEPT !.inodes = I, !.super.inodes = @ - 1, !.groups[i].inodes = @ - 1]
    BY <1>1, <1>2, <1>3 DEF InodeTaken
  <2>3. f.super.inodes \in Int /\ f.groups[i].inodes \in Int
    <3>1. PICK count \in Counts : count = f.groups[i]
      BY <1>4
    <3> QED BY <1>4, <3>1 DEF Counts
  <2> QED BY <2>1, <2>2, <2>3
<1>6. IsInodes(f, g, n, I, -1)
  <2>1. -1 \in Int
    OBVIOUS
  <2> QED BY <1>3, <1>5, <2>1, InodesTyped, Zenon
<1> QED BY <1>1, <1>2, <1>6 DEF AllocateInode, InodeTaken

LEMMA FreeInodeIs ==
  ASSUME Aligned, NEW f \in FileSystem, NEW n \in Inode \ FixedInodes
  PROVE  /\ FreeInode(f, n) = SaveSuperblock(FlushInodes(InodeReleased(f, n)))
         /\ IsInodes(f, InodeReleased(f, n), n, f.inodes \ {n}, 1)
<1>1. PICK g : g = InodeReleased(f, n)
  OBVIOUS
<1>2. PICK I \in SUBSET Inode : I = f.inodes \ {n}
  BY DEF FileSystem
<1>3. PICK i \in Group : i = GroupOf(n, InodesPerGroup)
  BY GroupsOfNumbers
<1>4. g = [f EXCEPT !.inodes = I, !.super.inodes = @ + 1, !.groups[i].inodes = @ + 1]
  BY <1>1, <1>2, <1>3, FreeNumbers DEF InodeReleased
<1>5. IsInodes(f, g, n, I, 1)
  <2>1. 1 \in Int /\ n \in Inode
    OBVIOUS
  <2> QED BY <1>3, <1>4, <2>1, InodesTyped, Zenon
<1> QED BY <1>1, <1>2, <1>5 DEF FreeInode, InodeReleased

-----------------------------------------------------------------------------
(* What changes in memory alone, of inode n alone.                         *)
Memory(f, g, n) ==
  /\ g \in FileSystem /\ g.images = f.images /\ g.inodes = f.inodes
  /\ \A m \in Inode \ {n} : g.node[m] = f.node[m]
IsNode(f, g, n, node) ==
  /\ Memory(f, g, n) /\ g.node[n] = node
  /\ g.blocks = f.blocks /\ g.super = f.super /\ g.groups = f.groups

LEMMA NodeReplaced ==
  ASSUME NEW f \in FileSystem, NEW n \in Inode, NEW node \in Cached \cup {NoNode},
         NEW g, g = [f EXCEPT !.node[n] = node]
  PROVE  IsNode(f, g, n, node)
<1>1. f.node \in [Inode -> Cached \cup {NoNode}]
  BY DEF FileSystem
<1>2. PICK nodes \in [Inode -> Cached \cup {NoNode}] : nodes = [f.node EXCEPT ![n] = node]
  BY <1>1
<1>3. g = [f EXCEPT !.node = nodes]
  BY <1>2 DEF FileSystem
<1>4. nodes[n] = node /\ \A m \in Inode \ {n} : nodes[m] = f.node[m]
  BY <1>1, <1>2
<1>5. /\ g \in FileSystem /\ g.blocks = f.blocks /\ g.inodes = f.inodes /\ g.images = f.images /\ g.node = nodes
      /\ g.super = f.super /\ g.groups = f.groups
  BY <1>3 DEF FileSystem
<1> QED BY <1>4, <1>5 DEF IsNode, Memory

LEMMA CachedIs ==
  ASSUME NEW f \in FileSystem, NEW n \in Inode, f.node[n] # NoNode
  PROVE  f.node[n] \in Cached
BY DEF FileSystem

LEMMA OnSame ==
  ASSUME NEW f, NEW g, g.images = f.images
  PROVE  On(g) = On(f)
BY DEF On

LEMMA CachedChanges ==
  ASSUME NEW c \in Cached
  PROVE  /\ \A k \in Int : [c EXCEPT !.links = k] \in Cached
         /\ \A e \in BOOLEAN : [c EXCEPT !.empty = e] \in Cached
         /\ \A d \in [0 .. Direct - 1 -> Pointer] : [c EXCEPT !.direct = d] \in Cached
         /\ \A b \in Pointer : [c EXCEPT !.index = b] \in Cached
         /\ \A s \in Seq(Block) : [c EXCEPT !.spare = s] \in Cached
         /\ \A k \in Nat : [c EXCEPT !.opens = k] \in Cached
BY DEF Cached

LEMMA NotNoNode ==
  \A c \in Cached : c # NoNode
BY Ext2Assumption

(* What the steps of a call do to the node of n, which is in the cache.    *)
LEMMA LinksChanged ==
  ASSUME NEW f \in FileSystem, NEW n \in Inode, f.node[n] # NoNode
  PROVE  /\ IsNode(f, IncLinkCount(f, n), n, [f.node[n] EXCEPT !.links = @ + 1])
         /\ IsNode(f, [f EXCEPT !.node[n].links = @ - 1], n, [f.node[n] EXCEPT !.links = @ - 1])
<1>1. PICK c \in Cached : c = f.node[n]
  BY CachedIs
<1>2. c.links \in Int
  BY DEF Cached
<1>3. PICK more \in Cached, less \in Cached : more = [c EXCEPT !.links = @ + 1] /\ less = [c EXCEPT !.links = @ - 1]
  <2>1. c.links + 1 \in Int /\ c.links - 1 \in Int
    BY <1>2
  <2>2. [c EXCEPT !.links = @ + 1] \in Cached /\ [c EXCEPT !.links = @ - 1] \in Cached
    BY <2>1, CachedChanges
  <2> QED BY <2>2
<1>4. IncLinkCount(f, n) = [f EXCEPT !.node[n] = more]
  BY <1>1, <1>3 DEF IncLinkCount
<1>5. [f EXCEPT !.node[n].links = @ - 1] = [f EXCEPT !.node[n] = less]
  BY <1>1, <1>3
<1> QED BY <1>1, <1>3, <1>4, <1>5, NodeReplaced

LEMMA OpensChanged ==
  ASSUME NEW f \in FileSystem, NEW n \in Inode, f.node[n] # NoNode
  PROVE  /\ IsNode(f, [f EXCEPT !.node[n].opens = @ + 1], n, [f.node[n] EXCEPT !.opens = @ + 1])
         /\ f.node[n].opens > 0 => IsNode(f, [f EXCEPT !.node[n].opens = @ - 1], n, [f.node[n] EXCEPT !.opens = @ - 1])
<1>1. PICK c \in Cached : c = f.node[n]
  BY CachedIs
<1>2. c.opens \in Nat
  BY DEF Cached
<1>3. PICK more \in Cached : more = [c EXCEPT !.opens = @ + 1]
  <2>1. [c EXCEPT !.opens = @ + 1] \in Cached
    BY <1>2, CachedChanges
  <2> QED BY <2>1
<1>4. IsNode(f, [f EXCEPT !.node[n].opens = @ + 1], n, [f.node[n] EXCEPT !.opens = @ + 1])
  <2>1. [f EXCEPT !.node[n].opens = @ + 1] = [f EXCEPT !.node[n] = more]
    BY <1>1, <1>3
  <2> QED BY <1>1, <1>3, <2>1, NodeReplaced
<1>5. ASSUME c.opens > 0
      PROVE  IsNode(f, [f EXCEPT !.node[n].opens = @ - 1], n, [f.node[n] EXCEPT !.opens = @ - 1])
  <2>1. PICK less \in Cached : less = [c EXCEPT !.opens = @ - 1]
    <3>1. c.opens - 1 \in Nat
      BY <1>2, <1>5
    <3>2. [c EXCEPT !.opens = @ - 1] \in Cached
      BY <3>1, CachedChanges
    <3> QED BY <3>2
  <2>2. [f EXCEPT !.node[n].opens = @ - 1] = [f EXCEPT !.node[n] = less]
    BY <1>1, <2>1
  <2> QED BY <1>1, <2>1, <2>2, NodeReplaced
<1> QED BY <1>1, <1>4, <1>5

LEMMA EmptyChanged ==
  ASSUME NEW f \in FileSystem, NEW n \in Inode, f.node[n] # NoNode, NEW e \in BOOLEAN
  PROVE  IsNode(f, [f EXCEPT !.node[n].empty = e], n, [f.node[n] EXCEPT !.empty = e])
<1>1. PICK c \in Cached : c = f.node[n]
  BY CachedIs
<1>2. PICK d \in Cached : d = [c EXCEPT !.empty = e]
  <2>1. [c EXCEPT !.empty = e] \in Cached
    BY CachedChanges
  <2> QED BY <2>1
<1>3. [f EXCEPT !.node[n].empty = e] = [f EXCEPT !.node[n] = d]
  BY <1>1, <1>2
<1> QED BY <1>1, <1>2, <1>3, NodeReplaced

LEMMA SpareChanged ==
  ASSUME NEW f \in FileSystem, NEW n \in Inode, f.node[n] # NoNode, NEW s \in Seq(Block)
  PROVE  IsNode(f, [f EXCEPT !.node[n].spare = s], n, [f.node[n] EXCEPT !.spare = s])
<1>1. PICK c \in Cached : c = f.node[n]
  BY CachedIs
<1>2. PICK d \in Cached : d = [c EXCEPT !.spare = s]
  <2>1. [c EXCEPT !.spare = s] \in Cached
    BY CachedChanges
  <2> QED BY <2>1
<1>3. [f EXCEPT !.node[n].spare = s] = [f EXCEPT !.node[n] = d]
  BY <1>1, <1>2
<1> QED BY <1>1, <1>2, <1>3, NodeReplaced

LEMMA TakenIs ==
  ASSUME NEW f \in FileSystem, NEW n \in Inode, f.node[n] # NoNode, f.node[n].spare # <<>>
  PROVE  /\ IsNode(f, Taken(f, n), n, [f.node[n] EXCEPT !.spare = Tail(@)])
         /\ Head(f.node[n].spare) \in Block /\ Tail(f.node[n].spare) \in Seq(Block)
<1>1. f.node[n] \in Cached
  BY CachedIs
<1>2. PICK s \in Seq(Block) : s = f.node[n].spare
  BY <1>1 DEF Cached
<1>3. PICK t \in Seq(Block) : t = Tail(s) /\ Head(s) \in Block
  <2>1. s # <<>>
    BY <1>2
  <2>2. Tail(s) \in Seq(Block) /\ Head(s) \in Block
    BY <2>1
  <2> QED BY <2>2
<1>4. Taken(f, n) = [f EXCEPT !.node[n].spare = t]
  BY <1>2, <1>3 DEF Taken
<1>5. IsNode(f, Taken(f, n), n, [f.node[n] EXCEPT !.spare = t])
  BY <1>4, SpareChanged
<1>6. t = Tail(f.node[n].spare)
  BY <1>2, <1>3
<1> QED BY <1>2, <1>3, <1>5, <1>6, Zenon

LEMMA LoadedIs ==
  ASSUME disk \in Image, NEW f \in FileSystem, NEW n \in Inode
  PROVE  /\ f.node[n] # NoNode => Loaded(f, n) = f
         /\ f.node[n] = NoNode =>
              \E node \in Cached :
                /\ IsNode(f, Loaded(f, n), n, node)
                /\ node.links = On(f).table[n].links /\ node.empty = On(f).table[n].empty
                /\ node.direct = On(f).table[n].direct /\ node.index = On(f).table[n].index
                /\ node.spare = <<>> /\ node.opens = 0
<1>1. CASE f.node[n] # NoNode
  BY <1>1 DEF Loaded
<1>2. CASE f.node[n] = NoNode
  <2>1. PICK saved \in Saved : saved = On(f).table[n]
    BY OnImage DEF Image
  <2>2. PICK node \in Cached : node = [links |-> saved.links, empty |-> saved.empty, direct |-> saved.direct,
                                       index |-> saved.index, spare |-> <<>>, opens |-> 0]
    <3>1. [links |-> saved.links, empty |-> saved.empty, direct |-> saved.direct,
           index |-> saved.index, spare |-> <<>>, opens |-> 0] \in Cached
      BY DEF Saved, Cached
    <3> QED BY <3>1
  <2>3. Loaded(f, n) = [f EXCEPT !.node[n] = node]
    BY <1>2, <2>1, <2>2 DEF Loaded
  <2>4. IsNode(f, Loaded(f, n), n, node)
    BY <2>3, NodeReplaced
  <2> QED BY <1>2, <2>1, <2>2, <2>4
<1> QED BY <1>1, <1>2

-----------------------------------------------------------------------------
(* The blocks of an inode, in the places 0 .. Direct + PerIndex: t has those *)
(* of s that are not 0, at[i] is where the i-th of them was.               *)
IsSifted(s, k, t, at) ==
  /\ t \in Seq(Block) /\ at \in [1 .. Len(t) -> 1 .. k]
  /\ \A i \in 1 .. Len(t) : t[i] = s[at[i]]
  /\ \A i, j \in 1 .. Len(t) : at[i] = at[j] => i = j
  /\ \A j \in 1 .. k : s[j] # 0 => \E i \in 1 .. Len(t) : at[i] = j

LEMMA SiftedMore ==
  ASSUME NEW s \in Seq(Pointer), NEW k \in 1 .. Len(s), NEW t, NEW at, IsSifted(s, k - 1, t, at)
  PROVE  \E new : IsSifted(s, k, IF s[k] = 0 THEN t ELSE Append(t, s[k]), new)
<1>1. t \in Seq(Block) /\ at \in [1 .. Len(t) -> 1 .. k - 1] /\ Len(t) \in Nat /\ k \in Nat /\ s[k] \in Pointer
  BY DEF IsSifted
<1>2. CASE s[k] = 0
  <2>1. at \in [1 .. Len(t) -> 1 .. k]
    BY <1>1
  <2>2. \A j \in 1 .. k : j # k => j \in 1 .. k - 1
    BY <1>1
  <2>3. IsSifted(s, k, t, at)
    BY <1>1, <1>2, <2>1, <2>2 DEF IsSifted
  <2> QED BY <1>2, <2>3
<1>3. CASE s[k] # 0
  <2> DEFINE n == Len(t) + 1
             u == Append(t, s[k])
             new == [i \in 1 .. n |-> IF i = n THEN k ELSE at[i]]
  <2>1. s[k] \in Block
    BY <1>1, <1>3 DEF Pointer
  <2>2. /\ u \in Seq(Block) /\ Len(u) = n /\ u[n] = s[k] /\ n \in Nat
        /\ \A i \in 1 .. Len(t) : u[i] = t[i]
    BY <1>1, <2>1
  <2>3. \A i \in 1 .. n : i # n => i \in 1 .. Len(t)
    BY <1>1
  <2> HIDE DEF n, u
  <2>4. \A i \in 1 .. n : new[i] = (IF i = n THEN k ELSE at[i]) /\ (i # n => at[i] \in 1 .. k - 1)
    BY <1>1, <2>3
  <2>5. n \in 1 .. n /\ \A i \in 1 .. Len(t) : i \in 1 .. n /\ i # n
    BY <1>1 DEF n
  <2>6. k \in 1 .. k /\ \A j \in 1 .. k - 1 : j \in 1 .. k /\ j # k
    BY <1>1
  <2>7. new \in [1 .. n -> 1 .. k]
    BY <2>4, <2>6
  <2> HIDE DEF new
  <2>8. \A i \in 1 .. n : u[i] = s[new[i]]
    BY <2>2, <2>3, <2>4 DEF IsSifted
  <2>9. \A i, j \in 1 .. n : new[i] = new[j] => i = j
    BY <2>3, <2>4, <2>6 DEF IsSifted
  <2>10. ASSUME NEW j \in 1 .. k, s[j] # 0
         PROVE  \E i \in 1 .. n : new[i] = j
    <3>1. CASE j = k
      BY <3>1, <2>4, <2>5
    <3>2. CASE j # k
      <4>1. j \in 1 .. k - 1
        BY <3>2, <1>1
      <4>2. PICK i \in 1 .. Len(t) : at[i] = j
        BY <4>1, <2>10 DEF IsSifted
      <4> QED BY <4>2, <2>4, <2>5
    <3> QED BY <3>1, <3>2
  <2>11. IsSifted(s, k, u, new)
    BY <2>2, <2>7, <2>8, <2>9, <2>10 DEF IsSifted
  <2> QED BY <1>3, <2>11 DEF u
<1> QED BY <1>2, <1>3

LEMMA NonZeroIs ==
  ASSUME NEW s \in Seq(Pointer)
  PROVE  \E at : IsSifted(s, Len(s), NonZero(s), at)
<1>1. PICK m \in Nat : m = Len(s)
  OBVIOUS
<1> DEFINE Step == [i \in 1 .. m |-> [x \in Seq(Block) |-> IF s[i] = 0 THEN x ELSE Append(x, s[i])]]
           F == CHOOSE h : h = [i \in 0 .. m |-> IF i = 0 THEN <<>> ELSE IF s[i] = 0 THEN h[i - 1] ELSE Append(h[i - 1], s[i])]
<1>2. \A i \in 1 .. m, x \in Seq(Block) : /\ Step[i][x] \in Seq(Block)
                                          /\ Step[i][x] = IF s[i] = 0 THEN x ELSE Append(x, s[i])
  <2>1. ASSUME NEW i \in 1 .. m, NEW x \in Seq(Block)
        PROVE  (IF s[i] = 0 THEN x ELSE Append(x, s[i])) \in Seq(Block)
    <3>1. s[i] \in Pointer
      BY <1>1
    <3> QED BY <3>1 DEF Pointer
  <2> QED BY <2>1
<1>3. \E h : h = [i \in 0 .. m |-> IF i = 0 THEN <<>> ELSE IF s[i] = 0 THEN h[i - 1] ELSE Append(h[i - 1], s[i])]
  <2> HIDE DEF Step
  <2>1. PICK h : IsRecursion(h, m, <<>>, Step) /\ \A i \in 0 .. m : h[i] \in Seq(Block)
    <3>1. <<>> \in Seq(Block)
      OBVIOUS
    <3> QED BY <3>1, <1>2, Recursion
  <2>2. h = [i \in 0 .. m |-> IF i = 0 THEN <<>> ELSE Step[i][h[i - 1]]]
    BY <2>1 DEF IsRecursion
  <2>3. ASSUME NEW i \in 0 .. m
        PROVE  i # 0 => Step[i][h[i - 1]] = IF s[i] = 0 THEN h[i - 1] ELSE Append(h[i - 1], s[i])
    <3>1. i # 0 => i \in 1 .. m /\ i - 1 \in 0 .. m
      OBVIOUS
    <3> QED BY <3>1, <2>1, <1>2
  <2>4. h = [i \in 0 .. m |-> IF i = 0 THEN <<>> ELSE IF s[i] = 0 THEN h[i - 1] ELSE Append(h[i - 1], s[i])]
    BY <2>2, <2>3
  <2> QED BY <2>4
<1>4. F = [i \in 0 .. m |-> IF i = 0 THEN <<>> ELSE IF s[i] = 0 THEN F[i - 1] ELSE Append(F[i - 1], s[i])]
  BY <1>3
<1>5. NonZero(s) = F[m]
  BY <1>1 DEF NonZero
<1> HIDE DEF F
<1> DEFINE G == {i \in 0 .. m : \E at : IsSifted(s, i, F[i], at)}
<1>6. 0 \in G
  <2>1. PICK t \in Seq(Block) : t = <<>> /\ Len(t) = 0 /\ F[0] = t
    <3>1. <<>> \in Seq(Block) /\ Len(<<>>) = 0 /\ F[0] = <<>>
      BY <1>4
    <3> QED BY <3>1
  <2>2. 1 .. Len(t) = {} /\ 1 .. 0 = {}
    BY <2>1
  <2>3. [i \in {} |-> 0] \in [{} -> {}]
    OBVIOUS
  <2>4. IsSifted(s, 0, t, [i \in {} |-> 0])
    BY <2>1, <2>2, <2>3 DEF IsSifted
  <2> QED BY <2>1, <2>4
<1>7. ASSUME NEW i \in 1 .. m, i - 1 \in G
      PROVE  i \in G
  <2>1. PICK at : IsSifted(s, i - 1, F[i - 1], at)
    BY <1>7
  <2>2. F[i] = IF s[i] = 0 THEN F[i - 1] ELSE Append(F[i - 1], s[i])
    <3>1. i \in 0 .. m /\ i # 0
      OBVIOUS
    <3> QED BY <3>1, <1>4, Zenon
  <2>3. i \in 1 .. Len(s)
    BY <1>1
  <2>4. \E new : IsSifted(s, i, IF s[i] = 0 THEN F[i - 1] ELSE Append(F[i - 1], s[i]), new)
    BY <2>1, <2>3, SiftedMore
  <2>5. \E new : IsSifted(s, i, F[i], new)
    BY <2>2, <2>4, Zenon
  <2> QED BY <2>5
<1>8. \A i \in 0 .. m : i \in G
  <2> HIDE DEF G
  <2> QED BY <1>6, <1>7, Upwards
<1>9. m \in G
  BY <1>8
<1> QED BY <1>1, <1>5, <1>9

Place == 0 .. Direct + PerIndex
HasBlocks(inode) == inode.direct \in [0 .. Direct - 1 -> Pointer] /\ inode.index \in Pointer
IsIndex(index) == index \in [Block -> [0 .. PerIndex - 1 -> Pointer]]

LEMMA BlockAtTyped ==
  ASSUME NEW inode, HasBlocks(inode), NEW index, IsIndex(index)
  PROVE  \A i \in Place : BlockAt(inode, index, i) \in Pointer
<1>1. ASSUME NEW i \in Place
      PROVE  BlockAt(inode, index, i) \in Pointer
  <2>1. Direct \in Nat /\ PerIndex \in Nat /\ 0 \in Pointer
    BY Sizes DEF Pointer
  <2>2. CASE i < Direct
    <3>1. i \in 0 .. Direct - 1
      BY <2>1, <2>2 DEF Place
    <3> QED BY <2>2, <3>1 DEF HasBlocks, BlockAt
  <2>3. CASE ~(i < Direct) /\ inode.index = 0
    BY <2>1, <2>3 DEF BlockAt
  <2>4. CASE ~(i < Direct) /\ inode.index # 0 /\ i < Direct + PerIndex
    <3>1. inode.index \in Block /\ i - Direct \in 0 .. PerIndex - 1
      BY <2>1, <2>4 DEF HasBlocks, Pointer, Place
    <3>2. index[inode.index] \in [0 .. PerIndex - 1 -> Pointer]
      BY <3>1 DEF IsIndex
    <3>3. BlockAt(inode, index, i) = index[inode.index][i - Direct]
      BY <2>4 DEF BlockAt
    <3> QED BY <3>1, <3>2, <3>3
  <2>5. CASE ~(i < Direct) /\ inode.index # 0 /\ ~(i < Direct + PerIndex)
    BY <2>5 DEF BlockAt, HasBlocks
  <2> QED BY <2>2, <2>3, <2>4, <2>5
<1> QED BY <1>1

(* t has the blocks of an inode, at[i] is the place of the i-th.           *)
AreBlocks(inode, index, t, at) ==
  /\ t \in Seq(Block) /\ at \in [1 .. Len(t) -> Place]
  /\ \A i \in 1 .. Len(t) : t[i] = BlockAt(inode, index, at[i])
  /\ \A i, j \in 1 .. Len(t) : at[i] = at[j] => i = j
  /\ \A p \in Place : BlockAt(inode, index, p) # 0 => \E i \in 1 .. Len(t) : at[i] = p

LEMMA BlocksOfIs ==
  ASSUME NEW inode, HasBlocks(inode), NEW index, IsIndex(index)
  PROVE  \E at : AreBlocks(inode, index, BlocksOf(inode, index), at)
<1>1. PICK m \in Nat : m = Direct + PerIndex + 1
  BY Sizes
<1>2. Place = 0 .. m - 1
  BY <1>1, Sizes DEF Place
<1>3. PICK s \in Seq(Pointer) : /\ s = [i \in 1 .. Direct + PerIndex + 1 |-> BlockAt(inode, index, i - 1)]
                                /\ Len(s) = m /\ \A i \in 1 .. m : s[i] = BlockAt(inode, index, i - 1)
  <2>1. \A i \in 1 .. m : i - 1 \in Place
    BY <1>2
  <2>2. PICK s \in [1 .. m -> Pointer] : s = [i \in 1 .. m |-> BlockAt(inode, index, i - 1)]
    <3>1. [i \in 1 .. m |-> BlockAt(inode, index, i - 1)] \in [1 .. m -> Pointer]
      BY <2>1, BlockAtTyped
    <3> QED BY <3>1
  <2>3. s \in Seq(Pointer) /\ Len(s) = m
    OBVIOUS
  <2> QED BY <1>1, <2>2, <2>3
<1>4. BlocksOf(inode, index) = NonZero(s)
  BY <1>3 DEF BlocksOf
<1>5. PICK t, a : t = NonZero(s) /\ IsSifted(s, m, t, a)
  BY <1>3, NonZeroIs
<1>6. t \in Seq(Block) /\ a \in [1 .. Len(t) -> 1 .. m]
  BY <1>5 DEF IsSifted
<1> DEFINE at == [i \in 1 .. Len(t) |-> a[i] - 1]
<1>7. at \in [1 .. Len(t) -> Place] /\ \A i \in 1 .. Len(t) : at[i] = a[i] - 1 /\ a[i] \in 1 .. m
  BY <1>2, <1>6
<1> HIDE DEF at
<1>8. ASSUME NEW i \in 1 .. Len(t)
      PROVE  t[i] = BlockAt(inode, index, at[i])
  <2>1. t[i] = s[a[i]]
    BY <1>5 DEF IsSifted
  <2>2. a[i] \in 1 .. m /\ at[i] = a[i] - 1
    BY <1>7
  <2>3. s[a[i]] = BlockAt(inode, index, a[i] - 1)
    BY <1>3, <2>2
  <2> QED BY <2>1, <2>2, <2>3
<1>9. ASSUME NEW i \in 1 .. Len(t), NEW j \in 1 .. Len(t), at[i] = at[j]
      PROVE  i = j
  <2>1. a[i] = a[j]
    BY <1>7, <1>9
  <2> QED BY <1>5, <2>1, Zenon DEF IsSifted
<1>10. ASSUME NEW p \in Place, BlockAt(inode, index, p) # 0
       PROVE  \E i \in 1 .. Len(t) : at[i] = p
  <2>1. p + 1 \in 1 .. m /\ (p + 1) - 1 = p
    BY <1>2
  <2>2. s[p + 1] # 0
    BY <1>3, <1>10, <2>1
  <2>3. PICK i \in 1 .. Len(t) : a[i] = p + 1
    BY <1>5, <2>1, <2>2 DEF IsSifted
  <2> QED BY <1>7, <2>1, <2>3
<1>11. AreBlocks(inode, index, t, at)
  BY <1>6, <1>7, <1>8, <1>9, <1>10 DEF AreBlocks
<1> QED BY <1>4, <1>5, <1>11

LEMMA CachedBlocks ==
  /\ \A c \in Cached : HasBlocks(c)
  /\ \A c \in Saved : HasBlocks(c)
  /\ \A d \in Image : IsIndex(d.index) /\ \A n \in Inode : d.table[n] \in Saved
BY DEF Cached, Saved, Image, HasBlocks, IsIndex

LEMMA EmptyTyped ==
  EmptyInode.direct \in [0 .. Direct - 1 -> Pointer] /\ \A i \in 0 .. Direct - 1 : EmptyInode.direct[i] = 0
BY DEF EmptyInode, Pointer

LEMMA TruncatedIs ==
  ASSUME disk \in Image, NEW f \in FileSystem, NEW n \in Inode, f.node[n] # NoNode
  PROVE  \E node \in Cached :
           /\ IsNode(f, Truncated(f, n), n, node)
           /\ node.links = f.node[n].links /\ node.empty = f.node[n].empty /\ node.opens = f.node[n].opens
           /\ node.direct = EmptyInode.direct /\ node.index = 0
           /\ node.spare = Reverse(BlocksOf(f.node[n], On(f).index)) \o f.node[n].spare
<1>1. PICK c \in Cached : c = f.node[n]
  BY CachedIs
<1>2. PICK index : index = On(f).index /\ IsIndex(index)
  BY OnImage, CachedBlocks
<1>3. PICK t \in Seq(Block) : t = BlocksOf(c, index)
  <2>1. PICK at : AreBlocks(c, index, BlocksOf(c, index), at)
    BY <1>2, CachedBlocks, BlocksOfIs
  <2> QED BY <2>1 DEF AreBlocks
<1>4. Reverse(t) \in Seq(Block)
  <2>1. PICK m \in Nat : m = Len(t)
    OBVIOUS
  <2>2. \A i \in 1 .. m : (m - i) + 1 \in 1 .. m
    OBVIOUS
  <2>3. [i \in 1 .. m |-> t[(m - i) + 1]] \in [1 .. m -> Block]
    BY <2>1, <2>2
  <2>4. [i \in 1 .. m |-> t[(m - i) + 1]] \in Seq(Block)
    BY <2>3
  <2> QED BY <2>1, <2>4 DEF Reverse
<1>5. PICK s \in Seq(Block) : s = Reverse(t) \o c.spare
  <2>1. PICK r \in Seq(Block), q \in Seq(Block) : r = Reverse(t) /\ q = c.spare
    BY <1>4 DEF Cached
  <2>2. r \o q \in Seq(Block)
    OBVIOUS
  <2> QED BY <2>1, <2>2
<1>6. PICK node \in Cached : node = [c EXCEPT !.spare = s, !.direct = EmptyInode.direct, !.index = 0]
  <2>1. 0 \in Pointer
    BY DEF Pointer
  <2>2. [c EXCEPT !.spare = s, !.direct = EmptyInode.direct, !.index = 0] \in Cached
    BY <2>1, EmptyTyped DEF Cached
  <2> QED BY <2>2
<1>7. Truncated(f, n) = [f EXCEPT !.node[n] = node]
  <2>1. PICK dir : dir = EmptyInode.direct
    OBVIOUS
  <2>2. Truncated(f, n) = [f EXCEPT !.node[n].spare = s, !.node[n].direct = dir, !.node[n].index = 0]
    BY <1>1, <1>2, <1>3, <1>5, <2>1 DEF Truncated
  <2>3. node = [c EXCEPT !.spare = s, !.direct = dir, !.index = 0]
    BY <1>6, <2>1
  <2> QED BY <1>1, <2>2, <2>3 DEF FileSystem
<1>8. IsNode(f, Truncated(f, n), n, node)
  BY <1>7, NodeReplaced
<1>9. /\ node.links = c.links /\ node.empty = c.empty /\ node.opens = c.opens
      /\ node.direct = EmptyInode.direct /\ node.index = 0 /\ node.spare = s
  BY <1>6, EmptyTyped DEF Cached
<1> QED BY <1>1, <1>2, <1>3, <1>5, <1>8, <1>9

-----------------------------------------------------------------------------
(* Names.  What is true of every image: the inodes of the file system have *)
(* no name, and the inode of a name is in use or lost.                     *)
NamesGood(d) ==
  /\ FixedInodes \subseteq d.inodes
  /\ \A name \in Names : /\ d.names[name] \notin FixedInodes
                         /\ d.names[name] # 0 => d.names[name] \in d.inodes \cup lost
NamesImages == {d \in Image : NamesGood(d)}

(* The names and the open files of an inode, and how many it says it has.  *)
NamesHeld(f, n) == Cardinality(NamesOf(On(f), n)) + (IF f.node[n] = NoNode THEN 0 ELSE f.node[n].opens)
LinksOf(f, n) == IF f.node[n] = NoNode THEN On(f).table[n].links ELSE f.node[n].links
InUse(f, n) == f.node[n] # NoNode => n \in f.inodes \ FixedInodes

(* An inode has no more names and open files than links, but that n may    *)
(* have k more, and may be in the cache when it is free.                   *)
NamesKept(f, n, k) ==
  /\ f \in FileSystem /\ f.images \in Seq(NamesImages) /\ On(f) \in NamesImages
  /\ On(f).inodes = f.inodes
  /\ \A m \in Inode \ {n} : InUse(f, m)
  /\ \A m \in Inode \ lost : NamesHeld(f, m) <= LinksOf(f, m) + (IF m = n THEN k ELSE 0)

LEMMA NamesCounted ==
  ASSUME NEW d, NEW n
  PROVE  /\ IsFiniteSet(NamesOf(d, n)) /\ Cardinality(NamesOf(d, n)) \in Nat
         /\ Cardinality(NamesOf(d, n)) <= 0 => NamesOf(d, n) = {}
<1>1. IsFiniteSet(Names) /\ NamesOf(d, n) \subseteq Names
  BY Ext2Assumption DEF NamesOf
<1>2. IsFiniteSet(NamesOf(d, n))
  BY <1>1, FS_Subset
<1> QED BY <1>2, FS_CardinalityType, FS_EmptySet

LEMMA HeldTyped ==
  ASSUME disk \in Image, NEW f \in FileSystem, NEW n \in Inode
  PROVE  NamesHeld(f, n) \in Nat /\ LinksOf(f, n) \in Int
<1>1. PICK saved \in Saved : saved = On(f).table[n]
  BY OnImage DEF Image
<1>2. f.node[n] # NoNode => f.node[n] \in Cached
  BY CachedIs
<1>3. f.node[n] # NoNode => f.node[n].opens \in Nat /\ f.node[n].links \in Int
  BY <1>2 DEF Cached
<1>4. saved.links \in Int
  BY DEF Saved
<1> QED BY <1>1, <1>3, <1>4, NamesCounted DEF NamesHeld, LinksOf

LEMMA NamesCountFree == CountFree(NamesImages)
<1>1. ASSUME NEW d \in NamesImages, NEW c \in Counts
      PROVE  [d EXCEPT !.super = c] \in NamesImages
  <2>1. PICK e : e = [d EXCEPT !.super = c]
    OBVIOUS
  <2>2. e \in Image /\ e.inodes = d.inodes /\ e.names = d.names
    BY <2>1 DEF Image, NamesImages
  <2> QED BY <2>1, <2>2 DEF NamesImages, NamesGood
<1>2. ASSUME NEW d \in NamesImages, NEW c \in [Group -> Counts]
      PROVE  [d EXCEPT !.groups = c] \in NamesImages
  <2>1. PICK e : e = [d EXCEPT !.groups = c]
    OBVIOUS
  <2>2. e \in Image /\ e.inodes = d.inodes /\ e.names = d.names
    BY <2>1 DEF Image, NamesImages
  <2> QED BY <2>1, <2>2 DEF NamesImages, NamesGood
<1> QED BY <1>1, <1>2 DEF CountFree, NamesImages

LEMMA NamesInMemory ==
  ASSUME disk \in Image, NEW f, NEW n \in Inode, NEW k \in Int, NamesKept(f, n, k), NEW g, Memory(f, g, n), NEW j \in Int,
         f.node[n] # NoNode, g.node[n] # NoNode,
         g.node[n].opens - g.node[n].links = f.node[n].opens - f.node[n].links + j
  PROVE  NamesKept(g, n, k + j)
<1>1. On(g) = On(f) /\ g.inodes = f.inodes /\ g \in FileSystem /\ f \in FileSystem /\ g.images = f.images
  BY OnSame DEF Memory, NamesKept
<1>2. ASSUME NEW m \in Inode \ {n}
      PROVE  /\ InUse(g, m)
             /\ NamesHeld(g, m) = NamesHeld(f, m) /\ LinksOf(g, m) = LinksOf(f, m)
  <2>1. g.node[m] = f.node[m]
    BY DEF Memory
  <2>2. InUse(f, m)
    BY DEF NamesKept
  <2> QED BY <2>1, <2>2, <1>1 DEF InUse, NamesHeld, LinksOf
<1>3. ASSUME NEW m \in Inode \ lost
      PROVE  NamesHeld(g, m) <= LinksOf(g, m) + (IF m = n THEN k + j ELSE 0)
  <2>1. NamesHeld(f, m) <= LinksOf(f, m) + (IF m = n THEN k ELSE 0)
    BY DEF NamesKept
  <2>2. CASE m # n
    BY <2>1, <2>2, <1>2
  <2>3. CASE m = n
    <3>1. f.node[n] \in Cached /\ g.node[n] \in Cached
      BY <1>1, CachedIs
    <3>2. f.node[n].opens \in Int /\ f.node[n].links \in Int /\ g.node[n].opens \in Int /\ g.node[n].links \in Int
      BY <3>1 DEF Cached
    <3>3. PICK c \in Nat : c = Cardinality(NamesOf(On(f), n))
      BY NamesCounted
    <3>4. NamesHeld(f, n) = c + f.node[n].opens /\ NamesHeld(g, n) = c + g.node[n].opens
      BY <1>1, <3>3 DEF NamesHeld
    <3>5. LinksOf(f, n) = f.node[n].links /\ LinksOf(g, n) = g.node[n].links
      BY DEF LinksOf
    <3> QED BY <2>1, <2>3, <3>2, <3>4, <3>5
  <2> QED BY <2>2, <2>3
<1> QED BY <1>1, <1>2, <1>3 DEF NamesKept

LEMMA SeqIncluded ==
  ASSUME NEW P, NEW Q, P \subseteq Q, NEW s \in Seq(P)
  PROVE  s \in Seq(Q)
OBVIOUS

(* Writes that keep the inodes in use and the names, and the links in the  *)
(* table of the inodes that are not in the cache.                          *)
LEMMA NamesWritten ==
  ASSUME disk \in Image, NEW f, NEW n, NEW k, NamesKept(f, n, k), NEW g, NEW image, Adds(f, g, image, NamesImages),
         image.inodes = f.inodes, image.names = On(f).names,
         \A m \in Inode : f.node[m] = NoNode => image.table[m].links = On(f).table[m].links
  PROVE  NamesKept(g, n, k)
<1>1. /\ g \in FileSystem /\ g.inodes = f.inodes /\ g.node = f.node
      /\ On(g) = image /\ image \in NamesImages
  BY DEF Adds
<1>2. g.images \in Seq(NamesImages)
  <2>1. PICK more \in Seq(NamesImages) : g.images = f.images \o more
    BY DEF Adds
  <2>2. PICK s \in Seq(NamesImages) : s = f.images
    BY DEF NamesKept
  <2>3. s \o more \in Seq(NamesImages)
    OBVIOUS
  <2> QED BY <2>1, <2>2, <2>3
<1>3. \A m \in Inode : NamesOf(On(g), m) = NamesOf(On(f), m)
  BY <1>1 DEF NamesOf
<1>4. \A m \in Inode : NamesHeld(g, m) = NamesHeld(f, m) /\ LinksOf(g, m) = LinksOf(f, m)
  BY <1>1, <1>3 DEF NamesHeld, LinksOf
<1>5. \A m \in Inode : InUse(f, m) => InUse(g, m)
  BY <1>1 DEF InUse
<1> QED BY <1>1, <1>2, <1>4, <1>5 DEF NamesKept

(* The inode n gets one more name, or one less.                            *)
NameSet(f, name, to) == Write(f, [On(f) EXCEPT !.names[name] = to])
Renames(f, n, name, to, j) ==
  \/ to = n /\ On(f).names[name] = 0 /\ j = 1 /\ n \in f.inodes \ FixedInodes
  \/ to = 0 /\ On(f).names[name] = n /\ j = -1

LEMMA NameWritten ==
  ASSUME disk \in Image, NEW f, NEW n \in Inode, NEW k \in Int, NamesKept(f, n, k), NEW name \in Names,
         NEW to, NEW j, Renames(f, n, name, to, j), NEW g, g = NameSet(f, name, to)
  PROVE  NamesKept(g, n, k + j) /\ g.node = f.node /\ g.inodes = f.inodes /\ On(g) = [On(f) EXCEPT !.names[name] = to]
<1>1. PICK d \in Image : d = On(f) /\ NamesGood(d) /\ d.inodes = f.inodes
  BY DEF NamesKept, NamesImages
<1>2. f \in FileSystem /\ 0 \notin Inode /\ j \in Int /\ to \in Inode \cup {0}
  BY Sizes DEF NamesKept, Renames
<1>3. PICK e : e = [d EXCEPT !.names[name] = to]
  OBVIOUS
<1>4. d.names \in [Names -> Inode \cup {0}]
  BY DEF Image
<1>5. /\ e \in Image /\ e.inodes = d.inodes /\ e.table = d.table /\ e.names[name] = to
      /\ \A other \in Names \ {name} : e.names[other] = d.names[other]
  <2>1. PICK names \in [Names -> Inode \cup {0}] : names = [d.names EXCEPT ![name] = to]
    BY <1>2, <1>4
  <2>2. e = [d EXCEPT !.names = names]
    BY <1>3, <2>1
  <2>3. names[name] = to /\ \A other \in Names \ {name} : names[other] = d.names[other]
    BY <2>1, <1>4
  <2>4. e \in Image /\ e.inodes = d.inodes /\ e.table = d.table /\ e.names = names
    BY <2>2 DEF Image
  <2> QED BY <2>3, <2>4
<1>6. e \in NamesImages
  <2>1. ASSUME NEW other \in Names
        PROVE  /\ e.names[other] \notin FixedInodes
               /\ e.names[other] # 0 => e.names[other] \in e.inodes \cup lost
    <3>1. CASE other = name
      <4>1. 0 \notin FixedInodes
        BY <1>2, Ext2Assumption
      <4> QED BY <3>1, <4>1, <1>1, <1>5 DEF Renames
    <3>2. CASE other # name
      BY <3>2, <1>1, <1>5 DEF NamesGood
    <3> QED BY <3>1, <3>2
  <2> QED BY <2>1, <1>1, <1>5 DEF NamesImages, NamesGood
<1>7. Adds(f, g, e, NamesImages)
  <2>1. NamesImages \subseteq Image
    BY DEF NamesImages
  <2>2. g = Write(f, e)
    BY <1>1, <1>3 DEF NameSet
  <2> QED BY <1>2, <1>6, <2>1, <2>2, WriteAdds
<1>8. /\ g \in FileSystem /\ g.inodes = f.inodes /\ g.node = f.node /\ On(g) = e
  BY <1>7 DEF Adds
<1>9. g.images \in Seq(NamesImages)
  <2>1. PICK more \in Seq(NamesImages) : g.images = f.images \o more
    BY <1>7 DEF Adds
  <2>2. PICK s \in Seq(NamesImages) : s = f.images
    BY DEF NamesKept
  <2>3. s \o more \in Seq(NamesImages)
    OBVIOUS
  <2> QED BY <2>1, <2>2, <2>3
<1>10. ASSUME NEW m \in Inode \ {n}
       PROVE  NamesOf(e, m) = NamesOf(d, m)
  <2>1. d.names[name] # m /\ e.names[name] # m
    BY <1>1, <1>2, <1>5 DEF Renames
  <2> QED BY <2>1, <1>5 DEF NamesOf
<1>11. Cardinality(NamesOf(e, n)) = Cardinality(NamesOf(d, n)) + j
  <2>1. PICK S, T : S = NamesOf(d, n) /\ T = NamesOf(e, n)
    OBVIOUS
  <2>2. IsFiniteSet(S) /\ Cardinality(S) \in Nat /\ IsFiniteSet(T) /\ Cardinality(T) \in Nat
    BY <2>1, NamesCounted
  <2>3. CASE to = n /\ d.names[name] = 0 /\ j = 1
    <3>1. name \notin S /\ T = S \cup {name}
      BY <2>1, <2>3, <1>2, <1>5 DEF NamesOf
    <3>2. Cardinality(T) = Cardinality(S) + 1
      BY <2>2, <3>1, FS_AddElement
    <3> QED BY <2>1, <2>3, <3>2
  <2>4. CASE to = 0 /\ d.names[name] = n /\ j = -1
    <3>1. name \notin T /\ S = T \cup {name}
      BY <2>1, <2>4, <1>2, <1>5 DEF NamesOf
    <3>2. Cardinality(S) = Cardinality(T) + 1
      BY <2>2, <3>1, FS_AddElement
    <3> QED BY <2>1, <2>2, <2>4, <3>2
  <2> QED BY <1>1, <2>3, <2>4 DEF Renames
<1>12. ASSUME NEW m \in Inode \ lost
       PROVE  NamesHeld(g, m) <= LinksOf(g, m) + (IF m = n THEN k + j ELSE 0)
  <2>1. NamesHeld(f, m) <= LinksOf(f, m) + (IF m = n THEN k ELSE 0)
    BY DEF NamesKept
  <2>2. LinksOf(g, m) = LinksOf(f, m)
    BY <1>1, <1>5, <1>8 DEF LinksOf
  <2>3. CASE m # n
    <3>1. NamesHeld(g, m) = NamesHeld(f, m)
      BY <2>3, <1>1, <1>8, <1>10 DEF NamesHeld
    <3> QED BY <2>1, <2>2, <2>3, <3>1
  <2>4. CASE m = n
    <3>1. PICK c \in Nat : c = Cardinality(NamesOf(d, n))
      BY NamesCounted
    <3>3. PICK o \in Int : o = IF f.node[n] = NoNode THEN 0 ELSE f.node[n].opens
      BY <1>2, CachedIs DEF Cached
    <3>2. NamesHeld(f, n) = c + o /\ NamesHeld(g, n) = (c + j) + o
      BY <3>1, <3>3, <1>1, <1>8, <1>11 DEF NamesHeld
    <3>4. LinksOf(f, n) \in Int
      BY <1>2, HeldTyped
    <3> QED BY <2>1, <2>2, <2>4, <3>2, <3>3, <3>4, <1>2
  <2> QED BY <2>3, <2>4
<1>13. \A m \in Inode : InUse(f, m) => InUse(g, m)
  BY <1>8 DEF InUse
<1>14. NamesKept(g, n, k + j)
  BY <1>1, <1>5, <1>6, <1>8, <1>9, <1>12, <1>13 DEF NamesKept
<1> QED BY <1>1, <1>3, <1>8, <1>14

LEMMA NameAdded ==
  ASSUME disk \in Image, NEW f, NEW n \in f.inodes \ FixedInodes, NamesKept(f, n, 0), NEW name \in Names, On(f).names[name] = 0,
         NEW g, g = NameSet(f, name, n)
  PROVE  NamesKept(g, n, 1) /\ g.node = f.node /\ g.inodes = f.inodes /\ On(g) = [On(f) EXCEPT !.names[name] = n]
<1>1. n \in Inode /\ 0 \in Int
  BY DEF NamesKept, FileSystem
<1>2. Renames(f, n, name, n, 1)
  BY DEF Renames
<1>3. NamesKept(g, n, 0 + 1) /\ g.node = f.node /\ g.inodes = f.inodes /\ On(g) = [On(f) EXCEPT !.names[name] = n]
  BY <1>1, <1>2, NameWritten
<1> QED BY <1>3

LEMMA NameRemoved ==
  ASSUME disk \in Image, NEW f, NEW n \in Inode, NamesKept(f, n, 0), NEW name \in Names, On(f).names[name] = n,
         NEW g, g = NameSet(f, name, 0)
  PROVE  NamesKept(g, n, -1) /\ g.node = f.node /\ g.inodes = f.inodes
<1>1. 0 \in Int /\ 0 + (-1) = -1
  OBVIOUS
<1>2. Renames(f, n, name, 0, -1)
  BY DEF Renames
<1>3. NamesKept(g, n, 0 + (-1)) /\ g.node = f.node /\ g.inodes = f.inodes
  BY <1>1, <1>2, NameWritten
<1> QED BY <1>1, <1>3

LEMMA NamesOfOne ==
  ASSUME NEW f, NEW n \in Inode
  PROVE  /\ NamesKept(f, 0, 0) => NamesKept(f, n, 0) /\ InUse(f, n)
         /\ NamesKept(f, n, 0) /\ InUse(f, n) => NamesKept(f, 0, 0)
<1>1. 0 \notin Inode
  BY Sizes
<1> QED BY <1>1 DEF NamesKept

LEMMA NamesBlocksSaved ==
  ASSUME disk \in Image, NEW f, NEW n, NEW k, NamesKept(f, n, k)
  PROVE  LET g == SaveSuperblock(FlushBlocks(f))
         IN NamesKept(g, n, k) /\ g.node = f.node /\ g.inodes = f.inodes /\ g.blocks = f.blocks
<1>1. PICK d \in Image : d = On(f) /\ NamesGood(d) /\ d.inodes = f.inodes
  BY DEF NamesKept, NamesImages
<1>2. f \in FileSystem
  BY DEF NamesKept
<1>3. ASSUME NEW g \in 0 .. Groups
      PROVE  PartBlocks(f, g) \in NamesImages
  <2>1. PICK e \in Image : e = PartBlocks(f, g)
    BY <1>2, PartTyped
  <2>2. e.inodes = d.inodes /\ e.names = d.names
    BY <2>1, <1>1 DEF PartBlocks, Image
  <2> QED BY <1>1, <2>1, <2>2 DEF NamesImages, NamesGood
<1>4. PICK image \in NamesImages : Adds(f, SaveSuperblock(FlushBlocks(f)), image, NamesImages) /\ WithBlocks(f, image)
  BY <1>2, <1>3, NamesCountFree, BlocksSaved
<1>5. image.inodes = f.inodes /\ image.names = d.names /\ image.table = d.table
  BY <1>1, <1>4 DEF WithBlocks
<1>6. NamesKept(SaveSuperblock(FlushBlocks(f)), n, k)
  BY <1>1, <1>4, <1>5, NamesWritten
<1> QED BY <1>4, <1>6 DEF Adds

LEMMA NamesSupplied ==
  ASSUME disk \in Image, NEW f, NEW n \in Inode, NEW k \in Int, NamesKept(f, n, k), f.node[n] # NoNode, ~NoSpace(f, n)
  PROVE  LET g == Supplied(f, n)
         IN NamesKept(g, n, k) /\ g.node[n] # NoNode /\ g.node[n].spare # <<>> /\ g.inodes = f.inodes
<1>1. CASE f.node[n].spare # <<>>
  BY <1>1 DEF Supplied
<1>2. CASE f.node[n].spare = <<>>
  <2>1. f \in FileSystem /\ Units(f) # {}
    BY <1>2 DEF NamesKept, NoSpace
  <2>2. PICK u \in Units(f) : /\ AllocateBlocks(f, n) = SaveSuperblock(FlushBlocks(Allocated(f, n, u)))
                              /\ IsAllocated(f, Allocated(f, n, u), n, u)
    BY <2>1, AllocateBlocksIs
  <2>3. PICK g : g = Allocated(f, n, u)
    OBVIOUS
  <2>4. PICK c \in Cached : c = f.node[n]
    BY <2>1, CachedIs
  <2>5. InOrder(u) # <<>>
    <3>1. PICK lo, m, h : IsUnit(u, lo, m, h)
      BY <2>1, UnitIs
    <3> QED BY <3>1, InOrderIs
  <2>6. /\ Memory(f, g, n) /\ g.node[n].spare = InOrder(u) /\ g.node[n] # NoNode
        /\ g.node[n].opens = c.opens /\ g.node[n].links = c.links
    <3>1. IsAllocated(f, g, n, u)
      BY <2>2, <2>3
    <3>2. Memory(f, g, n)
      BY <3>1 DEF IsAllocated, NodeSet, Memory
    <3>3. PICK s : s = InOrder(u)
      OBVIOUS
    <3>4. g.node[n] = [c EXCEPT !.spare = s] /\ s \in Seq(Block)
      <4>1. PICK lo, m, h : IsUnit(u, lo, m, h)
        BY <2>1, UnitIs
      <4>2. InOrder(u) \in Seq(Block)
        BY <4>1, InOrderIs
      <4> QED BY <3>1, <3>3, <4>2, <2>4 DEF IsAllocated, NodeSet
    <3>5. [c EXCEPT !.spare = s] \in Cached
      BY <3>4, CachedChanges
    <3>6. g.node[n].spare = s /\ g.node[n].opens = c.opens /\ g.node[n].links = c.links
      BY <3>4 DEF Cached
    <3>7. g.node[n] # NoNode
      BY <3>4, <3>5, NotNoNode
    <3> QED BY <3>2, <3>3, <3>6, <3>7
  <2>7. NamesKept(g, n, k)
    <3>1. c.opens \in Int /\ c.links \in Int /\ c.opens - c.links = c.opens - c.links + 0
      BY DEF Cached
    <3>2. NamesKept(g, n, k + 0)
      BY <2>4, <2>6, <3>1, NamesInMemory
    <3> QED BY <3>2
  <2>8. PICK h : h = SaveSuperblock(FlushBlocks(g))
    OBVIOUS
  <2>9. NamesKept(h, n, k) /\ h.node = g.node /\ h.inodes = f.inodes
    BY <2>6, <2>7, <2>8, NamesBlocksSaved DEF Memory
  <2>10. h = Supplied(f, n)
    BY <1>2, <2>2, <2>3, <2>8 DEF Supplied
  <2> QED BY <2>5, <2>6, <2>9, <2>10
<1> QED BY <1>1, <1>2

LEMMA NamesFreeBlocks ==
  ASSUME disk \in Image, NEW f, NEW n \in Inode, NEW k \in Int, NamesKept(f, n, k), f.node[n] # NoNode, NEW s \in Seq(Block)
  PROVE  LET g == FreeBlocks(f, s)
         IN NamesKept(g, n, k) /\ g.node = f.node /\ g.inodes = f.inodes
<1>1. CASE s = <<>>
  BY <1>1, FreeBlocksIs
<1>2. CASE s # <<>>
  <2>1. f \in FileSystem
    BY DEF NamesKept
  <2>2. PICK g : g = Released(f, s)
    OBVIOUS
  <2>3. g \in FileSystem /\ g.inodes = f.inodes /\ g.images = f.images /\ g.node = f.node
    BY <2>1, <2>2, ReleasedTyped DEF IsFreed
  <2>4. Memory(f, g, n)
    BY <2>3 DEF Memory
  <2>5. NamesKept(g, n, k)
    <3>1. f.node[n] \in Cached
      BY <2>1, CachedIs
    <3>2. f.node[n].opens \in Int /\ f.node[n].links \in Int
      BY <3>1 DEF Cached
    <3>4. g.node[n].opens - g.node[n].links = f.node[n].opens - f.node[n].links + 0 /\ 0 \in Int /\ g.node[n] # NoNode
      BY <2>3, <3>2
    <3>3. NamesKept(g, n, k + 0)
      BY <2>4, <3>4, NamesInMemory
    <3> QED BY <3>3
  <2>6. FreeBlocks(f, s) = SaveSuperblock(FlushBlocks(g))
    BY <1>2, <2>2, FreeBlocksIs
  <2> QED BY <2>3, <2>5, <2>6, NamesBlocksSaved
<1> QED BY <1>1, <1>2

LEMMA NamesSaveInode ==
  ASSUME disk \in Image, NEW f, NEW n \in Inode, NEW k, NamesKept(f, n, k), f.node[n] # NoNode
  PROVE  LET g == SaveInode(f, n)
         IN NamesKept(g, n, k) /\ g.node = f.node /\ g.inodes = f.inodes /\ On(g).table[n].links = f.node[n].links
<1>1. PICK d \in Image : d = On(f) /\ NamesGood(d) /\ d.inodes = f.inodes
  BY DEF NamesKept, NamesImages
<1>2. f \in FileSystem
  BY DEF NamesKept
<1>3. PICK node \in Cached : node = f.node[n]
  BY <1>2, CachedIs
<1>4. PICK saved \in Saved : saved = [links |-> node.links, empty |-> node.empty, direct |-> node.direct, index |-> node.index]
  <2>1. [links |-> node.links, empty |-> node.empty, direct |-> node.direct, index |-> node.index] \in Saved
    BY DEF Saved, Cached
  <2> QED BY <2>1
<1>5. PICK e : e = [d EXCEPT !.table[n] = saved]
  OBVIOUS
<1>6. /\ e \in Image /\ e.inodes = d.inodes /\ e.names = d.names /\ e.table[n] = saved
      /\ \A m \in Inode \ {n} : e.table[m] = d.table[m]
  <2>1. d.table \in [Inode -> Saved]
    BY DEF Image
  <2>2. PICK table \in [Inode -> Saved] : table = [d.table EXCEPT ![n] = saved]
    BY <2>1
  <2>3. e = [d EXCEPT !.table = table]
    BY <1>5, <2>2
  <2>4. table[n] = saved /\ \A m \in Inode \ {n} : table[m] = d.table[m]
    BY <2>1, <2>2
  <2>5. e \in Image /\ e.inodes = d.inodes /\ e.names = d.names /\ e.table = table
    BY <2>3 DEF Image
  <2> QED BY <2>4, <2>5
<1>7. e \in NamesImages
  BY <1>1, <1>6 DEF NamesImages, NamesGood
<1>8. SaveInode(f, n) = Write(f, e)
  BY <1>1, <1>3, <1>4, <1>5 DEF SaveInode
<1>9. Adds(f, SaveInode(f, n), e, NamesImages)
  <2>1. NamesImages \subseteq Image
    BY DEF NamesImages
  <2> QED BY <1>2, <1>7, <1>8, <2>1, WriteAdds
<1>10. NamesKept(SaveInode(f, n), n, k)
  <2>1. \A m \in Inode : f.node[m] = NoNode => e.table[m].links = d.table[m].links
    BY <1>6
  <2> QED BY <1>1, <1>6, <1>9, <2>1, NamesWritten
<1>11. On(SaveInode(f, n)) = e /\ saved.links = node.links
  BY <1>4, <1>9 DEF Adds
<1> QED BY <1>3, <1>6, <1>9, <1>10, <1>11 DEF Adds

LEMMA NamesInodesSaved ==
  ASSUME disk \in Image, NEW f, NEW n \in Inode \ FixedInodes, NEW k, NamesKept(f, n, k), NEW I, NEW more, NEW g, IsInodes(f, g, n, I, more),
         I = f.inodes \cup {n} \/ (I = f.inodes \ {n} /\ (n \notin lost => NamesOf(On(f), n) = {}))
  PROVE  LET h == SaveSuperblock(FlushInodes(g))
         IN NamesKept(h, n, k) /\ h.node = f.node /\ h.inodes = I /\ On(h).names = On(f).names
<1>1. PICK d \in Image : d = On(f) /\ NamesGood(d) /\ d.inodes = f.inodes
  BY DEF NamesKept, NamesImages
<1>2. /\ f \in FileSystem /\ g \in FileSystem /\ On(g) = d /\ g.inodes = I /\ g.node = f.node
      /\ g.images = f.images
  BY <1>1, OnSame DEF NamesKept, IsInodes
<1>3. ASSUME NEW name \in Names
      PROVE  /\ d.names[name] # 0 => d.names[name] \in Inode /\ (d.names[name] \in (I \cap f.inodes) \cup lost)
             /\ d.names[name] \notin FixedInodes
  <2>1. d.names[name] \in Inode \cup {0} /\ d.names[name] \notin FixedInodes
    BY <1>1 DEF Image, NamesGood
  <2>2. d.names[name] # 0 => d.names[name] \in f.inodes \cup lost
    BY <1>1 DEF NamesGood
  <2>3. I = f.inodes \ {n} => (d.names[name] = n => n \in lost)
    BY <1>1 DEF NamesOf
  <2> QED BY <2>1, <2>2, <2>3
<1>4. FixedInodes \subseteq I \cap f.inodes /\ FixedInodes \subseteq Inode
  BY <1>1, Ext2Assumption DEF NamesGood
<1>5. ASSUME NEW p \in 0 .. Groups
      PROVE  PartInodes(g, p) \in NamesImages
  <2>1. PICK e \in Image : e = PartInodes(g, p)
    BY <1>2, PartTyped
  <2>2. e.names = d.names /\ e.inodes = {m \in Inode : m \in (IF GroupOf(m, InodesPerGroup) < p THEN I ELSE f.inodes)}
    BY <2>1, <1>1, <1>2 DEF PartInodes, Image
  <2>3. \A m \in Inode : m \in I \cap f.inodes => m \in e.inodes
    BY <2>2
  <2>4. NamesGood(e)
    BY <1>3, <1>4, <2>2, <2>3 DEF NamesGood
  <2> QED BY <2>1, <2>4 DEF NamesImages
<1>6. PICK h : h = SaveSuperblock(FlushInodes(g))
  OBVIOUS
<1>7. PICK image \in NamesImages : Adds(g, h, image, NamesImages) /\ WithInodes(g, image)
  BY <1>2, <1>5, <1>6, NamesCountFree, InodesSaved
<1>8. /\ h \in FileSystem /\ h.inodes = I /\ h.node = f.node /\ On(h) = image /\ image.inodes = I
      /\ image.names = d.names /\ image.table = d.table
  BY <1>2, <1>7 DEF Adds, WithInodes
<1>9. h.images \in Seq(NamesImages)
  <2>1. PICK added \in Seq(NamesImages) : h.images = f.images \o added
    BY <1>2, <1>7 DEF Adds
  <2>2. PICK s \in Seq(NamesImages) : s = f.images
    BY DEF NamesKept
  <2>3. s \o added \in Seq(NamesImages)
    OBVIOUS
  <2> QED BY <2>1, <2>2, <2>3
<1>10. \A m \in Inode : NamesHeld(h, m) = NamesHeld(f, m) /\ LinksOf(h, m) = LinksOf(f, m)
  BY <1>1, <1>8 DEF NamesHeld, LinksOf, NamesOf
<1>11. \A m \in Inode \ {n} : InUse(f, m) => InUse(h, m)
  BY <1>8 DEF InUse
<1>12. NamesKept(h, n, k)
  BY <1>8, <1>9, <1>10, <1>11 DEF NamesKept
<1> QED BY <1>1, <1>6, <1>8, <1>12

(* A node of n in the cache that differs by j in its links less its files. *)
LEMMA NamesIsNode ==
  ASSUME disk \in Image, NEW f, NEW n \in Inode, NEW k \in Int, NamesKept(f, n, k), NEW g, NEW node \in Cached, IsNode(f, g, n, node),
         f.node[n] # NoNode, NEW j \in Int, node.opens - node.links = f.node[n].opens - f.node[n].links + j
  PROVE  NamesKept(g, n, k + j) /\ g.node[n] = node /\ g.node[n] # NoNode /\ g.inodes = f.inodes /\ g.images = f.images
<1>1. Memory(f, g, n) /\ g.node[n] = node /\ node # NoNode
  BY NotNoNode DEF IsNode
<1>2. g.node[n] # NoNode /\ g.node[n].opens - g.node[n].links = f.node[n].opens - f.node[n].links + j
  BY <1>1
<1> QED BY <1>1, <1>2, NamesInMemory DEF Memory

LEMMA NamesLoaded ==
  ASSUME disk \in Image, NEW f, NamesKept(f, 0, 0), NEW n \in f.inodes \ FixedInodes
  PROVE  LET g == Loaded(f, n)
         IN /\ NamesKept(g, n, 0) /\ g.node[n] # NoNode /\ InUse(g, n) /\ g.inodes = f.inodes
            /\ On(g) = On(f) /\ g.images = f.images
<1>1. f \in FileSystem /\ n \in Inode /\ NamesKept(f, n, 0) /\ InUse(f, n)
  BY NamesOfOne DEF NamesKept, FileSystem
<1>2. CASE f.node[n] # NoNode
  <2>1. Loaded(f, n) = f
    BY <1>1, <1>2, LoadedIs
  <2> QED BY <1>1, <1>2, <2>1
<1>3. CASE f.node[n] = NoNode
  <2>1. PICK g : g = Loaded(f, n)
    OBVIOUS
  <2>2. PICK node \in Cached : IsNode(f, g, n, node) /\ node.links = On(f).table[n].links /\ node.opens = 0
    BY <1>1, <1>3, <2>1, LoadedIs
  <2>3. /\ g.node[n] = node /\ node # NoNode /\ g.inodes = f.inodes /\ g.images = f.images /\ On(g) = On(f)
        /\ g \in FileSystem /\ \A m \in Inode \ {n} : g.node[m] = f.node[m]
    BY <2>2, NotNoNode, OnSame DEF IsNode, Memory
  <2>4. ASSUME NEW m \in Inode
        PROVE  NamesHeld(g, m) = NamesHeld(f, m) /\ LinksOf(g, m) = LinksOf(f, m)
    <3>1. CASE m = n
      BY <3>1, <1>3, <2>2, <2>3 DEF NamesHeld, LinksOf
    <3>2. CASE m # n
      BY <3>2, <2>3 DEF NamesHeld, LinksOf
    <3> QED BY <3>1, <3>2
  <2>5. \A m \in Inode : InUse(g, m)
    <3>1. \A m \in Inode \ {n} : InUse(f, m)
      BY <1>1 DEF NamesKept
    <3> QED BY <2>3, <3>1 DEF InUse
  <2>6. NamesKept(g, n, 0)
    BY <1>1, <2>3, <2>4, <2>5 DEF NamesKept
  <2> QED BY <1>1, <2>1, <2>3, <2>5, <2>6
<1> QED BY <1>2, <1>3

LEMMA NamesFreeNode ==
  ASSUME Aligned, disk \in Image, NEW f, NEW n \in Inode, NamesKept(f, n, 0),
         f.node[n] # NoNode, InUse(f, n), f.node[n].links = 0
  PROVE  NamesKept(FreeNode(f, n), 0, 0) /\ FreeNode(f, n).node[n] = NoNode
<1>1. f \in FileSystem /\ n \in f.inodes \ FixedInodes
  BY DEF NamesKept, InUse
<1>2. ASSUME NEW g, NamesKept(g, n, 0), g.node[n] # NoNode, g.node[n].links = 0, n \notin lost
      PROVE  NamesOf(On(g), n) = {}
  <2>1. g.node[n] \in Cached
    BY <1>2, CachedIs DEF NamesKept
  <2>2. g.node[n].opens \in Nat
    BY <2>1 DEF Cached
  <2>3. NamesHeld(g, n) <= LinksOf(g, n) + 0
    BY <1>2 DEF NamesKept
  <2>4. PICK c \in Nat : c = Cardinality(NamesOf(On(g), n))
    BY NamesCounted
  <2>5. NamesHeld(g, n) = c + g.node[n].opens /\ LinksOf(g, n) = 0
    BY <1>2, <2>4 DEF NamesHeld, LinksOf
  <2>6. c <= 0
    BY <2>2, <2>3, <2>5
  <2> QED BY <2>4, <2>6, NamesCounted
<1>3. PICK g1 : g1 = InodeReleased(f, n) /\ IsInodes(f, g1, n, f.inodes \ {n}, 1) /\ FreeInode(f, n) = SaveSuperblock(FlushInodes(g1))
  BY <1>1, FreeInodeIs
<1>4. PICK g2 : g2 = FreeInode(f, n)
  OBVIOUS
<1>5. NamesKept(g2, n, 0) /\ g2.node = f.node
  <2>1. n \notin lost => NamesOf(On(f), n) = {}
    BY <1>2
  <2>2. n \in Inode \ FixedInodes
    BY <1>1
  <2> QED BY <1>3, <1>4, <2>1, <2>2, NamesInodesSaved
<1>6. PICK g3 : g3 = Truncated(g2, n)
  OBVIOUS
<1>7. NamesKept(g3, n, 0) /\ g3.node[n] # NoNode /\ g3.node[n].links = 0
  <2>1. g2 \in FileSystem
    BY <1>5 DEF NamesKept
  <2>2. PICK node \in Cached : /\ IsNode(g2, g3, n, node) /\ node.links = g2.node[n].links
                               /\ node.opens = g2.node[n].opens
    BY <1>5, <1>6, <2>1, TruncatedIs
  <2>3. node.links \in Int /\ node.opens \in Int
    BY DEF Cached
  <2>4. node.opens - node.links = g2.node[n].opens - g2.node[n].links + 0
    BY <2>2, <2>3
  <2>5. NamesKept(g3, n, 0 + 0) /\ g3.node[n] = node /\ g3.node[n] # NoNode
    BY <1>5, <2>2, <2>4, NamesIsNode
  <2> QED BY <1>5, <2>2, <2>5
<1>8. PICK s \in Seq(Block) : s = g3.node[n].spare
  <2>1. g3.node[n] \in Cached
    BY <1>7, CachedIs DEF NamesKept
  <2> QED BY <2>1 DEF Cached
<1>9. PICK g4 : g4 = FreeBlocks(g3, s)
  OBVIOUS
<1>10. NamesKept(g4, n, 0) /\ g4.node = g3.node
  BY <1>7, <1>9, NamesFreeBlocks
<1>11. PICK g5 : g5 = SaveInode(g4, n)
  OBVIOUS
<1>12. NamesKept(g5, n, 0) /\ g5.node = g4.node /\ On(g5).table[n].links = 0
  BY <1>7, <1>10, <1>11, NamesSaveInode
<1>13. PICK g6 : g6 = [g5 EXCEPT !.node[n] = NoNode]
  OBVIOUS
<1>14. FreeNode(f, n) = g6
  BY <1>4, <1>6, <1>8, <1>9, <1>11, <1>13 DEF FreeNode
<1>15. IsNode(g5, g6, n, NoNode)
  BY <1>12, <1>13, NodeReplaced DEF NamesKept
<1>16. /\ g6 \in FileSystem /\ g6.inodes = g5.inodes /\ g6.images = g5.images /\ On(g6) = On(g5) /\ g6.node[n] = NoNode
       /\ \A m \in Inode \ {n} : g6.node[m] = g5.node[m]
  BY <1>15, OnSame DEF IsNode, Memory
<1>17. ASSUME NEW m \in Inode \ lost
       PROVE  NamesHeld(g6, m) <= LinksOf(g6, m) + (IF m = 0 THEN 0 ELSE 0)
  <2>1. CASE m # n
    <3>1. NamesHeld(g5, m) <= LinksOf(g5, m) + 0
      BY <1>12, <2>1 DEF NamesKept
    <3>2. NamesHeld(g6, m) = NamesHeld(g5, m) /\ LinksOf(g6, m) = LinksOf(g5, m)
      BY <1>16, <2>1 DEF NamesHeld, LinksOf
    <3> QED BY <3>1, <3>2
  <2>2. CASE m = n
    <3>1. NamesOf(On(g6), n) = {}
      BY <1>2, <1>7, <1>10, <1>12, <1>16, <2>2
    <3>2. NamesHeld(g6, n) = 0 + 0
      BY <3>1, <1>16, FS_EmptySet DEF NamesHeld
    <3>3. LinksOf(g6, n) = 0
      BY <1>12, <1>16 DEF LinksOf
    <3> QED BY <2>2, <3>2, <3>3
  <2> QED BY <2>1, <2>2
<1>18. \A m \in Inode : InUse(g6, m)
  <2>1. \A m \in Inode \ {n} : InUse(g5, m)
    BY <1>12 DEF NamesKept
  <2> QED BY <1>16, <2>1 DEF InUse
<1>19. NamesKept(g6, 0, 0)
  BY <1>12, <1>16, <1>17, <1>18 DEF NamesKept
<1> QED BY <1>14, <1>16, <1>19

LEMMA NamesDecLinkCount ==
  ASSUME Aligned, disk \in Image, NEW f, NEW n \in Inode, NamesKept(f, n, -1), f.node[n] # NoNode, InUse(f, n)
  PROVE  LET g == DecLinkCount(f, n)
         IN NamesKept(g, 0, 0) /\ InUse(g, n)
<1>1. PICK less : less = [f EXCEPT !.node[n].links = @ - 1]
  OBVIOUS
<1>2. PICK c \in Cached : c = f.node[n]
  BY CachedIs DEF NamesKept
<1>3. c.links \in Int /\ c.opens \in Int /\ c.links - 1 \in Int /\ -1 \in Int /\ 1 \in Int
  BY DEF Cached
<1>4. PICK d \in Cached : d = [c EXCEPT !.links = @ - 1]
  <2>1. [c EXCEPT !.links = @ - 1] \in Cached
    BY <1>3, CachedChanges
  <2> QED BY <2>1
<1>5. d.links = c.links - 1 /\ d.opens = c.opens
  BY <1>4 DEF Cached
<1>6. IsNode(f, less, n, d)
  BY <1>1, <1>2, <1>4, LinksChanged DEF NamesKept
<1>7. d.opens - d.links = f.node[n].opens - f.node[n].links + 1
  BY <1>2, <1>3, <1>5
<1>8. NamesKept(less, n, -1 + 1) /\ less.node[n] = d /\ less.node[n] # NoNode /\ less.inodes = f.inodes
  BY <1>3, <1>6, <1>7, NamesIsNode
<1>9. NamesKept(less, n, 0) /\ InUse(less, n)
  BY <1>8 DEF InUse
<1>10. DecLinkCount(f, n) = IF less.node[n].links = 0 THEN FreeNode(less, n) ELSE less
  BY <1>1 DEF DecLinkCount
<1>11. CASE less.node[n].links = 0
  <2>1. NamesKept(FreeNode(less, n), 0, 0) /\ FreeNode(less, n).node[n] = NoNode
    BY <1>8, <1>9, <1>11, NamesFreeNode
  <2> QED BY <1>10, <1>11, <2>1 DEF InUse
<1>12. CASE less.node[n].links # 0
  BY <1>9, <1>10, <1>12, NamesOfOne
<1> QED BY <1>11, <1>12

LEMMA NamesIncLinkCount ==
  ASSUME disk \in Image, NEW f, NEW n \in Inode, NamesKept(f, n, 1), f.node[n] # NoNode, InUse(f, n)
  PROVE  NamesKept(IncLinkCount(f, n), 0, 0)
<1>1. PICK g : g = IncLinkCount(f, n)
  OBVIOUS
<1>2. PICK c \in Cached : c = f.node[n]
  BY CachedIs DEF NamesKept
<1>3. c.links \in Int /\ c.opens \in Int /\ c.links + 1 \in Int /\ -1 \in Int /\ 1 \in Int
  BY DEF Cached
<1>4. PICK d \in Cached : d = [c EXCEPT !.links = @ + 1]
  <2>1. [c EXCEPT !.links = @ + 1] \in Cached
    BY <1>3, CachedChanges
  <2> QED BY <2>1
<1>5. d.links = c.links + 1 /\ d.opens = c.opens
  BY <1>4 DEF Cached
<1>6. IsNode(f, g, n, d)
  BY <1>1, <1>2, <1>4, LinksChanged DEF NamesKept
<1>7. d.opens - d.links = f.node[n].opens - f.node[n].links + (-1)
  BY <1>2, <1>3, <1>5
<1>8. NamesKept(g, n, 1 + (-1)) /\ g.node[n] # NoNode /\ g.inodes = f.inodes
  BY <1>3, <1>6, <1>7, NamesIsNode
<1>9. NamesKept(g, n, 0) /\ InUse(g, n)
  BY <1>8 DEF InUse
<1> QED BY <1>1, <1>9, NamesOfOne

LEMMA NamesIndexWritten ==
  ASSUME disk \in Image, NEW f, NEW n, NEW k, NamesKept(f, n, k), NEW index, IsIndex(index)
  PROVE  LET g == Write(f, [On(f) EXCEPT !.index = index])
         IN NamesKept(g, n, k) /\ g.node = f.node /\ g.inodes = f.inodes /\ On(g).index = index
<1>1. PICK d \in Image : d = On(f) /\ NamesGood(d) /\ d.inodes = f.inodes
  BY DEF NamesKept, NamesImages
<1>2. f \in FileSystem
  BY DEF NamesKept
<1>3. PICK e \in Image : e = [d EXCEPT !.index = index] /\ e.inodes = d.inodes /\ e.names = d.names /\ e.table = d.table /\ e.index = index
  <2>1. PICK e : e = [d EXCEPT !.index = index]
    OBVIOUS
  <2>2. e \in Image /\ e.inodes = d.inodes /\ e.names = d.names /\ e.table = d.table /\ e.index = index
    BY <2>1 DEF Image, IsIndex
  <2> QED BY <2>1, <2>2
<1>4. e \in NamesImages
  BY <1>1, <1>3 DEF NamesImages, NamesGood
<1>5. PICK g : g = Write(f, e)
  OBVIOUS
<1>6. Adds(f, g, e, NamesImages)
  <2>1. NamesImages \subseteq Image
    BY DEF NamesImages
  <2> QED BY <1>2, <1>4, <1>5, <2>1, WriteAdds
<1>7. NamesKept(g, n, k)
  BY <1>1, <1>3, <1>6, NamesWritten
<1>8. g.node = f.node /\ g.inodes = f.inodes /\ On(g) = e
  BY <1>6 DEF Adds
<1> QED BY <1>1, <1>3, <1>5, <1>7, <1>8

LEMMA IndexTyped ==
  ASSUME NEW d \in Image, NEW b \in Block
  PROVE  /\ \A e \in [0 .. PerIndex - 1 -> Pointer] :
              /\ IsIndex([d.index EXCEPT ![b] = e])
              /\ [d EXCEPT !.index[b] = e] = [d EXCEPT !.index = [d.index EXCEPT ![b] = e]]
         /\ \A i \in 0 .. PerIndex - 1, p \in Pointer :
              /\ IsIndex([d.index EXCEPT ![b][i] = p])
              /\ [d EXCEPT !.index[b][i] = p] = [d EXCEPT !.index = [d.index EXCEPT ![b][i] = p]]
         /\ \A i \in 0 .. PerIndex - 1, p \in Pointer : [NoBlocks EXCEPT ![i] = p] \in [0 .. PerIndex - 1 -> Pointer]
<1>1. d.index \in [Block -> [0 .. PerIndex - 1 -> Pointer]]
  BY DEF Image
<1>2. \A e \in [0 .. PerIndex - 1 -> Pointer] : [d.index EXCEPT ![b] = e] \in [Block -> [0 .. PerIndex - 1 -> Pointer]]
  BY <1>1
<1>3. ASSUME NEW i \in 0 .. PerIndex - 1, NEW p \in Pointer
      PROVE  IsIndex([d.index EXCEPT ![b][i] = p])
  <2>1. PICK e \in [0 .. PerIndex - 1 -> Pointer] : e = [d.index[b] EXCEPT ![i] = p]
    BY <1>1
  <2>2. [d.index EXCEPT ![b][i] = p] = [d.index EXCEPT ![b] = e]
    BY <2>1
  <2> QED BY <1>2, <2>2 DEF IsIndex
<1>4. \A i \in 0 .. PerIndex - 1, p \in Pointer : [NoBlocks EXCEPT ![i] = p] \in [0 .. PerIndex - 1 -> Pointer]
  BY NoBlocksTyped
<1> QED BY <1>2, <1>3, <1>4 DEF IsIndex

LEMMA NamesWriteData ==
  ASSUME disk \in Image, NEW f, NEW n, NEW k, NamesKept(f, n, k), NEW b \in Block
  PROVE  LET g == WriteData(f, b)
         IN NamesKept(g, n, k) /\ g.node = f.node /\ g.inodes = f.inodes
<1>1. PICK d \in Image : d = On(f)
  BY DEF NamesKept, NamesImages
<1>2. PICK index : index = [d.index EXCEPT ![b] = NoBlocks] /\ IsIndex(index) /\ [d EXCEPT !.index[b] = NoBlocks] = [d EXCEPT !.index = index]
  BY IndexTyped, NoBlocksTyped
<1>3. WriteData(f, b) = Write(f, [On(f) EXCEPT !.index = index])
  BY <1>1, <1>2 DEF WriteData
<1> QED BY <1>2, <1>3, NamesIndexWritten

-----------------------------------------------------------------------------
(* The names are kept by every call, write and crash.                      *)
NamesInv == TypeOK /\ NamesKept(fs, 0, 0) /\ disk \in NamesImages

LEMMA CallBegins ==
  ASSUME NamesInv, Called
  PROVE  /\ disk \in Image /\ fs \in FileSystem /\ On(fs) = disk /\ disk.inodes = fs.inodes /\ NamesGood(disk)
         /\ \A name \in Names : disk.names[name] # 0 => disk.names[name] \in fs.inodes \ FixedInodes
<1>1. On(fs) = disk
  BY DEF Called, Written, On
<1>2. disk \in Image /\ fs \in FileSystem /\ disk.inodes = fs.inodes /\ NamesGood(disk)
  BY <1>1 DEF NamesInv, NamesKept, NamesImages
<1> QED BY <1>1, <1>2 DEF Called, NoDangling, NamesGood

LEMMA NamesCalled ==
  ASSUME NamesInv, Called, NEW g, fs' = g, NamesKept(g, 0, 0)
  PROVE  NamesInv'
<1>1. disk' = disk /\ lost' = lost /\ crashes' = crashes /\ torn' = torn /\ stale' = stale /\ calls' = calls + 1
  BY DEF Called
<1>2. NamesKept(fs, 0, 0)'
  BY <1>1 DEF NamesKept, NamesHeld, LinksOf, On, NamesOf, InUse, NamesImages, NamesGood
<1>3. TypeOK'
  <2>1. g \in FileSystem
    BY DEF NamesKept
  <2> QED BY <1>1, <2>1 DEF NamesInv, TypeOK
<1>4. (disk \in NamesImages)'
  BY <1>1 DEF NamesInv, NamesImages, NamesGood
<1> QED BY <1>2, <1>3, <1>4 DEF NamesInv

LEMMA NewInode ==
  ASSUME NEW f \in FileSystem, Inode \ f.inodes # {}
  PROVE  Min(Inode \ f.inodes) \in Inode \ f.inodes
<1>1. PICK S : S = Inode \ f.inodes
  OBVIOUS
<1>2. PICK x \in S : \A y \in S : x <= y
  BY <1>1, Sizes, LeastOf
<1> QED BY <1>1, <1>2 DEF Min

LEMMA NamesCreate ==
  ASSUME Aligned, NamesInv, NEW name \in Names, Create(name)
  PROVE  NamesInv'
<1>1. PICK n : n = Min(Inode \ fs.inodes)
  OBVIOUS
<1>2. Called /\ disk.names[name] = 0 /\ Inode \ fs.inodes # {}
  BY DEF Create
<1>3. /\ disk \in Image /\ fs \in FileSystem /\ On(fs) = disk /\ disk.inodes = fs.inodes /\ NamesGood(disk)
  BY <1>2, CallBegins
<1>4. n \in Inode \ FixedInodes /\ n \notin fs.inodes
  BY <1>1, <1>2, <1>3, NewInode DEF NamesGood
<1>5. NamesKept(fs, n, 0) /\ InUse(fs, n)
  BY <1>4, NamesOfOne DEF NamesInv
<1>6. PICK f : f = AllocateInode(fs, n)
  OBVIOUS
<1>7. NamesKept(f, n, 0) /\ f.node = fs.node /\ f.inodes = fs.inodes \cup {n} /\ On(f).names = disk.names
  <2>1. PICK g : g = InodeTaken(fs, n) /\ IsInodes(fs, g, n, fs.inodes \cup {n}, -1) /\ f = SaveSuperblock(FlushInodes(g))
    BY <1>3, <1>4, <1>6, AllocateInodeIs
  <2> QED BY <1>3, <1>4, <1>5, <2>1, NamesInodesSaved
<1>8. PICK g : g = Write(f, [On(f) EXCEPT !.names[name] = n])
  OBVIOUS
<1>9. NamesKept(g, n, 1) /\ g.node = f.node /\ g.inodes = f.inodes /\ On(g) = [On(f) EXCEPT !.names[name] = n]
  <2>1. g = NameSet(f, name, n) /\ On(f).names[name] = 0 /\ n \in f.inodes \ FixedInodes
    BY <1>2, <1>4, <1>7, <1>8 DEF NameSet
  <2> QED BY <1>3, <1>7, <2>1, NameAdded
<1>10. g.node[n] = NoNode /\ g \in FileSystem
  BY <1>4, <1>5, <1>7, <1>9 DEF InUse, NamesKept
<1>11. PICK node \in Cached : /\ node = [links |-> 0, empty |-> TRUE, direct |-> EmptyInode.direct, index |-> 0, spare |-> <<>>, opens |-> 0]
                              /\ node.links = 0 /\ node.opens = 0
  <2>1. 0 \in Pointer /\ <<>> \in Seq(Block)
    BY DEF Pointer
  <2>2. [links |-> 0, empty |-> TRUE, direct |-> EmptyInode.direct, index |-> 0, spare |-> <<>>, opens |-> 0] \in Cached
    BY <2>1, EmptyTyped DEF Cached
  <2> QED BY <2>2
<1>12. PICK h : h = [g EXCEPT !.node[n] = node]
  OBVIOUS
<1>13. IsNode(g, h, n, node)
  BY <1>4, <1>10, <1>12, NodeReplaced
<1>14. /\ h \in FileSystem /\ h.inodes = g.inodes /\ h.images = g.images /\ On(h) = On(g) /\ h.node[n] = node /\ node # NoNode
       /\ \A m \in Inode \ {n} : h.node[m] = g.node[m]
  BY <1>13, OnSame, NotNoNode DEF IsNode, Memory
<1>15. n \notin lost => NamesOf(On(g), n) = {name}
  <2>1. ASSUME n \notin lost, NEW other \in Names
        PROVE  On(g).names[other] = n <=> other = name
    <3>1. disk.names[other] # n
      <4>1. disk.names[other] = n => n = 0
        BY <1>3, <1>4, <2>1 DEF NamesGood
      <4> QED BY <4>1, <1>4, Sizes
    <3>2. On(f).names[other] # n
      BY <1>7, <3>1
    <3>3. On(f).names \in [Names -> Inode \cup {0}]
      BY <1>3, <1>7 DEF Image
    <3>4. On(g).names = [On(f).names EXCEPT ![name] = n]
      <4>1. On(f) \in Image
        BY <1>7 DEF NamesKept, NamesImages
      <4> QED BY <4>1, <1>9 DEF Image
    <3> QED BY <3>2, <3>3, <3>4
  <2> QED BY <2>1 DEF NamesOf
<1>16. ASSUME NEW m \in Inode \ lost
       PROVE  NamesHeld(h, m) <= LinksOf(h, m) + (IF m = n THEN 1 ELSE 0)
  <2>1. CASE m # n
    <3>1. NamesHeld(g, m) <= LinksOf(g, m) + 0
      BY <1>9, <2>1 DEF NamesKept
    <3>2. NamesHeld(h, m) = NamesHeld(g, m) /\ LinksOf(h, m) = LinksOf(g, m)
      BY <1>14, <2>1 DEF NamesHeld, LinksOf
    <3> QED BY <2>1, <3>1, <3>2
  <2>2. CASE m = n
    <3>1. Cardinality(NamesOf(On(h), n)) = 1
      BY <1>14, <1>15, <2>2, FS_Singleton
    <3>2. NamesHeld(h, n) = 1 + 0 /\ LinksOf(h, n) = 0
      BY <3>1, <1>11, <1>14 DEF NamesHeld, LinksOf
    <3> QED BY <2>2, <3>2
  <2> QED BY <2>1, <2>2
<1>17. \A m \in Inode : InUse(h, m)
  <2>1. \A m \in Inode \ {n} : InUse(g, m)
    BY <1>9 DEF NamesKept
  <2>2. n \in h.inodes \ FixedInodes
    BY <1>4, <1>7, <1>9, <1>14
  <2> QED BY <2>1, <2>2, <1>14 DEF InUse
<1>18. NamesKept(h, n, 1)
  BY <1>9, <1>14, <1>16, <1>17 DEF NamesKept
<1>19. NamesKept(IncLinkCount(h, n), 0, 0)
  BY <1>3, <1>4, <1>14, <1>17, <1>18, NamesIncLinkCount
<1>20. fs' = IncLinkCount(h, n)
  BY <1>1, <1>6, <1>8, <1>11, <1>12 DEF Create
<1> QED BY <1>2, <1>19, <1>20, NamesCalled

LEMMA NamesLink ==
  ASSUME NamesInv, NEW old \in Names, NEW name \in Names, Link(old, name)
  PROVE  NamesInv'
<1>1. PICK n : n = disk.names[old]
  OBVIOUS
<1>2. Called /\ n # 0 /\ disk.names[name] = 0
  BY <1>1 DEF Link
<1>3. disk \in Image /\ fs \in FileSystem /\ On(fs) = disk /\ n \in fs.inodes \ FixedInodes /\ n \in Inode
  BY <1>1, <1>2, CallBegins DEF FileSystem
<1>4. PICK f : f = Loaded(fs, n)
  OBVIOUS
<1>5. NamesKept(f, n, 0) /\ f.node[n] # NoNode /\ InUse(f, n) /\ On(f) = disk /\ f.inodes = fs.inodes
  BY <1>3, <1>4, NamesLoaded DEF NamesInv
<1>6. PICK g : g = Write(f, [disk EXCEPT !.names[name] = n])
  OBVIOUS
<1>7. NamesKept(g, n, 1) /\ g.node = f.node /\ g.inodes = f.inodes
  <2>1. g = NameSet(f, name, n) /\ On(f).names[name] = 0 /\ n \in f.inodes \ FixedInodes
    BY <1>2, <1>3, <1>5, <1>6 DEF NameSet
  <2> QED BY <1>3, <1>5, <2>1, NameAdded
<1>8. NamesKept(IncLinkCount(g, n), 0, 0)
  BY <1>3, <1>5, <1>7, NamesIncLinkCount DEF InUse
<1>9. fs' = IncLinkCount(g, n)
  BY <1>1, <1>4, <1>6 DEF Link
<1> QED BY <1>2, <1>8, <1>9, NamesCalled

LEMMA NamesUnlink ==
  ASSUME Aligned, NamesInv, NEW name \in Names, Unlink(name)
  PROVE  NamesInv'
<1>1. PICK n : n = disk.names[name]
  OBVIOUS
<1>2. Called /\ n # 0
  BY <1>1 DEF Unlink
<1>3. disk \in Image /\ fs \in FileSystem /\ On(fs) = disk /\ n \in fs.inodes \ FixedInodes /\ n \in Inode
  BY <1>1, <1>2, CallBegins DEF FileSystem
<1>4. PICK f : f = Loaded(fs, n)
  OBVIOUS
<1>5. NamesKept(f, n, 0) /\ f.node[n] # NoNode /\ InUse(f, n) /\ On(f) = disk /\ f.inodes = fs.inodes
  BY <1>3, <1>4, NamesLoaded DEF NamesInv
<1>6. PICK g : g = Write(f, [disk EXCEPT !.names[name] = 0])
  OBVIOUS
<1>7. NamesKept(g, n, -1) /\ g.node = f.node /\ g.inodes = f.inodes
  <2>1. g = NameSet(f, name, 0) /\ On(f).names[name] = n
    BY <1>1, <1>5, <1>6 DEF NameSet
  <2> QED BY <1>3, <1>5, <2>1, NameRemoved
<1>8. NamesKept(DecLinkCount(g, n), 0, 0)
  BY <1>3, <1>5, <1>7, NamesDecLinkCount DEF InUse
<1>9. fs' = DecLinkCount(g, n)
  BY <1>1, <1>4, <1>6 DEF Unlink
<1> QED BY <1>2, <1>8, <1>9, NamesCalled

LEMMA NamesFileOpened ==
  ASSUME disk \in Image, NEW f, NEW n \in Inode, NamesKept(f, n, 0), f.node[n] # NoNode, InUse(f, n)
  PROVE  NamesKept(FileOpened(f, n), 0, 0)
<1>1. PICK g : g = [f EXCEPT !.node[n].opens = @ + 1]
  OBVIOUS
<1>2. PICK c \in Cached : c = f.node[n]
  BY CachedIs DEF NamesKept
<1>3. c.links \in Int /\ c.opens \in Nat /\ c.opens + 1 \in Nat /\ 1 \in Int
  BY DEF Cached
<1>4. PICK d \in Cached : d = [c EXCEPT !.opens = @ + 1]
  <2>1. [c EXCEPT !.opens = @ + 1] \in Cached
    BY <1>3, CachedChanges
  <2> QED BY <2>1
<1>5. d.opens = c.opens + 1 /\ d.links = c.links
  BY <1>4 DEF Cached
<1>6. IsNode(f, g, n, d)
  BY <1>1, <1>2, <1>4, OpensChanged DEF NamesKept
<1>7. d.opens - d.links = f.node[n].opens - f.node[n].links + 1
  BY <1>2, <1>3, <1>5
<1>8. NamesKept(g, n, 0 + 1) /\ g.node[n] # NoNode /\ g.inodes = f.inodes
  BY <1>3, <1>6, <1>7, NamesIsNode
<1>9. NamesKept(g, n, 1) /\ InUse(g, n)
  BY <1>8 DEF InUse
<1> QED BY <1>1, <1>8, <1>9, NamesIncLinkCount DEF FileOpened

LEMMA NamesOpen ==
  ASSUME NamesInv, NEW name \in Names, Open(name)
  PROVE  NamesInv'
<1>1. PICK n : n = disk.names[name]
  OBVIOUS
<1>2. Called /\ n # 0
  BY <1>1 DEF Open
<1>3. disk \in Image /\ fs \in FileSystem /\ On(fs) = disk /\ n \in fs.inodes \ FixedInodes /\ n \in Inode
  BY <1>1, <1>2, CallBegins DEF FileSystem
<1>4. PICK f : f = Loaded(fs, n)
  OBVIOUS
<1>5. NamesKept(f, n, 0) /\ f.node[n] # NoNode /\ InUse(f, n) /\ On(f) = disk /\ f.inodes = fs.inodes
  BY <1>3, <1>4, NamesLoaded DEF NamesInv
<1>6. NamesKept(FileOpened(f, n), 0, 0)
  BY <1>3, <1>5, NamesFileOpened
<1>7. fs' = FileOpened(f, n)
  BY <1>1, <1>4 DEF Open
<1> QED BY <1>2, <1>6, <1>7, NamesCalled

LEMMA NamesTruncated ==
  ASSUME disk \in Image, NEW f, NEW n \in Inode, NEW k \in Int, NamesKept(f, n, k), f.node[n] # NoNode
  PROVE  LET g == Truncated(f, n)
         IN NamesKept(g, n, k) /\ g.node[n] # NoNode /\ g.inodes = f.inodes
<1>1. PICK g : g = Truncated(f, n)
  OBVIOUS
<1>2. PICK node \in Cached : IsNode(f, g, n, node) /\ node.links = f.node[n].links /\ node.opens = f.node[n].opens
  BY <1>1, TruncatedIs DEF NamesKept
<1>3. node.links \in Int /\ node.opens \in Int /\ 0 \in Int
  BY DEF Cached
<1>4. node.opens - node.links = f.node[n].opens - f.node[n].links + 0
  BY <1>2, <1>3
<1>5. NamesKept(g, n, k + 0) /\ g.node[n] # NoNode /\ g.inodes = f.inodes
  BY <1>2, <1>3, <1>4, NamesIsNode
<1> QED BY <1>1, <1>5

EmptySet(f, n, e) == [f EXCEPT !.node[n].empty = e]
LEMMA NamesEmptySet ==
  ASSUME disk \in Image, NEW f, NEW n \in Inode, NEW k \in Int, NamesKept(f, n, k), f.node[n] # NoNode, NEW e \in BOOLEAN
  PROVE  LET g == EmptySet(f, n, e)
         IN NamesKept(g, n, k) /\ g.node[n] # NoNode /\ g.inodes = f.inodes /\ g.images = f.images
<1>1. PICK g : g = EmptySet(f, n, e)
  OBVIOUS
<1>2. PICK c \in Cached : c = f.node[n]
  BY CachedIs DEF NamesKept
<1>3. PICK d \in Cached : d = [c EXCEPT !.empty = e]
  <2>1. [c EXCEPT !.empty = e] \in Cached
    BY CachedChanges
  <2> QED BY <2>1
<1>4. IsNode(f, g, n, d)
  BY <1>1, <1>2, <1>3, EmptyChanged DEF NamesKept, EmptySet
<1>5. d.links = c.links /\ d.opens = c.opens /\ c.links \in Int /\ c.opens \in Int /\ 0 \in Int
  BY <1>3 DEF Cached
<1>6. d.opens - d.links = f.node[n].opens - f.node[n].links + 0
  BY <1>2, <1>5
<1>7. NamesKept(g, n, k + 0) /\ g.node[n] # NoNode /\ g.inodes = f.inodes /\ g.images = f.images
  BY <1>4, <1>5, <1>6, NamesIsNode
<1> QED BY <1>1, <1>7

LEMMA NamesOpenTruncate ==
  ASSUME NamesInv, NEW name \in Names, OpenTruncate(name)
  PROVE  NamesInv'
<1>1. PICK n : n = disk.names[name]
  OBVIOUS
<1>2. Called /\ n # 0
  BY <1>1 DEF OpenTruncate
<1>3. disk \in Image /\ fs \in FileSystem /\ On(fs) = disk /\ n \in fs.inodes \ FixedInodes /\ n \in Inode
  BY <1>1, <1>2, CallBegins DEF FileSystem
<1>4. PICK f : f = Loaded(fs, n)
  OBVIOUS
<1>5. NamesKept(f, n, 0) /\ f.node[n] # NoNode /\ f.inodes = fs.inodes
  BY <1>3, <1>4, NamesLoaded DEF NamesInv
<1>6. PICK g : g = Truncated(f, n)
  OBVIOUS
<1>7. NamesKept(g, n, 0) /\ g.node[n] # NoNode /\ g.inodes = f.inodes
  BY <1>3, <1>5, <1>6, NamesTruncated
<1>8. PICK h : h = [g EXCEPT !.node[n].empty = TRUE]
  OBVIOUS
<1>9. NamesKept(h, n, 0) /\ h.node[n] # NoNode /\ h.inodes = g.inodes
  <2>1. h = EmptySet(g, n, TRUE) /\ 0 \in Int /\ TRUE \in BOOLEAN
    BY <1>8 DEF EmptySet
  <2> QED BY <1>3, <1>7, <2>1, NamesEmptySet
<1>10. PICK i : i = SaveInode(h, n)
  OBVIOUS
<1>11. NamesKept(i, n, 0) /\ i.node = h.node /\ i.inodes = h.inodes
  BY <1>3, <1>9, <1>10, NamesSaveInode
<1>12. i.node[n] # NoNode /\ InUse(i, n)
  BY <1>3, <1>5, <1>7, <1>9, <1>11 DEF InUse
<1>13. NamesKept(FileOpened(i, n), 0, 0)
  BY <1>3, <1>11, <1>12, NamesFileOpened
<1>14. fs' = FileOpened(i, n)
  BY <1>1, <1>4, <1>6, <1>8, <1>10 DEF OpenTruncate
<1> QED BY <1>2, <1>13, <1>14, NamesCalled

SpareSet(f, n, s) == [f EXCEPT !.node[n].spare = s]
LEMMA NamesSpareSet ==
  ASSUME disk \in Image, NEW f, NEW n \in Inode, NEW k \in Int, NamesKept(f, n, k), f.node[n] # NoNode, NEW s \in Seq(Block)
  PROVE  LET g == SpareSet(f, n, s)
         IN NamesKept(g, n, k) /\ g.node[n] # NoNode /\ g.inodes = f.inodes
<1>1. PICK g : g = SpareSet(f, n, s)
  OBVIOUS
<1>2. PICK c \in Cached : c = f.node[n]
  BY CachedIs DEF NamesKept
<1>3. PICK d \in Cached : d = [c EXCEPT !.spare = s]
  <2>1. [c EXCEPT !.spare = s] \in Cached
    BY CachedChanges
  <2> QED BY <2>1
<1>4. IsNode(f, g, n, d)
  BY <1>1, <1>2, <1>3, SpareChanged DEF NamesKept, SpareSet
<1>5. d.links = c.links /\ d.opens = c.opens /\ c.links \in Int /\ c.opens \in Int /\ 0 \in Int
  BY <1>3 DEF Cached
<1>6. d.opens - d.links = f.node[n].opens - f.node[n].links + 0
  BY <1>2, <1>5
<1>7. NamesKept(g, n, k + 0) /\ g.node[n] # NoNode /\ g.inodes = f.inodes
  BY <1>4, <1>5, <1>6, NamesIsNode
<1> QED BY <1>1, <1>7

LEMMA SubSeqTyped ==
  ASSUME NEW S, NEW s \in Seq(S), NEW a \in Nat \ {0}, NEW b \in Nat, b <= Len(s)
  PROVE  SubSeq(s, a, b) \in Seq(S)
OBVIOUS

LEMMA NamesClose ==
  ASSUME Aligned, NamesInv, NEW n \in Inode, Close(n)
  PROVE  NamesInv'
<1>1. Called /\ fs.node[n] # NoNode /\ fs.node[n].opens > 0
  BY DEF Close, IsOpen
<1>2. disk \in Image /\ fs \in FileSystem
  BY <1>1, CallBegins
<1>3. NamesKept(fs, n, 0) /\ InUse(fs, n)
  BY NamesOfOne DEF NamesInv
<1>4. PICK less : less = [fs EXCEPT !.node[n].opens = @ - 1]
  OBVIOUS
<1>5. PICK c \in Cached : c = fs.node[n] /\ c.opens > 0
  BY <1>1, <1>2, CachedIs
<1>6. c.links \in Int /\ c.opens \in Nat /\ c.opens - 1 \in Nat /\ -1 \in Int /\ 0 \in Int
  BY <1>5 DEF Cached
<1>7. PICK d \in Cached : d = [c EXCEPT !.opens = @ - 1]
  <2>1. [c EXCEPT !.opens = @ - 1] \in Cached
    BY <1>6, CachedChanges
  <2> QED BY <2>1
<1>8. d.opens = c.opens - 1 /\ d.links = c.links
  BY <1>7 DEF Cached
<1>9. IsNode(fs, less, n, d)
  BY <1>1, <1>2, <1>4, <1>5, <1>7, OpensChanged
<1>10. NamesKept(less, n, -1) /\ less.node[n] = d /\ less.node[n] # NoNode /\ less.inodes = fs.inodes
  <2>1. d.opens - d.links = fs.node[n].opens - fs.node[n].links + (-1)
    BY <1>5, <1>6, <1>8
  <2>2. NamesKept(less, n, 0 + (-1)) /\ less.node[n] = d /\ less.node[n] # NoNode /\ less.inodes = fs.inodes
    BY <1>1, <1>2, <1>3, <1>6, <1>9, <2>1, NamesIsNode
  <2>3. 0 + (-1) = -1
    OBVIOUS
  <2> QED BY <2>2, <2>3
<1>11. PICK spare \in Seq(Block), kept \in Nat : spare = less.node[n].spare /\ kept = IF less.node[n].opens = 0 THEN 0 ELSE Keep
  <2>1. less.node[n].spare \in Seq(Block)
    BY <1>10 DEF Cached
  <2>2. Keep \in Nat
    BY Ext2Assumption
  <2> QED BY <2>1, <2>2
<1>12. PICK tail \in Seq(Block), front \in Seq(Block) :
         /\ tail = SubSeq(spare, kept + 1, Len(spare))
         /\ front = SubSeq(spare, 1, IF kept < Len(spare) THEN kept ELSE Len(spare))
  <2>1. PICK len \in Nat, m \in Nat : len = Len(spare) /\ m = (IF kept < Len(spare) THEN kept ELSE Len(spare)) /\ m <= len
    OBVIOUS
  <2>2. kept + 1 \in Nat \ {0} /\ 1 \in Nat \ {0}
    OBVIOUS
  <2>3. SubSeq(spare, kept + 1, len) \in Seq(Block) /\ SubSeq(spare, 1, m) \in Seq(Block)
    BY <2>1, <2>2, SubSeqTyped
  <2> QED BY <2>1, <2>3
<1>13. PICK freed : freed = FreeBlocks(less, tail)
  OBVIOUS
<1>14. NamesKept(freed, n, -1) /\ freed.node = less.node /\ freed.inodes = less.inodes
  BY <1>2, <1>6, <1>10, <1>13, NamesFreeBlocks
<1>15. PICK trimmed : trimmed = SpareSet(freed, n, front)
  OBVIOUS
<1>16. NamesKept(trimmed, n, -1) /\ trimmed.node[n] # NoNode /\ trimmed.inodes = freed.inodes
  BY <1>2, <1>6, <1>10, <1>14, <1>15, NamesSpareSet
<1>17. PICK final : final = DecLinkCount(trimmed, n)
  OBVIOUS
<1>18. NamesKept(final, 0, 0) /\ InUse(final, n)
  <2>1. InUse(trimmed, n)
    BY <1>1, <1>3, <1>10, <1>14, <1>16 DEF InUse
  <2> QED BY <1>2, <1>16, <1>17, <2>1, NamesDecLinkCount
<1>19. FileClosed(fs, n) = IF final.node[n] = NoNode THEN final ELSE SaveInode(final, n)
  <2>1. SpareFreed(less, n, kept) = trimmed
    BY <1>11, <1>12, <1>13, <1>15 DEF SpareFreed, SpareSet
  <2>2. FileClosed(fs, n) = LET closed == DecLinkCount(SpareFreed(less, n, kept), n)
                            IN IF closed.node[n] = NoNode THEN closed ELSE SaveInode(closed, n)
    BY <1>4, <1>11, Zenon DEF FileClosed
  <2> QED BY <1>17, <2>1, <2>2
<1>20. final.node[n] # NoNode => NamesKept(SaveInode(final, n), 0, 0)
  <2>1. ASSUME final.node[n] # NoNode
        PROVE  NamesKept(SaveInode(final, n), 0, 0)
    <3>1. NamesKept(final, n, 0)
      BY <1>18, NamesOfOne
    <3>2. PICK h : h = SaveInode(final, n)
      OBVIOUS
    <3>3. NamesKept(h, n, 0) /\ h.node = final.node /\ h.inodes = final.inodes
      BY <1>2, <2>1, <3>1, <3>2, NamesSaveInode
    <3>4. InUse(h, n)
      BY <1>18, <3>3 DEF InUse
    <3> QED BY <3>2, <3>3, <3>4, NamesOfOne
  <2> QED BY <2>1
<1>21. NamesKept(FileClosed(fs, n), 0, 0)
  BY <1>18, <1>19, <1>20
<1>22. fs' = FileClosed(fs, n)
  BY DEF Close
<1> QED BY <1>1, <1>21, <1>22, NamesCalled

(* A write begins: the size is set, and there is a spare block.            *)
LEMMA SizedIs ==
  ASSUME fs \in FileSystem, NEW n \in Inode, fs.node[n] # NoNode
  PROVE  /\ IsNode(fs, Sized(n), n, [fs.node[n] EXCEPT !.empty = FALSE])
         /\ Sized(n).node[n] # NoNode /\ Sized(n).node[n].spare = fs.node[n].spare
         /\ NoSpace(Sized(n), n) <=> NoSpace(fs, n)
<1>1. PICK g, e : g = Sized(n) /\ e = FALSE /\ e \in BOOLEAN
  OBVIOUS
<1>2. PICK c \in Cached : c = fs.node[n]
  BY CachedIs
<1>3. PICK d \in Cached : d = [c EXCEPT !.empty = e] /\ d.spare = c.spare
  <2>1. [c EXCEPT !.empty = e] \in Cached
    BY <1>1, CachedChanges
  <2>2. [c EXCEPT !.empty = e].spare = c.spare
    BY DEF Cached
  <2> QED BY <2>1, <2>2
<1>4. IsNode(fs, g, n, [fs.node[n] EXCEPT !.empty = e])
  BY <1>1, EmptyChanged DEF Sized
<1>5. g.node[n] = d /\ g.blocks = fs.blocks /\ d # NoNode
  BY <1>2, <1>3, <1>4, NotNoNode DEF IsNode
<1>6. Units(g) = Units(fs)
  BY <1>5 DEF Units
<1>7. NoSpace(g, n) <=> NoSpace(fs, n)
  BY <1>2, <1>3, <1>5, <1>6 DEF NoSpace
<1> QED BY <1>1, <1>2, <1>3, <1>4, <1>5, <1>7

LEMMA NamesSized ==
  ASSUME NamesInv, NEW n \in Inode, Called, fs.node[n] # NoNode
  PROVE  /\ NamesKept(Sized(n), n, 0) /\ Sized(n).node[n] # NoNode /\ InUse(Sized(n), n) /\ Sized(n).inodes = fs.inodes
         /\ Sized(n).images = fs.images
<1>1. disk \in Image /\ fs \in FileSystem
  BY CallBegins
<1>2. NamesKept(fs, n, 0) /\ InUse(fs, n)
  BY NamesOfOne DEF NamesInv
<1>3. PICK g : g = Sized(n)
  OBVIOUS
<1>4. g = EmptySet(fs, n, FALSE) /\ 0 \in Int /\ FALSE \in BOOLEAN
  BY <1>3 DEF Sized, EmptySet
<1>5. NamesKept(g, n, 0) /\ g.node[n] # NoNode /\ g.inodes = fs.inodes /\ g.images = fs.images
  BY <1>1, <1>2, <1>4, NamesEmptySet
<1> QED BY <1>2, <1>3, <1>5 DEF InUse

LEMMA NamesWriteFull ==
  ASSUME NamesInv, NEW n \in Inode, NEW i, WriteFull(n, i)
  PROVE  NamesInv'
<1>1. Called /\ fs.node[n] # NoNode /\ fs' = Sized(n)
  BY DEF WriteFull, IsOpen
<1>2. NamesKept(Sized(n), 0, 0)
  BY <1>1, NamesSized, NamesOfOne
<1> QED BY <1>1, <1>2, NamesCalled

(* The spare block is taken, for a place of the inode, or of its index.    *)
LEMMA NamesTaken ==
  ASSUME disk \in Image, NEW f, NEW n \in Inode, NamesKept(f, n, 0), f.node[n] # NoNode, f.node[n].spare # <<>>
  PROVE  /\ NamesKept(Taken(f, n), n, 0) /\ Taken(f, n).node[n] # NoNode
         /\ Taken(f, n).inodes = f.inodes /\ Head(f.node[n].spare) \in Block
<1>1. PICK t \in Seq(Block) : /\ t = Tail(f.node[n].spare) /\ Head(f.node[n].spare) \in Block
  BY TakenIs DEF NamesKept
<1>2. Taken(f, n) = SpareSet(f, n, t) /\ 0 \in Int
  BY <1>1 DEF Taken, SpareSet
<1>3. PICK g : g = SpareSet(f, n, t)
  OBVIOUS
<1>4. NamesKept(g, n, 0) /\ g.node[n] # NoNode /\ g.inodes = f.inodes
  BY <1>2, <1>3, NamesSpareSet
<1> QED BY <1>1, <1>2, <1>3, <1>4

(* A block number in the inode.                                            *)
DirectSet(f, n, i, b) == [f EXCEPT !.node[n].direct[i] = b]
IndexSet(f, n, b) == [f EXCEPT !.node[n].index = b]
LEMMA DirectChanged ==
  ASSUME NEW f \in FileSystem, NEW n \in Inode, f.node[n] # NoNode, NEW b \in Block, NEW i \in 0 .. Direct - 1
  PROVE  \E node \in Cached :
           /\ IsNode(f, DirectSet(f, n, i, b), n, node)
           /\ node.links = f.node[n].links /\ node.opens = f.node[n].opens
           /\ node.spare = f.node[n].spare /\ node.index = f.node[n].index
           /\ \A j \in 0 .. Direct - 1 : node.direct[j] = IF j = i THEN b ELSE f.node[n].direct[j]
<1>1. PICK c \in Cached : c = f.node[n]
  BY CachedIs
<1>2. c.direct \in [0 .. Direct - 1 -> Pointer] /\ b \in Pointer
  BY DEF Cached, Pointer
<1>3. PICK direct \in [0 .. Direct - 1 -> Pointer] : direct = [c.direct EXCEPT ![i] = b]
  BY <1>2
<1>4. PICK node \in Cached : node = [c EXCEPT !.direct = direct]
  <2>1. [c EXCEPT !.direct = direct] \in Cached
    BY CachedChanges
  <2> QED BY <2>1
<1>5. DirectSet(f, n, i, b) = [f EXCEPT !.node[n] = node]
  BY <1>1, <1>3, <1>4 DEF DirectSet
<1>6. IsNode(f, DirectSet(f, n, i, b), n, node)
  BY <1>5, NodeReplaced
<1>7. /\ node.links = c.links /\ node.opens = c.opens /\ node.spare = c.spare /\ node.index = c.index
      /\ node.direct = direct
  BY <1>4 DEF Cached
<1>8. \A j \in 0 .. Direct - 1 : node.direct[j] = IF j = i THEN b ELSE f.node[n].direct[j]
  BY <1>1, <1>2, <1>3, <1>7
<1> QED BY <1>1, <1>6, <1>7, <1>8, Zenon

LEMMA IndexChanged ==
  ASSUME NEW f \in FileSystem, NEW n \in Inode, f.node[n] # NoNode, NEW b \in Block
  PROVE  \E node \in Cached :
           /\ IsNode(f, IndexSet(f, n, b), n, node)
           /\ node.links = f.node[n].links /\ node.opens = f.node[n].opens
           /\ node.spare = f.node[n].spare /\ node.index = b
           /\ node.direct = f.node[n].direct
<1>1. PICK c \in Cached : c = f.node[n]
  BY CachedIs
<1>2. b \in Pointer
  BY DEF Pointer
<1>3. PICK node \in Cached : node = [c EXCEPT !.index = b]
  <2>1. [c EXCEPT !.index = b] \in Cached
    BY <1>2, CachedChanges
  <2> QED BY <2>1
<1>4. IndexSet(f, n, b) = [f EXCEPT !.node[n] = node]
  BY <1>1, <1>3 DEF IndexSet
<1>5. IsNode(f, IndexSet(f, n, b), n, node)
  BY <1>4, NodeReplaced
<1>6. node.links = c.links /\ node.opens = c.opens /\ node.spare = c.spare /\ node.index = b /\ node.direct = c.direct
  BY <1>3 DEF Cached
<1> QED BY <1>1, <1>5, <1>6

LEMMA NamesPointer ==
  ASSUME disk \in Image, NEW f, NEW n \in Inode, NamesKept(f, n, 0), f.node[n] # NoNode, NEW g, NEW node \in Cached,
         IsNode(f, g, n, node), node.links = f.node[n].links, node.opens = f.node[n].opens
  PROVE  NamesKept(g, n, 0) /\ g.node[n] = node /\ g.node[n] # NoNode /\ g.inodes = f.inodes
<1>1. node.links \in Int /\ node.opens \in Int /\ 0 \in Int
  BY DEF Cached
<1>2. node.opens - node.links = f.node[n].opens - f.node[n].links + 0
  BY <1>1
<1>3. NamesKept(g, n, 0 + 0) /\ g.node[n] = node /\ g.node[n] # NoNode /\ g.inodes = f.inodes
  BY <1>1, <1>2, NamesIsNode
<1> QED BY <1>3

LEMMA WriteBegins ==
  ASSUME NamesInv, NEW n \in Inode, Called, IsOpen(n), ~NoSpace(fs, n), NEW f, f = Supplied(Sized(n), n)
  PROVE  /\ disk \in Image /\ NamesKept(f, n, 0) /\ f.node[n] # NoNode /\ f.node[n].spare # <<>>
         /\ f \in FileSystem /\ fs \in FileSystem /\ fs.node[n] # NoNode /\ f.inodes = fs.inodes
<1>1. disk \in Image /\ fs \in FileSystem
  BY CallBegins
<1>2. fs.node[n] # NoNode
  BY DEF IsOpen
<1>3. NamesKept(Sized(n), n, 0) /\ Sized(n).node[n] # NoNode /\ Sized(n).inodes = fs.inodes
  BY <1>2, NamesSized
<1>4. ~NoSpace(Sized(n), n)
  BY <1>1, <1>2, SizedIs, Zenon
<1>5. NamesKept(f, n, 0) /\ f.node[n] # NoNode /\ f.node[n].spare # <<>> /\ f.inodes = fs.inodes
  <2>1. 0 \in Int
    OBVIOUS
  <2> QED BY <1>1, <1>3, <1>4, <2>1, NamesSupplied
<1>6. f \in FileSystem
  BY <1>5 DEF NamesKept
<1> QED BY <1>1, <1>2, <1>5, <1>6

(* The node of n is in use at the end, as it was: only a call that frees   *)
(* the node takes it out of the cache.                                     *)
LEMMA NamesWriteEnds ==
  ASSUME NamesInv, NEW n \in Inode, Called, fs.node[n] # NoNode, NEW g, fs' = g, NamesKept(g, n, 0), g.inodes = fs.inodes
  PROVE  NamesInv'
<1>1. InUse(fs, n)
  BY NamesOfOne DEF NamesInv
<1>2. InUse(g, n)
  BY <1>1 DEF InUse
<1> QED BY <1>2, NamesOfOne, NamesCalled

LEMMA NamesWriteDirect ==
  ASSUME NamesInv, NEW n \in Inode, NEW i \in 0 .. Direct + PerIndex - 1, WriteDirect(n, i)
  PROVE  NamesInv'
<1>1. Called /\ IsOpen(n) /\ ~NoSpace(fs, n) /\ i < Direct
  BY DEF WriteDirect
<1>2. PICK f : f = Supplied(Sized(n), n)
  OBVIOUS
<1>3. /\ disk \in Image /\ NamesKept(f, n, 0) /\ f.node[n] # NoNode /\ f.node[n].spare # <<>>
      /\ f \in FileSystem /\ fs.node[n] # NoNode /\ f.inodes = fs.inodes
  BY <1>1, <1>2, WriteBegins
<1>4. PICK b, g : b = Head(f.node[n].spare) /\ g = Taken(f, n)
  OBVIOUS
<1>5. NamesKept(g, n, 0) /\ g.node[n] # NoNode /\ g.inodes = f.inodes /\ b \in Block
  BY <1>3, <1>4, NamesTaken
<1>6. i \in 0 .. Direct - 1
  BY <1>1, Sizes
<1>7. PICK h : h = DirectSet(g, n, i, b)
  OBVIOUS
<1>8. NamesKept(h, n, 0) /\ h.inodes = g.inodes
  <2>1. PICK node \in Cached : /\ IsNode(g, h, n, node)
                               /\ node.links = g.node[n].links /\ node.opens = g.node[n].opens
    <3>1. g \in FileSystem
      BY <1>5 DEF NamesKept
    <3>2. \E node \in Cached :
           /\ IsNode(g, DirectSet(g, n, i, b), n, node)
           /\ node.links = g.node[n].links /\ node.opens = g.node[n].opens
           /\ node.spare = g.node[n].spare /\ node.index = g.node[n].index
           /\ \A j \in 0 .. Direct - 1 : node.direct[j] = IF j = i THEN b ELSE g.node[n].direct[j]
      BY <1>5, <1>6, <3>1, DirectChanged
    <3> QED BY <1>7, <3>2
  <2> QED BY <1>3, <1>5, <2>1, NamesPointer
<1>9. PICK k : k = WriteData(h, b)
  OBVIOUS
<1>10. NamesKept(k, n, 0) /\ k.inodes = h.inodes
  BY <1>3, <1>5, <1>8, <1>9, NamesWriteData
<1>11. fs' = k
  BY <1>2, <1>4, <1>7, <1>9 DEF WriteDirect, DirectSet
<1> QED BY <1>1, <1>3, <1>5, <1>8, <1>10, <1>11, NamesWriteEnds

LEMMA NamesWriteIndexed ==
  ASSUME NamesInv, NEW n \in Inode, NEW i \in 0 .. Direct + PerIndex - 1, WriteIndexed(n, i)
  PROVE  NamesInv'
<1>1. Called /\ IsOpen(n) /\ ~NoSpace(fs, n) /\ i >= Direct /\ fs.node[n].index # 0
  BY DEF WriteIndexed
<1>2. PICK f : f = Supplied(Sized(n), n)
  OBVIOUS
<1>3. /\ disk \in Image /\ NamesKept(f, n, 0) /\ f.node[n] # NoNode /\ f.node[n].spare # <<>>
      /\ f \in FileSystem /\ fs \in FileSystem /\ fs.node[n] # NoNode /\ f.inodes = fs.inodes
  BY <1>1, <1>2, WriteBegins
<1>4. PICK b, g : b = Head(f.node[n].spare) /\ g = Taken(f, n)
  OBVIOUS
<1>5. NamesKept(g, n, 0) /\ g.inodes = f.inodes /\ b \in Block
  BY <1>3, <1>4, NamesTaken
<1>6. PICK x \in Block, j \in 0 .. PerIndex - 1 : x = fs.node[n].index /\ j = i - Direct
  <2>1. fs.node[n] \in Cached
    BY <1>3, CachedIs
  <2>2. fs.node[n].index \in Block
    BY <1>1, <2>1 DEF Cached, Pointer
  <2>3. i - Direct \in 0 .. PerIndex - 1
    BY <1>1, Sizes
  <2> QED BY <2>2, <2>3
<1>7. PICK d \in Image : d = On(g)
  BY <1>5 DEF NamesKept, NamesImages
<1>8. PICK index : index = [d.index EXCEPT ![x][j] = b] /\ IsIndex(index) /\ [d EXCEPT !.index[x][j] = b] = [d EXCEPT !.index = index]
  BY <1>5, IndexTyped DEF Pointer
<1>9. PICK h : h = Write(g, [On(g) EXCEPT !.index = index])
  OBVIOUS
<1>10. NamesKept(h, n, 0) /\ h.inodes = g.inodes
  BY <1>3, <1>5, <1>8, <1>9, NamesIndexWritten
<1>11. PICK k : k = WriteData(h, b)
  OBVIOUS
<1>12. NamesKept(k, n, 0) /\ k.inodes = h.inodes
  BY <1>3, <1>5, <1>10, <1>11, NamesWriteData
<1>13. fs' = k
  BY <1>2, <1>4, <1>6, <1>7, <1>8, <1>9, <1>11 DEF WriteIndexed
<1> QED BY <1>1, <1>3, <1>5, <1>10, <1>12, <1>13, NamesWriteEnds

LEMMA NamesWriteNewIndex ==
  ASSUME NamesInv, NEW n \in Inode, NEW i \in 0 .. Direct + PerIndex - 1, WriteNewIndex(n, i)
  PROVE  NamesInv'
<1>1. Called /\ IsOpen(n) /\ ~NoSpace(fs, n) /\ i >= Direct
  BY DEF WriteNewIndex
<1>2. PICK f : f = Supplied(Sized(n), n)
  OBVIOUS
<1>3. /\ disk \in Image /\ NamesKept(f, n, 0) /\ f.node[n] # NoNode /\ f.node[n].spare # <<>>
      /\ f \in FileSystem /\ fs \in FileSystem /\ fs.node[n] # NoNode /\ f.inodes = fs.inodes
  BY <1>1, <1>2, WriteBegins
<1>4. PICK b, g : b = Head(f.node[n].spare) /\ g = Taken(f, n)
  OBVIOUS
<1>5. NamesKept(g, n, 0) /\ g.node[n] # NoNode /\ g.inodes = f.inodes /\ b \in Block
  BY <1>3, <1>4, NamesTaken
<1>6. CASE NoSpace(g, n)
  <2>1. fs' = g
    BY <1>2, <1>4, <1>6 DEF WriteNewIndex
  <2> QED BY <1>1, <1>3, <1>5, <2>1, NamesWriteEnds
<1>7. CASE ~NoSpace(g, n)
  <2>1. PICK h : h = Supplied(g, n)
    OBVIOUS
  <2>2. NamesKept(h, n, 0) /\ h.node[n] # NoNode /\ h.node[n].spare # <<>> /\ h.inodes = g.inodes
    <3>1. 0 \in Int
      OBVIOUS
    <3> QED BY <1>3, <1>5, <1>7, <2>1, <3>1, NamesSupplied
  <2>3. PICK x, t : x = Head(h.node[n].spare) /\ t = Taken(h, n)
    OBVIOUS
  <2>4. NamesKept(t, n, 0) /\ t.node[n] # NoNode /\ t.inodes = h.inodes /\ x \in Block
    BY <1>3, <2>2, <2>3, NamesTaken
  <2>5. PICK k : k = IndexSet(t, n, x)
    OBVIOUS
  <2>6. NamesKept(k, n, 0) /\ k.inodes = t.inodes
    <3>1. PICK node \in Cached : /\ IsNode(t, k, n, node)
                                 /\ node.links = t.node[n].links /\ node.opens = t.node[n].opens
      BY <2>4, <2>5, IndexChanged DEF NamesKept
    <3> QED BY <1>3, <2>4, <3>1, NamesPointer
  <2>7. PICK j \in 0 .. PerIndex - 1 : j = i - Direct
    <3>1. i - Direct \in 0 .. PerIndex - 1
      BY <1>1, Sizes
    <3> QED BY <3>1
  <2>8. PICK d \in Image : d = On(k)
    BY <2>6 DEF NamesKept, NamesImages
  <2>9. PICK e \in [0 .. PerIndex - 1 -> Pointer] : e = [NoBlocks EXCEPT ![j] = b]
    <3>1. [NoBlocks EXCEPT ![j] = b] \in [0 .. PerIndex - 1 -> Pointer]
      BY <1>5, NoBlocksTyped DEF Pointer
    <3> QED BY <3>1
  <2>10. PICK index : index = [d.index EXCEPT ![x] = e] /\ IsIndex(index) /\ [d EXCEPT !.index[x] = e] = [d EXCEPT !.index = index]
    BY <2>4, IndexTyped
  <2>11. PICK m : m = Write(k, [On(k) EXCEPT !.index = index])
    OBVIOUS
  <2>12. NamesKept(m, n, 0) /\ m.inodes = k.inodes
    BY <1>3, <2>6, <2>10, <2>11, NamesIndexWritten
  <2>13. PICK o : o = WriteData(m, b)
    OBVIOUS
  <2>14. NamesKept(o, n, 0) /\ o.inodes = m.inodes
    BY <1>3, <1>5, <2>12, <2>13, NamesWriteData
  <2>15. fs' = o
    BY <1>2, <1>4, <1>7, <2>1, <2>3, <2>5, <2>7, <2>8, <2>9, <2>10, <2>11, <2>13 DEF WriteNewIndex, IndexSet
  <2> QED BY <1>1, <1>3, <1>5, <2>2, <2>4, <2>6, <2>12, <2>14, <2>15, NamesWriteEnds
<1> QED BY <1>6, <1>7

LEMMA NamesDiskWrite ==
  ASSUME NamesInv, DiskWrite
  PROVE  NamesInv'
<1>1. PICK s \in Seq(NamesImages) : s = fs.images /\ s # <<>> /\ NamesImages \subseteq Image
  BY DEF NamesInv, NamesKept, DiskWrite, Written, NamesImages
<1>2. PICK t \in Seq(NamesImages), d \in NamesImages : t = Tail(s) /\ d = Head(s) /\ (t # <<>> => t[Len(t)] = s[Len(s)]) /\ (t = <<>> => d = s[Len(s)])
  <2>1. Tail(s) \in Seq(NamesImages) /\ Head(s) \in NamesImages
    BY <1>1
  <2>2. Tail(s) # <<>> => Tail(s)[Len(Tail(s))] = s[Len(s)]
    BY <1>1
  <2>3. Tail(s) = <<>> => Head(s) = s[Len(s)]
    BY <1>1
  <2> QED BY <2>1, <2>2, <2>3
<1>3. PICK g : g = fs' /\ g = [fs EXCEPT !.images = t] /\ disk' = d
  BY <1>1, <1>2 DEF DiskWrite
<1>4. fs \in FileSystem /\ NamesKept(fs, 0, 0)
  BY DEF NamesInv, NamesKept
<1>5. /\ g \in FileSystem /\ g.images = t /\ g.node = fs.node /\ g.inodes = fs.inodes
  <2>1. t \in Seq(Image)
    BY <1>1
  <2> QED BY <1>3, <1>4, <2>1 DEF FileSystem
<1>6. On(fs)' = On(fs)
  <2>1. On(fs) = s[Len(s)]
    BY <1>1 DEF On, Last
  <2>2. On(fs)' = IF t = <<>> THEN d ELSE t[Len(t)]
    BY <1>3, <1>5 DEF On, Last
  <2> QED BY <1>2, <2>1, <2>2
<1>7. lost' = lost /\ calls' = calls /\ crashes' = crashes /\ torn' = torn /\ stale' \subseteq stale
  BY DEF DiskWrite
<1>8. NamesImages' = NamesImages
  BY <1>7 DEF NamesImages, NamesGood
<1>9. \A m \in Inode : /\ InUse(fs, m) => InUse(fs, m)'
                       /\ NamesHeld(fs, m)' = NamesHeld(fs, m) /\ LinksOf(fs, m)' = LinksOf(fs, m)
  BY <1>3, <1>5, <1>6 DEF InUse, NamesHeld, LinksOf
<1>10. NamesKept(fs, 0, 0)'
  <2>1. On(fs) \in NamesImages /\ On(fs).inodes = fs.inodes
    BY <1>4 DEF NamesKept
  <2>2. (\A m \in Inode \ {0} : InUse(fs, m))'
    BY <1>4, <1>9 DEF NamesKept
  <2>3. (\A m \in Inode \ lost : NamesHeld(fs, m) <= LinksOf(fs, m) + (IF m = 0 THEN 0 ELSE 0))'
    BY <1>4, <1>7, <1>9 DEF NamesKept
  <2>4. (fs \in FileSystem /\ fs.images \in Seq(NamesImages) /\ On(fs) \in NamesImages /\ On(fs).inodes = fs.inodes)'
    BY <1>2, <1>3, <1>5, <1>6, <1>8, <2>1
  <2> QED BY <2>2, <2>3, <2>4 DEF NamesKept
<1>11. TypeOK'
  BY <1>1, <1>2, <1>3, <1>5, <1>7 DEF NamesInv, TypeOK
<1>12. (disk \in NamesImages)'
  BY <1>2, <1>3, <1>8
<1> QED BY <1>10, <1>11, <1>12 DEF NamesInv

LEMMA MountedTyped ==
  ASSUME NEW d \in Image
  PROVE  /\ Mounted(d) \in FileSystem /\ Mounted(d).images = <<>> /\ Mounted(d).inodes = d.inodes /\ Mounted(d).blocks = d.blocks
         /\ Mounted(d).super = d.super /\ Mounted(d).groups = d.groups /\ \A n \in Inode : Mounted(d).node[n] = NoNode
<1>1. <<>> \in Seq(Image) /\ [n \in Inode |-> NoNode] \in [Inode -> Cached \cup {NoNode}]
  OBVIOUS
<1> QED BY <1>1 DEF Mounted, FileSystem, Image

LEMMA NamesCrash ==
  ASSUME NamesInv, Crash
  PROVE  NamesInv'
<1>1. disk' = disk /\ fs' = Mounted(disk) /\ calls' = calls
  BY DEF Crash
<1>2. disk \in Image /\ NamesGood(disk)
  BY DEF NamesInv, NamesImages
<1>3. /\ fs' \in FileSystem /\ fs'.images = <<>> /\ fs'.inodes = disk.inodes /\ \A n \in Inode : fs'.node[n] = NoNode
  BY <1>1, <1>2, MountedTyped
<1>4. lost' = lost \cup {n \in Inode : Cardinality(NamesOf(disk, n)) > disk.table[n].links}
  BY DEF Crash
<1>5. (disk \in NamesImages)'
  BY <1>1, <1>2, <1>4 DEF NamesImages, NamesGood
<1>6. On(fs)' = disk
  BY <1>1, <1>3 DEF On
<1>7. ASSUME NEW m \in Inode \ lost'
      PROVE  (NamesHeld(fs, m) <= LinksOf(fs, m) + 0)'
  <2>1. ~(Cardinality(NamesOf(disk, m)) > disk.table[m].links)
    BY <1>4
  <2>2. disk.table[m].links \in Int /\ Cardinality(NamesOf(disk, m)) \in Nat
    <3>1. PICK saved \in Saved : saved = disk.table[m]
      BY <1>2 DEF Image
    <3> QED BY <3>1, NamesCounted DEF Saved
  <2>3. NamesHeld(fs, m)' = Cardinality(NamesOf(disk, m)) + 0 /\ LinksOf(fs, m)' = disk.table[m].links
    BY <1>3, <1>6 DEF NamesHeld, LinksOf
  <2> QED BY <2>1, <2>2, <2>3
<1>8. \A m \in Inode : InUse(fs, m)'
  BY <1>3 DEF InUse
<1>9. (fs.images \in Seq(NamesImages))'
  BY <1>3
<1>10. NamesKept(fs, 0, 0)'
  BY <1>1, <1>3, <1>5, <1>6, <1>7, <1>8, <1>9 DEF NamesKept
<1>11. TypeOK'
  <2>1. crashes \in Nat /\ torn \in BOOLEAN /\ lost \subseteq Inode /\ stale \subseteq Inode /\ calls \in Nat
    BY DEF NamesInv, TypeOK
  <2>2. crashes' = crashes + 1 /\ torn' \in BOOLEAN /\ stale' \subseteq Inode
    BY <2>1 DEF Crash
  <2> QED BY <1>1, <1>2, <1>3, <1>4, <2>1, <2>2 DEF TypeOK
<1> QED BY <1>5, <1>10, <1>11 DEF NamesInv

LEMMA NamesStep ==
  ASSUME Aligned, NamesInv, [Next]_vars
  PROVE  NamesInv'
<1>1. CASE UNCHANGED vars
  BY <1>1 DEF vars, NamesInv, TypeOK, NamesKept, NamesHeld, LinksOf, On, NamesOf, InUse, NamesImages, NamesGood
<1>2. ASSUME NEW name \in Names, Create(name)
      PROVE  NamesInv'
  BY <1>2, NamesCreate
<1>3. ASSUME NEW name \in Names, Unlink(name)
      PROVE  NamesInv'
  BY <1>3, NamesUnlink
<1>4. ASSUME NEW name \in Names, Open(name)
      PROVE  NamesInv'
  BY <1>4, NamesOpen
<1>5. ASSUME NEW name \in Names, OpenTruncate(name)
      PROVE  NamesInv'
  BY <1>5, NamesOpenTruncate
<1>6. ASSUME NEW name \in Names, NEW old \in Names, Link(old, name)
      PROVE  NamesInv'
  BY <1>6, NamesLink
<1>7. ASSUME NEW n \in Inode, Close(n)
      PROVE  NamesInv'
  BY <1>7, NamesClose
<1>8. ASSUME NEW n \in Inode, NEW i \in 0 .. Direct + PerIndex - 1,
             WriteFull(n, i) \/ WriteDirect(n, i) \/ WriteIndexed(n, i) \/ WriteNewIndex(n, i)
      PROVE  NamesInv'
  BY <1>8, NamesWriteFull, NamesWriteDirect, NamesWriteIndexed, NamesWriteNewIndex
<1>9. CASE DiskWrite
  BY <1>9, NamesDiskWrite
<1>10. CASE Crash
  BY <1>10, NamesCrash
<1> QED BY <1>1, <1>2, <1>3, <1>4, <1>5, <1>6, <1>7, <1>8, <1>9, <1>10 DEF Next

LEMMA FormattedTyped ==
  /\ Formatted \in Image
  /\ Formatted.blocks = Fixed /\ Formatted.inodes = FixedInodes
  /\ \A n \in Inode : Formatted.table[n] = EmptyInode
  /\ \A name \in Names : Formatted.names[name] = 0
  /\ Formatted.super = SuperOf(Fixed, FixedInodes) /\ Formatted.groups = GroupsOf(Fixed, FixedInodes)
<1>1. IsFiniteSet(Block) /\ IsFiniteSet(Inode) /\ Block \subseteq Int /\ Inode \subseteq Int
  <2>1. PICK p \in Nat, q \in Nat : p = Groups * PerGroup /\ q = Groups * InodesPerGroup
    BY Sizes
  <2>2. IsFiniteSet(1 .. p) /\ IsFiniteSet(1 .. q)
    <3>1. 1 \in Int /\ p \in Int /\ q \in Int
      OBVIOUS
    <3> QED BY <3>1, FS_Interval
  <2> QED BY <2>1, <2>2 DEF Block, Inode
<1>2. \A S, T : IsFiniteSet(S) => Free(T, S) \in Nat
  <2>1. ASSUME NEW S, NEW T, IsFiniteSet(S)
        PROVE  Free(T, S) \in Nat
    <3>1. PICK U : U = S \ T
      OBVIOUS
    <3>2. IsFiniteSet(U)
      BY <2>1, <3>1, FS_Subset
    <3> QED BY <3>1, <3>2, FS_CardinalityType DEF Free
  <2> QED BY <2>1
<1>3. SuperOf(Fixed, FixedInodes) \in Counts
  BY <1>1, <1>2 DEF SuperOf, Counts
<1>4. GroupsOf(Fixed, FixedInodes) \in [Group -> Counts]
  <2>1. ASSUME NEW g \in Group
        PROVE  IsFiniteSet(In(Block, g, PerGroup)) /\ IsFiniteSet(In(Inode, g, InodesPerGroup))
    <3>1. In(Block, g, PerGroup) \subseteq Block /\ In(Inode, g, InodesPerGroup) \subseteq Inode
      BY DEF In
    <3> QED BY <3>1, <1>1, FS_Subset
  <2> QED BY <2>1, <1>2 DEF GroupsOf, Counts
<1>5. EmptyInode \in Saved
  <2>1. 0 \in Pointer /\ 0 \in Int
    BY DEF Pointer
  <2>2. [i \in 0 .. Direct - 1 |-> 0] \in [0 .. Direct - 1 -> Pointer]
    BY <2>1
  <2> QED BY <2>1, <2>2 DEF EmptyInode, Saved
<1>6. /\ [n \in Inode |-> EmptyInode] \in [Inode -> Saved]
      /\ [name \in Names |-> 0] \in [Names -> Inode \cup {0}]
      /\ [b \in Block |-> NoBlocks] \in [Block -> [0 .. PerIndex - 1 -> Pointer]]
  BY <1>5, NoBlocksTyped
<1>7. PICK sup \in Counts, grp \in [Group -> Counts] : sup = SuperOf(Fixed, FixedInodes) /\ grp = GroupsOf(Fixed, FixedInodes)
  BY <1>3, <1>4
<1>8. PICK table \in [Inode -> Saved], names \in [Names -> Inode \cup {0}], index \in [Block -> [0 .. PerIndex - 1 -> Pointer]] :
        table = [n \in Inode |-> EmptyInode] /\ names = [name \in Names |-> 0] /\ index = [b \in Block |-> NoBlocks]
  BY <1>6
<1>9. Formatted = [blocks |-> Fixed, inodes |-> FixedInodes, super |-> sup, groups |-> grp, table |-> table, names |-> names, index |-> index]
  BY <1>7, <1>8 DEF Formatted
<1>10. Fixed \subseteq Block /\ FixedInodes \subseteq Inode
  BY Ext2Assumption
<1> QED BY <1>7, <1>8, <1>9, <1>10 DEF Image

LEMMA NamesInit ==
  ASSUME Init
  PROVE  NamesInv
<1>1. disk = Formatted /\ fs = Mounted(disk) /\ calls = 0 /\ crashes = 0 /\ torn = FALSE /\ lost = {} /\ stale = {}
  BY DEF Init
<1>2. disk \in Image /\ disk.inodes = FixedInodes /\ \A name \in Names : disk.names[name] = 0
  BY <1>1, FormattedTyped
<1>3. /\ fs \in FileSystem /\ fs.images = <<>> /\ fs.inodes = disk.inodes /\ \A n \in Inode : fs.node[n] = NoNode
  BY <1>1, <1>2, MountedTyped
<1>4. On(fs) = disk
  BY <1>3 DEF On
<1>5. 0 \notin Inode /\ 0 \notin FixedInodes
  BY Sizes, Ext2Assumption
<1>6. disk \in NamesImages
  BY <1>2, <1>5 DEF NamesImages, NamesGood
<1>7. ASSUME NEW m \in Inode
      PROVE  NamesHeld(fs, m) <= LinksOf(fs, m) + 0
  <2>1. NamesOf(disk, m) = {}
    BY <1>2, <1>5 DEF NamesOf
  <2>2. NamesHeld(fs, m) = 0 + 0
    BY <1>3, <1>4, <2>1, FS_EmptySet DEF NamesHeld
  <2>3. disk.table[m] = EmptyInode
    BY <1>1, FormattedTyped
  <2>4. LinksOf(fs, m) = 0
    BY <1>3, <1>4, <2>3 DEF LinksOf, EmptyInode
  <2> QED BY <2>2, <2>4
<1>8. \A m \in Inode : InUse(fs, m)
  BY <1>3 DEF InUse
<1>9. fs.images \in Seq(NamesImages)
  BY <1>3
<1>10. NamesKept(fs, 0, 0)
  BY <1>3, <1>4, <1>6, <1>7, <1>8, <1>9 DEF NamesKept
<1>11. TypeOK
  BY <1>1, <1>2, <1>3 DEF TypeOK
<1> QED BY <1>6, <1>10, <1>11 DEF NamesInv

(* The state of the file system and the disk is of its type: flushing,     *)
(* truncation and the release of blocks leave block numbers and counts in  *)
(* every field of the superblock, the inodes and the index blocks.         *)
THEOREM TypesOfExt2 ==
  ASSUME Aligned
  PROVE  Spec => []TypeOK
<1>1. Init => NamesInv
  BY NamesInit
<1>2. NamesInv /\ [Next]_vars => NamesInv'
  BY NamesStep
<1>3. NamesInv => TypeOK
  BY DEF NamesInv
<1> QED BY <1>1, <1>2, <1>3, PTL DEF Spec

(* A name on disk never leads to a free inode, however often and wherever  *)
(* between two writes the power goes: link and create write the name after *)
(* the inode is taken, unlink takes the name away before the inode is free. *)
THEOREM NamesStayLive ==
  ASSUME Aligned
  PROVE  Spec => []NamesLive
<1>1. Init => NamesInv
  BY NamesInit
<1>2. NamesInv /\ [Next]_vars => NamesInv'
  BY NamesStep
<1>3. NamesInv => NamesLive
  BY DEF NamesInv, NamesImages, NamesGood, NamesLive
<1> QED BY <1>1, <1>2, <1>3, PTL DEF Spec

-----------------------------------------------------------------------------
(* Owners.  Every block of an inode, in memory or in the table, knows who  *)
(* owns it and in which place, -1 for the spare ones: who[b] and place[b]  *)
(* are witnesses of it.                                                    *)
PlacesOwned(inode, index, n, B, who, place) ==
  \A p \in Place :
    BlockAt(inode, index, p) # 0 =>
      /\ BlockAt(inode, index, p) \in B \ Fixed
      /\ who[BlockAt(inode, index, p)] = n /\ place[BlockAt(inode, index, p)] = p
SpareOwned(s, n, B, who, place) ==
  /\ \A i \in 1 .. Len(s) : s[i] \in B \ Fixed /\ who[s[i]] = n /\ place[s[i]] = -1
  /\ \A i, j \in 1 .. Len(s) : s[i] = s[j] => i = j

(* What is saved of an inode is in the inode, or is empty.                 *)
IsPart(saved, inode) ==
  /\ \A i \in 0 .. Direct - 1 : saved.direct[i] = 0 \/ saved.direct[i] = inode.direct[i]
  /\ saved.index = 0 \/ saved.index = inode.index

(* The inodes whose entry in the table is still the one that a restart     *)
(* found to be stale.                                                      *)
Skipped(f) == {n \in stale : On(f).table[n] = disk.table[n]}

InodeOwned(f, n, who, place) ==
  /\ f.node[n] # NoNode =>
       /\ PlacesOwned(f.node[n], On(f).index, n, f.blocks, who, place)
       /\ SpareOwned(f.node[n].spare, n, f.blocks, who, place)
       /\ n \in f.inodes /\ n \notin Skipped(f) => IsPart(On(f).table[n], f.node[n])
  /\ f.node[n] = NoNode /\ n \in f.inodes =>
       n \notin Skipped(f) /\ PlacesOwned(On(f).table[n], On(f).index, n, f.blocks, who, place)
  /\ n \notin f.inodes /\ n \notin Skipped(f) => IsPart(On(f).table[n], EmptyInode)

(* The images of a call before it saves an inode, which is its last write. *)
DiskOwned(d, S) ==
  \E who, place : \A n \in d.inodes \ S : PlacesOwned(d.table[n], d.index, n, d.blocks, who, place)
DiskImages == {d \in Image : d.table = disk.table /\ Fixed \subseteq d.blocks /\ DiskOwned(d, stale)}

Flushed(f) ==
  On(f).blocks = f.blocks /\ On(f).inodes = f.inodes /\ On(f).super = f.super /\ On(f).groups = f.groups
Counted(f) ==
  ~torn => f.super = SuperOf(f.blocks, f.inodes) /\ f.groups = GroupsOf(f.blocks, f.inodes)
Unsaved(f) == f.images \in Seq(DiskImages) /\ On(f).table = disk.table

(* Of the inode x nothing is said.                                         *)
Owned(f, x, who, place) ==
  /\ f \in FileSystem /\ Fixed \subseteq f.blocks /\ Flushed(f) /\ Counted(f)
  /\ \A i \in 1 .. Len(f.images) - 1 : f.images[i] \in DiskImages
  /\ \A n \in Inode \ {x} : InodeOwned(f, n, who, place)

LEMMA PlacesKept ==
  ASSUME NEW inode, NEW I, NEW J, NEW n, NEW B, NEW C, NEW who, NEW place, NEW who2, NEW place2,
         PlacesOwned(inode, I, n, B, who, place),
         \A b \in B \ Fixed : who[b] = n /\ place[b] \in Place => b \in C /\ who2[b] = n /\ place2[b] = place[b],
         \A b \in B \ Fixed : who[b] = n /\ place[b] = Direct + PerIndex => J[b] = I[b]
  PROVE  /\ \A p \in Place : BlockAt(inode, J, p) = BlockAt(inode, I, p)
         /\ PlacesOwned(inode, J, n, C, who2, place2)
<1>1. /\ Direct + PerIndex \in Place /\ ~(Direct + PerIndex < Direct) /\ ~(Direct + PerIndex < Direct + PerIndex)
  BY Sizes DEF Place
<1>2. CASE inode.index = 0
  <2>1. \A p \in Place : BlockAt(inode, J, p) = BlockAt(inode, I, p)
    BY <1>2 DEF BlockAt
  <2> QED BY <2>1 DEF PlacesOwned
<1>3. CASE inode.index # 0
  <2>1. BlockAt(inode, I, Direct + PerIndex) = inode.index
    BY <1>1, <1>3 DEF BlockAt
  <2>2. inode.index \in B \ Fixed /\ who[inode.index] = n /\ place[inode.index] = Direct + PerIndex
    BY <1>1, <1>3, <2>1 DEF PlacesOwned
  <2>3. J[inode.index] = I[inode.index]
    BY <2>2
  <2>4. \A p \in Place : BlockAt(inode, J, p) = BlockAt(inode, I, p)
    BY <2>3 DEF BlockAt
  <2> QED BY <2>4 DEF PlacesOwned
<1> QED BY <1>2, <1>3

LEMMA SpareKept ==
  ASSUME NEW s, NEW n, NEW B, NEW C, NEW who, NEW place, NEW who2, NEW place2,
         SpareOwned(s, n, B, who, place),
         \A b \in B \ Fixed : who[b] = n /\ place[b] = -1 => b \in C /\ who2[b] = n /\ place2[b] = -1
  PROVE  SpareOwned(s, n, C, who2, place2)
BY DEF SpareOwned

LEMMA InodeKept ==
  ASSUME NEW f, NEW n, NEW g, NEW who, NEW place, NEW who2, NEW place2, InodeOwned(f, n, who, place),
         g.node[n] = f.node[n], n \in g.inodes <=> n \in f.inodes, On(g).table[n] = On(f).table[n],
         \A b \in f.blocks \ Fixed :
           who[b] = n => /\ b \in g.blocks /\ who2[b] = n /\ place2[b] = place[b]
                         /\ place[b] = Direct + PerIndex => On(g).index[b] = On(f).index[b]
  PROVE  InodeOwned(g, n, who2, place2)
<1>1. n \in Skipped(g) <=> n \in Skipped(f)
  BY DEF Skipped
<1>2. \A inode : PlacesOwned(inode, On(f).index, n, f.blocks, who, place) => PlacesOwned(inode, On(g).index, n, g.blocks, who2, place2)
  BY PlacesKept
<1>3. \A s : SpareOwned(s, n, f.blocks, who, place) => SpareOwned(s, n, g.blocks, who2, place2)
  BY SpareKept
<1> QED BY <1>1, <1>2, <1>3 DEF InodeOwned

LEMMA PartPlaces ==
  ASSUME NEW c, NEW e, NEW I, NEW n, NEW B, NEW who, NEW place, IsPart(c, e), PlacesOwned(e, I, n, B, who, place)
  PROVE  PlacesOwned(c, I, n, B, who, place)
<1>1. ASSUME NEW p \in Place
      PROVE  BlockAt(c, I, p) = 0 \/ BlockAt(c, I, p) = BlockAt(e, I, p)
  <2>1. CASE p < Direct
    <3>1. p \in 0 .. Direct - 1
      BY <2>1, Sizes DEF Place
    <3> QED BY <2>1, <3>1 DEF IsPart, BlockAt
  <2>2. CASE ~(p < Direct)
    BY <2>2 DEF IsPart, BlockAt
  <2> QED BY <2>1, <2>2
<1> QED BY <1>1 DEF PlacesOwned

LEMMA EmptyOwned ==
  ASSUME NEW c, NEW I, NEW n, NEW B, NEW who, NEW place, IsPart(c, EmptyInode)
  PROVE  PlacesOwned(c, I, n, B, who, place)
<1>1. ASSUME NEW p \in Place
      PROVE  BlockAt(c, I, p) = 0
  <2>1. EmptyInode.index = 0
    BY DEF EmptyInode
  <2>2. c.index = 0
    BY <2>1 DEF IsPart
  <2>3. CASE p < Direct
    <3>1. p \in 0 .. Direct - 1
      BY <2>3, Sizes DEF Place
    <3> QED BY <2>3, <3>1, EmptyTyped DEF IsPart, BlockAt
  <2> QED BY <2>2, <2>3 DEF BlockAt
<1> QED BY <1>1 DEF PlacesOwned

(* So does every entry of the table, but the stale ones.                   *)
LEMMA TableOwned ==
  ASSUME NEW f, NEW x, NEW who, NEW place, Owned(f, x, who, place), NEW n \in f.inodes, n \in Inode, n # x, n \notin Skipped(f)
  PROVE  PlacesOwned(On(f).table[n], On(f).index, n, f.blocks, who, place)
<1>1. InodeOwned(f, n, who, place)
  BY DEF Owned
<1>2. CASE f.node[n] = NoNode
  BY <1>1, <1>2 DEF InodeOwned
<1>3. CASE f.node[n] # NoNode
  BY <1>1, <1>3, PartPlaces DEF InodeOwned
<1> QED BY <1>2, <1>3

LEMMA ImagesCountFree == CountFree(DiskImages)
<1>1. ASSUME NEW d \in DiskImages, NEW e \in Image, e.table = d.table, e.blocks = d.blocks, e.inodes = d.inodes, e.index = d.index
      PROVE  e \in DiskImages
  BY <1>1 DEF DiskImages, DiskOwned
<1>2. ASSUME NEW d \in DiskImages, NEW c \in Counts
      PROVE  [d EXCEPT !.super = c] \in DiskImages
  <2>1. d \in Image
    BY DEF DiskImages
  <2>2. PICK e : e = [d EXCEPT !.super = c]
    OBVIOUS
  <2>3. e \in Image /\ e.table = d.table /\ e.blocks = d.blocks /\ e.inodes = d.inodes /\ e.index = d.index
    BY <2>1, <2>2 DEF Image
  <2> QED BY <1>1, <2>2, <2>3
<1>3. ASSUME NEW d \in DiskImages, NEW c \in [Group -> Counts]
      PROVE  [d EXCEPT !.groups = c] \in DiskImages
  <2>1. d \in Image
    BY DEF DiskImages
  <2>2. PICK e : e = [d EXCEPT !.groups = c]
    OBVIOUS
  <2>3. e \in Image /\ e.table = d.table /\ e.blocks = d.blocks /\ e.inodes = d.inodes /\ e.index = d.index
    BY <2>1, <2>2 DEF Image
  <2> QED BY <1>1, <2>2, <2>3
<1>4. DiskImages \subseteq Image
  BY DEF DiskImages
<1> QED BY <1>2, <1>3, <1>4 DEF CountFree

(* The blocks of f are written, those of the others are forgotten.         *)
AreSaved(f, g) ==
  /\ g \in FileSystem /\ g.node = f.node /\ g.blocks = f.blocks /\ g.inodes = f.inodes
  /\ g.super = f.super /\ g.groups = f.groups /\ Unsaved(g) /\ Flushed(g)
  /\ On(g).table = On(f).table /\ On(g).names = On(f).names
  /\ \A b \in f.blocks : On(g).index[b] = On(f).index[b]

LEMMA SeqsAdded ==
  ASSUME NEW P, NEW f, f.images \in Seq(P), NEW g, NEW image, Adds(f, g, image, P)
  PROVE  g.images \in Seq(P)
<1>1. PICK more \in Seq(P) : g.images = f.images \o more
  BY DEF Adds
<1> QED BY <1>1

LEMMA BlocksAreSaved ==
  ASSUME disk \in Image, NEW f \in FileSystem, Unsaved(f), On(f).inodes = f.inodes,
         Fixed \subseteq f.blocks, Fixed \subseteq On(f).blocks, NEW who, NEW place,
         \A n \in f.inodes \ stale : PlacesOwned(On(f).table[n], On(f).index, n, f.blocks \cap On(f).blocks, who, place)
  PROVE  AreSaved(f, SaveSuperblock(FlushBlocks(f)))
<1>1. On(f) \in Image /\ f.blocks \subseteq Block
  BY OnImage DEF FileSystem
<1>2. ASSUME NEW g \in 0 .. Groups
      PROVE  PartBlocks(f, g) \in DiskImages
  <2>1. PICK d \in Image : d = PartBlocks(f, g)
    BY PartTyped
  <2>2. /\ d.table = On(f).table /\ d.inodes = On(f).inodes
        /\ d.blocks = {b \in Block : b \in (IF GroupOf(b, PerGroup) < g THEN f.blocks ELSE On(f).blocks)}
        /\ d.index = [b \in Block |-> IF GroupOf(b, PerGroup) < g /\ b \notin f.blocks THEN NoBlocks ELSE On(f).index[b]]
    BY <2>1, <1>1 DEF PartBlocks, Image
  <2>3. f.blocks \cap On(f).blocks \subseteq d.blocks
    BY <2>2, <1>1
  <2>4. \A b \in f.blocks : d.index[b] = On(f).index[b]
    BY <2>2, <1>1
  <2>5. ASSUME NEW n \in d.inodes \ stale
        PROVE  PlacesOwned(d.table[n], d.index, n, d.blocks, who, place)
    <3>1. PlacesOwned(d.table[n], On(f).index, n, f.blocks \cap On(f).blocks, who, place)
      BY <2>2, <2>5
    <3>2. \A b \in (f.blocks \cap On(f).blocks) \ Fixed : b \in d.blocks /\ d.index[b] = On(f).index[b]
      BY <2>3, <2>4
    <3> QED BY <3>1, <3>2, PlacesKept
  <2>6. d.table = disk.table /\ Fixed \subseteq d.blocks
    BY <2>2, <2>3 DEF Unsaved
  <2> QED BY <2>1, <2>5, <2>6 DEF DiskImages, DiskOwned
<1>3. PICK g : g = SaveSuperblock(FlushBlocks(f))
  OBVIOUS
<1>4. PICK image \in DiskImages : Adds(f, g, image, DiskImages) /\ WithBlocks(f, image)
  BY <1>2, <1>3, ImagesCountFree, BlocksSaved
<1>5. /\ g \in FileSystem /\ g.node = f.node /\ g.blocks = f.blocks /\ g.inodes = f.inodes
      /\ g.super = f.super /\ g.groups = f.groups /\ On(g) = image
  BY <1>4 DEF Adds
<1>6. g.images \in Seq(DiskImages)
  BY <1>4, SeqsAdded DEF Unsaved
<1>7. /\ image.table = On(f).table /\ image.names = On(f).names /\ image.blocks = f.blocks /\ image.inodes = f.inodes
      /\ image.super = f.super /\ image.groups = f.groups /\ \A b \in f.blocks : image.index[b] = On(f).index[b]
  BY <1>1, <1>4 DEF WithBlocks
<1> QED BY <1>3, <1>5, <1>6, <1>7 DEF AreSaved, Unsaved, Flushed

-----------------------------------------------------------------------------
(* The counts.                                                             *)
LEMMA FreeTaken ==
  ASSUME NEW all, IsFiniteSet(all), NEW M, NEW u, u \cap M = {}
  PROVE  /\ Free(M, all) \in Nat /\ Cardinality(all \cap u) \in Nat
         /\ Free(M \cup u, all) = Free(M, all) - Cardinality(all \cap u)
<1>1. all \ (M \cup u) = (all \ M) \ u /\ (all \ M) \cap u = all \cap u
  OBVIOUS
<1>2. IsFiniteSet(all \ M) /\ IsFiniteSet(all \cap u)
  BY FS_Difference, FS_Intersection
<1>3. Cardinality((all \ M) \ u) = Cardinality(all \ M) - Cardinality((all \ M) \cap u)
  BY <1>2, FS_Difference
<1>4. Cardinality(all \ M) \in Nat /\ Cardinality(all \cap u) \in Nat
  BY <1>2, FS_CardinalityType
<1> QED BY <1>1, <1>3, <1>4 DEF Free

LEMMA GroupsFinite ==
  /\ IsFiniteSet(Block) /\ IsFiniteSet(Inode)
  /\ \A h, m : IsFiniteSet(In(Block, h, m)) /\ IsFiniteSet(In(Inode, h, m))
<1>1. Groups * PerGroup \in Int /\ Groups * InodesPerGroup \in Int
  BY Sizes
<1>2. IsFiniteSet(Block) /\ IsFiniteSet(Inode)
  BY <1>1, FS_Interval DEF Block, Inode
<1>3. ASSUME NEW h, NEW m
      PROVE  IsFiniteSet(In(Block, h, m)) /\ IsFiniteSet(In(Inode, h, m))
  <2>1. In(Block, h, m) \in SUBSET Block /\ In(Inode, h, m) \in SUBSET Inode
    BY DEF In
  <2> QED BY <1>2, <2>1, FS_Subset
<1> QED BY <1>2, <1>3

AreCounted(f) ==
  /\ f.super.blocks = Free(f.blocks, Block) /\ f.super.inodes = Free(f.inodes, Inode)
  /\ \A h \in Group : /\ f.groups[h].blocks = Free(f.blocks, In(Block, h, PerGroup))
                      /\ f.groups[h].inodes = Free(f.inodes, In(Inode, h, InodesPerGroup))
LEMMA CountedFields ==
  ASSUME NEW f \in FileSystem
  PROVE  Counted(f) <=> (~torn => AreCounted(f))
<1>1. f.super \in Counts /\ f.groups \in [Group -> Counts]
  BY DEF FileSystem
<1>2. f.super = SuperOf(f.blocks, f.inodes) <=> f.super.blocks = Free(f.blocks, Block) /\ f.super.inodes = Free(f.inodes, Inode)
  BY <1>1 DEF Counts, SuperOf
<1>3. f.groups = GroupsOf(f.blocks, f.inodes) <=>
        \A h \in Group : /\ f.groups[h].blocks = Free(f.blocks, In(Block, h, PerGroup))
                         /\ f.groups[h].inodes = Free(f.inodes, In(Inode, h, InodesPerGroup))
  <2>1. \A h \in Group : f.groups[h] = [blocks |-> f.groups[h].blocks, inodes |-> f.groups[h].inodes]
    BY <1>1 DEF Counts
  <2> QED BY <1>1, <2>1 DEF GroupsOf
<1> QED BY <1>2, <1>3 DEF Counted, AreCounted

LEMMA CountedAllocated ==
  ASSUME NEW f \in FileSystem, Counted(f), NEW n, NEW u, u \cap f.blocks = {}, NEW lo, NEW k, NEW h, IsUnit(u, lo, k, h),
         NEW g, IsAllocated(f, g, n, u)
  PROVE  Counted(g)
<1>1. SUFFICES ASSUME ~torn
               PROVE  AreCounted(g)
  BY CountedFields DEF IsAllocated
<1>2. AreCounted(f)
  BY <1>1, CountedFields
<1>3. Cardinality(u) = k /\ GroupOf(Min(u), PerGroup) = h /\ u \subseteq Block
  <2>1. Cardinality(u) = k /\ GroupOf(Min(u), PerGroup) = h
    BY UnitMin
  <2> QED BY <2>1 DEF IsUnit
<1>4. g.super.blocks = Free(g.blocks, Block) /\ g.super.inodes = Free(g.inodes, Inode)
  <2>1. Free(f.blocks \cup u, Block) = Free(f.blocks, Block) - Cardinality(Block \cap u)
    BY FreeTaken, GroupsFinite
  <2>2. Block \cap u = u
    BY <1>3
  <2> QED BY <1>2, <2>1, <2>2 DEF IsAllocated, AreCounted
<1>5. ASSUME NEW i \in Group
      PROVE  /\ g.groups[i].blocks = Free(g.blocks, In(Block, i, PerGroup))
             /\ g.groups[i].inodes = Free(g.inodes, In(Inode, i, InodesPerGroup))
  <2>1. /\ Free(f.blocks \cup u, In(Block, i, PerGroup)) = Free(f.blocks, In(Block, i, PerGroup)) - Cardinality(In(Block, i, PerGroup) \cap u)
        /\ Free(f.blocks, In(Block, i, PerGroup)) \in Nat
    BY FreeTaken, GroupsFinite
  <2>2. CASE i = h
    <3>1. In(Block, i, PerGroup) \cap u = u
      BY <2>2 DEF IsUnit, In
    <3> QED BY <1>2, <1>3, <2>1, <2>2, <3>1 DEF IsAllocated, AreCounted
  <2>3. CASE i # h
    <3>1. In(Block, i, PerGroup) \cap u = {}
      BY <2>3 DEF IsUnit, In
    <3>2. Cardinality({}) = 0
      BY FS_EmptySet
    <3>3. Free(g.blocks, In(Block, i, PerGroup)) = Free(f.blocks, In(Block, i, PerGroup))
      <4>1. Cardinality(In(Block, i, PerGroup) \cap u) = 0
        BY <3>1, <3>2, Zenon
      <4>2. g.blocks = f.blocks \cup u
        BY DEF IsAllocated
      <4> QED BY <2>1, <4>1, <4>2
    <3> QED BY <1>2, <1>3, <2>3, <3>3 DEF IsAllocated, AreCounted
  <2> QED BY <2>2, <2>3
<1> QED BY <1>4, <1>5 DEF AreCounted

LEMMA CountedInodes ==
  ASSUME NEW f \in FileSystem, Counted(f), NEW n \in Inode, NEW I, NEW more, NEW g, IsInodes(f, g, n, I, more),
         \/ n \notin f.inodes /\ I = f.inodes \cup {n} /\ more = -1
         \/ n \in f.inodes /\ I = f.inodes \ {n} /\ more = 1
  PROVE  Counted(g)
<1>1. SUFFICES ASSUME ~torn
               PROVE  AreCounted(g)
  BY CountedFields DEF IsInodes
<1>2. AreCounted(f)
  BY <1>1, CountedFields
<1>3. ASSUME NEW all, IsFiniteSet(all)
      PROVE  Free(I, all) = Free(f.inodes, all) + (IF n \in all THEN more ELSE 0)
  <2>1. Cardinality(all \cap {n}) = IF n \in all THEN 1 ELSE 0
    <3>1. all \cap {n} = IF n \in all THEN {n} ELSE {}
      OBVIOUS
    <3> QED BY <3>1, FS_Singleton, FS_EmptySet
  <2>2. CASE n \notin f.inodes /\ I = f.inodes \cup {n} /\ more = -1
    <3>1. {n} \cap f.inodes = {}
      BY <2>2
    <3>2. Free(f.inodes \cup {n}, all) = Free(f.inodes, all) - Cardinality(all \cap {n}) /\ Free(f.inodes, all) \in Nat
      BY <1>3, <3>1, FreeTaken
    <3> QED BY <2>1, <2>2, <3>2
  <2>3. CASE n \in f.inodes /\ I = f.inodes \ {n} /\ more = 1
    <3>1. {n} \cap I = {} /\ I \cup {n} = f.inodes
      BY <2>3
    <3>2. Free(I \cup {n}, all) = Free(I, all) - Cardinality(all \cap {n}) /\ Free(I, all) \in Nat
      BY <1>3, <3>1, FreeTaken
    <3>3. Free(f.inodes, all) = Free(I, all) - (IF n \in all THEN 1 ELSE 0)
      BY <2>1, <3>1, <3>2
    <3> QED BY <2>3, <3>2, <3>3
  <2> QED BY <2>2, <2>3
<1>4. g.super.blocks = Free(g.blocks, Block) /\ g.super.inodes = Free(g.inodes, Inode)
  BY <1>2, <1>3, GroupsFinite DEF IsInodes, AreCounted
<1>5. ASSUME NEW i \in Group
      PROVE  /\ g.groups[i].blocks = Free(g.blocks, In(Block, i, PerGroup))
             /\ g.groups[i].inodes = Free(g.inodes, In(Inode, i, InodesPerGroup))
  <2>1. n \in In(Inode, i, InodesPerGroup) <=> i = GroupOf(n, InodesPerGroup)
    BY DEF In
  <2>2. Free(I, In(Inode, i, InodesPerGroup)) =
          Free(f.inodes, In(Inode, i, InodesPerGroup)) + (IF n \in In(Inode, i, InodesPerGroup) THEN more ELSE 0)
    BY <1>3, GroupsFinite
  <2>3. Free(f.inodes, In(Inode, i, InodesPerGroup)) \in Nat
    <3>1. {} \cap f.inodes = {}
      OBVIOUS
    <3> QED BY <3>1, FreeTaken, GroupsFinite
  <2> QED BY <1>2, <2>1, <2>2, <2>3 DEF IsInodes, AreCounted
<1> QED BY <1>4, <1>5 DEF AreCounted

(* What is released is in use, and each block of it once.                  *)
LEMMA SequenceCount ==
  ASSUME NEW s \in Seq(Block), \A i, j \in 1 .. Len(s) : s[i] = s[j] => i = j, NEW all
  PROVE  Cardinality(all \cap ToSet(s)) = Cardinality({i \in DOMAIN s : s[i] \in all})
<1>1. DOMAIN s = 1 .. Len(s) /\ Len(s) \in Nat
  OBVIOUS
<1>2. PICK D : D = {i \in DOMAIN s : s[i] \in all}
  OBVIOUS
<1>3. IsFiniteSet(D)
  <2>1. IsFiniteSet(1 .. Len(s))
    BY <1>1, FS_Interval
  <2>2. D \in SUBSET (1 .. Len(s))
    BY <1>1, <1>2
  <2> QED BY <2>1, <2>2, FS_Subset
<1>4. PICK f : f = [i \in D |-> s[i]]
  OBVIOUS
<1>5. f \in Bijection(D, all \cap ToSet(s))
  <2>1. f \in [D -> all \cap ToSet(s)]
    BY <1>1, <1>2, <1>4 DEF ToSet
  <2>2. \A i, j \in D : f[i] = f[j] => i = j
    BY <1>1, <1>2, <1>4
  <2>3. \A b \in all \cap ToSet(s) : \E i \in D : f[i] = b
    BY <1>1, <1>2, <1>4 DEF ToSet
  <2> QED BY <2>1, <2>2, <2>3 DEF Bijection, Injection, Surjection, IsInjective
<1>6. Cardinality(all \cap ToSet(s)) = Cardinality(D)
  BY <1>3, <1>5, FS_Bijection DEF ExistsBijection
<1> QED BY <1>2, <1>6

LEMMA CountedReleased ==
  ASSUME NEW f \in FileSystem, Counted(f), NEW s \in Seq(Block), \A i, j \in 1 .. Len(s) : s[i] = s[j] => i = j,
         ToSet(s) \subseteq f.blocks, NEW g, IsReleased(f, g, s)
  PROVE  Counted(g)
<1>1. SUFFICES ASSUME ~torn
               PROVE  AreCounted(g)
  BY CountedFields DEF IsReleased, IsFreed
<1>2. AreCounted(f)
  BY <1>1, CountedFields
<1>3. g.blocks = f.blocks \ ToSet(s) /\ g.inodes = f.inodes
  BY DEF IsReleased, IsFreed
<1>4. ASSUME NEW all, IsFiniteSet(all)
      PROVE  /\ Free(g.blocks, all) = Free(f.blocks, all) + Cardinality({i \in DOMAIN s : s[i] \in all})
             /\ Free(f.blocks, all) \in Nat
  <2>1. ToSet(s) \cap g.blocks = {} /\ g.blocks \cup ToSet(s) = f.blocks
    BY <1>3
  <2>2. /\ Free(f.blocks, all) = Free(g.blocks, all) - Cardinality(all \cap ToSet(s))
        /\ Free(g.blocks, all) \in Nat /\ Cardinality(all \cap ToSet(s)) \in Nat
    <3>1. /\ Free(g.blocks \cup ToSet(s), all) = Free(g.blocks, all) - Cardinality(all \cap ToSet(s))
          /\ Free(g.blocks, all) \in Nat /\ Cardinality(all \cap ToSet(s)) \in Nat
      BY <1>4, <2>1, FreeTaken
    <3> QED BY <2>1, <3>1
  <2>3. Free(f.blocks, all) \in Nat
    <3>1. {} \cap f.blocks = {}
      OBVIOUS
    <3> QED BY <1>4, <3>1, FreeTaken
  <2>4. Cardinality(all \cap ToSet(s)) = Cardinality({i \in DOMAIN s : s[i] \in all})
    BY SequenceCount
  <2> QED BY <2>2, <2>3, <2>4
<1>5. g.super.blocks = Free(g.blocks, Block) /\ g.super.inodes = Free(g.inodes, Inode)
  <2>1. {i \in DOMAIN s : s[i] \in Block} = 1 .. Len(s) /\ Len(s) \in Nat
    OBVIOUS
  <2>2. Cardinality(1 .. Len(s)) = Len(s)
    BY <2>1, FS_Interval
  <2>3. Free(g.blocks, Block) = Free(f.blocks, Block) + Len(s)
    BY <1>4, <2>1, <2>2, GroupsFinite
  <2> QED BY <1>2, <1>3, <2>3 DEF IsReleased, IsFreed, AreCounted
<1>6. ASSUME NEW h \in Group
      PROVE  /\ g.groups[h].blocks = Free(g.blocks, In(Block, h, PerGroup))
             /\ g.groups[h].inodes = Free(g.inodes, In(Inode, h, InodesPerGroup))
  <2>1. {i \in DOMAIN s : s[i] \in In(Block, h, PerGroup)} = {i \in DOMAIN s : GroupOf(s[i], PerGroup) = h}
    BY DEF In
  <2>2. Free(g.blocks, In(Block, h, PerGroup)) =
          Free(f.blocks, In(Block, h, PerGroup)) + Cardinality({i \in DOMAIN s : GroupOf(s[i], PerGroup) = h})
    BY <1>4, <2>1, GroupsFinite
  <2>3. /\ g.groups[h].inodes = f.groups[h].inodes
        /\ g.groups[h].blocks = f.groups[h].blocks + Cardinality({i \in DOMAIN s : GroupOf(s[i], PerGroup) = h})
    BY DEF IsReleased, IsFreed
  <2> QED BY <1>2, <1>3, <2>2, <2>3 DEF AreCounted
<1> QED BY <1>5, <1>6 DEF AreCounted

-----------------------------------------------------------------------------
(* Steps of a call.                                                        *)
LEMMA OwnedSplit ==
  ASSUME NEW f, NEW n \in Inode, NEW who, NEW place
  PROVE  Owned(f, 0, who, place) <=> Owned(f, n, who, place) /\ InodeOwned(f, n, who, place)
<1>1. 0 \notin Inode
  BY Sizes
<1> QED BY <1>1 DEF Owned

LEMMA OwnedNode ==
  ASSUME NEW f, NEW x, NEW who, NEW place, Owned(f, x, who, place), NEW n \in Inode, x = 0 \/ x = n,
         NEW g, NEW node, IsNode(f, g, n, node), NEW who2, NEW place2,
         \A b \in f.blocks \ Fixed : who[b] # n => who2[b] = who[b] /\ place2[b] = place[b]
  PROVE  /\ Owned(g, n, who2, place2) /\ (Unsaved(f) => Unsaved(g))
         /\ On(g) = On(f) /\ Skipped(g) = Skipped(f) /\ g.blocks = f.blocks /\ g.inodes = f.inodes
<1>1. /\ g \in FileSystem /\ g.images = f.images /\ g.inodes = f.inodes /\ g.blocks = f.blocks
      /\ g.super = f.super /\ g.groups = f.groups /\ \A m \in Inode \ {n} : g.node[m] = f.node[m]
  BY DEF IsNode, Memory
<1>2. On(g) = On(f)
  BY <1>1, OnSame
<1>3. Skipped(g) = Skipped(f)
  BY <1>2 DEF Skipped
<1>4. ASSUME NEW m \in Inode \ {n}
      PROVE  InodeOwned(g, m, who2, place2)
  <2>1. m # x
    BY <1>4, Sizes
  <2>2. InodeOwned(f, m, who, place)
    BY <2>1 DEF Owned
  <2>3. \A b \in f.blocks \ Fixed :
           who[b] = m => /\ b \in g.blocks /\ who2[b] = m /\ place2[b] = place[b]
                         /\ place[b] = Direct + PerIndex => On(g).index[b] = On(f).index[b]
    BY <1>1, <1>2, <1>4
  <2> QED BY <1>1, <1>2, <2>2, <2>3, InodeKept
<1>5. Fixed \subseteq g.blocks /\ Flushed(g) /\ Counted(g) /\ \A i \in 1 .. Len(g.images) - 1 : g.images[i] \in DiskImages
  BY <1>1, <1>2 DEF Owned, Flushed, Counted
<1> QED BY <1>1, <1>2, <1>3, <1>4, <1>5 DEF Owned, Unsaved

LEMMA OwnedSaved ==
  ASSUME NEW f, NEW x, NEW who, NEW place, Owned(f, x, who, place), NEW n \in Inode, x = 0 \/ x = n,
         NEW g, g.images = f.images, \A m \in Inode \ {n} : g.node[m] = f.node[m], g.inodes = f.inodes,
         Fixed \subseteq g.blocks, Counted(g), NEW h, AreSaved(g, h), NEW who2, NEW place2,
         \A b \in f.blocks \ Fixed : who[b] # n => b \in g.blocks /\ who2[b] = who[b] /\ place2[b] = place[b]
  PROVE  Owned(h, n, who2, place2) /\ Unsaved(h) /\ On(h).table = On(f).table
<1>1. On(g) = On(f)
  BY OnSame
<1>2. /\ h \in FileSystem /\ h.node = g.node /\ h.blocks = g.blocks /\ h.inodes = f.inodes
      /\ h.super = g.super /\ h.groups = g.groups /\ Unsaved(h) /\ Flushed(h)
      /\ On(h).table = On(f).table /\ \A b \in g.blocks : On(h).index[b] = On(f).index[b]
  BY <1>1 DEF AreSaved
<1>3. ASSUME NEW m \in Inode \ {n}
      PROVE  InodeOwned(h, m, who2, place2)
  <2>1. m # x
    BY <1>3, Sizes
  <2>2. InodeOwned(f, m, who, place)
    BY <2>1 DEF Owned
  <2>3. \A b \in f.blocks \ Fixed :
           who[b] = m => /\ b \in h.blocks /\ who2[b] = m /\ place2[b] = place[b]
                         /\ place[b] = Direct + PerIndex => On(h).index[b] = On(f).index[b]
    BY <1>2, <1>3
  <2>4. h.node[m] = f.node[m]
    BY <1>2, <1>3
  <2> QED BY <1>2, <2>2, <2>3, <2>4, InodeKept
<1>4. \A i \in 1 .. Len(h.images) - 1 : h.images[i] \in DiskImages
  BY <1>2 DEF Unsaved
<1>5. Counted(h)
  BY <1>2 DEF Counted, AreSaved
<1> QED BY <1>2, <1>3, <1>4, <1>5 DEF Owned

LEMMA SkippedUnsaved ==
  ASSUME NEW f, Unsaved(f)
  PROVE  Skipped(f) = stale
BY DEF Skipped, Unsaved

IsSupplied(f, g, n, who, place, who2, place2) ==
  /\ Owned(g, 0, who2, place2) /\ Unsaved(g) /\ g.node[n] # NoNode /\ g.node[n].spare # <<>>
  /\ g.node[n].direct = f.node[n].direct /\ g.node[n].index = f.node[n].index
  /\ \A b \in f.blocks : b \in g.blocks /\ who2[b] = who[b] /\ place2[b] = place[b]

LEMMA OwnedSupplied ==
  ASSUME disk \in Image, NEW f, NEW who, NEW place, Owned(f, 0, who, place), Unsaved(f), NEW n \in Inode, f.node[n] # NoNode,
         ~NoSpace(f, n)
  PROVE  \E who2, place2 : IsSupplied(f, Supplied(f, n), n, who, place, who2, place2)
<1>1. CASE f.node[n].spare # <<>>
  <2>1. Supplied(f, n) = f
    BY <1>1 DEF Supplied
  <2>2. IsSupplied(f, Supplied(f, n), n, who, place, who, place)
    BY <1>1, <2>1 DEF IsSupplied
  <2> QED BY <2>2
<1>2. CASE f.node[n].spare = <<>>
  <2>1. Units(f) # {} /\ f \in FileSystem /\ Fixed \subseteq f.blocks /\ Flushed(f) /\ Counted(f) /\ f.blocks \subseteq Block
    BY <1>2 DEF NoSpace, Owned, FileSystem
  <2>2. PICK u \in Units(f) : /\ AllocateBlocks(f, n) = SaveSuperblock(FlushBlocks(Allocated(f, n, u)))
                              /\ IsAllocated(f, Allocated(f, n, u), n, u)
    BY <2>1, AllocateBlocksIs
  <2>3. PICK g, h : g = Allocated(f, n, u) /\ h = SaveSuperblock(FlushBlocks(g))
    OBVIOUS
  <2>4. IsAllocated(f, g, n, u) /\ Supplied(f, n) = h
    BY <1>2, <2>2, <2>3 DEF Supplied
  <2>5. u \cap f.blocks = {} /\ \E lo, k, i : IsUnit(u, lo, k, i)
    BY <2>1, UnitIs
  <2>6. PICK lo, k, i : IsUnit(u, lo, k, i)
    BY <2>5
  <2>7. Counted(g)
    BY <2>1, <2>4, <2>5, <2>6, CountedAllocated
  <2>8. /\ g \in FileSystem /\ g.blocks = f.blocks \cup u /\ g.inodes = f.inodes /\ g.images = f.images
        /\ NodeSet(f, g, n, [f.node[n] EXCEPT !.spare = InOrder(u)])
    BY <2>4 DEF IsAllocated
  <2>9. On(g) = On(f) /\ Unsaved(g)
    BY <2>8, OnSame DEF Unsaved
  <2>10. Fixed \subseteq g.blocks /\ Fixed \subseteq On(g).blocks /\ On(g).inodes = g.inodes /\ g.blocks \cap On(g).blocks = f.blocks
    BY <2>1, <2>8, <2>9 DEF Flushed
  <2>11. ASSUME NEW m \in g.inodes \ stale
         PROVE  PlacesOwned(On(g).table[m], On(g).index, m, g.blocks \cap On(g).blocks, who, place)
    <3>1. m \in f.inodes /\ m \in Inode /\ m # 0 /\ m \notin Skipped(f)
      BY <2>8, <2>11, SkippedUnsaved, Sizes DEF FileSystem
    <3> QED BY <2>9, <2>10, <3>1, TableOwned
  <2>12. AreSaved(g, h)
    BY <2>3, <2>8, <2>9, <2>10, <2>11, BlocksAreSaved
  <2>13. PICK who2, place2 : /\ who2 = [b \in Block |-> IF b \in u THEN n ELSE who[b]]
                             /\ place2 = [b \in Block |-> IF b \in u THEN -1 ELSE place[b]]
    OBVIOUS
  <2>14. \A b \in f.blocks : b \in g.blocks /\ who2[b] = who[b] /\ place2[b] = place[b]
    BY <2>1, <2>5, <2>8, <2>13
  <2>15. \A m \in Inode \ {n} : g.node[m] = f.node[m]
    BY <2>8 DEF NodeSet
  <2>16. Owned(h, n, who2, place2) /\ Unsaved(h) /\ On(h).table = On(f).table
    BY <2>7, <2>8, <2>10, <2>12, <2>14, <2>15, OwnedSaved
  <2>17. h.blocks = g.blocks /\ h.inodes = f.inodes /\ h.node = g.node /\ \A b \in f.blocks : On(h).index[b] = On(f).index[b]
    BY <2>8, <2>9, <2>12, <2>14 DEF AreSaved
  <2>18. /\ h.node[n] # NoNode /\ h.node[n].direct = f.node[n].direct /\ h.node[n].index = f.node[n].index
         /\ h.node[n].spare = InOrder(u)
    <3>1. PICK c \in Cached : c = f.node[n]
      BY <2>1, CachedIs
    <3>2. InOrder(u) \in Seq(Block)
      BY <2>6, InOrderIs
    <3>3. PICK e \in Cached : e = [c EXCEPT !.spare = InOrder(u)]
      BY <3>2, CachedChanges
    <3>4. e # NoNode /\ e.direct = c.direct /\ e.index = c.index /\ e.spare = InOrder(u)
      BY <3>3, NotNoNode DEF Cached
    <3> QED BY <2>8, <2>17, <3>1, <3>3, <3>4 DEF NodeSet
  <2>19. InodeOwned(f, n, who, place)
    BY OwnedSplit
  <2>20. PlacesOwned(h.node[n], On(h).index, n, h.blocks, who2, place2)
    <3>1. PlacesOwned(f.node[n], On(f).index, n, f.blocks, who, place)
      BY <2>19 DEF InodeOwned
    <3>2. PlacesOwned(f.node[n], On(h).index, n, h.blocks, who2, place2)
      BY <2>14, <2>17, <3>1, PlacesKept
    <3> QED BY <2>18, <3>2 DEF PlacesOwned, BlockAt
  <2>21. SpareOwned(h.node[n].spare, n, h.blocks, who2, place2)
    <3>1. /\ InOrder(u) \in Seq(Block) /\ Len(InOrder(u)) = k
          /\ \A j \in 1 .. k : InOrder(u)[j] \in u
          /\ \A j, l \in 1 .. k : InOrder(u)[j] = InOrder(u)[l] => j = l
      BY <2>6, InOrderIs
    <3>2. u \subseteq Block /\ u \cap Fixed = {} /\ u \subseteq h.blocks
      BY <2>1, <2>5, <2>6, <2>8, <2>17 DEF IsUnit
    <3>3. \A b \in u : who2[b] = n /\ place2[b] = -1
      BY <2>13, <3>2
    <3> QED BY <2>18, <3>1, <3>2, <3>3 DEF SpareOwned
  <2>22. InodeOwned(h, n, who2, place2)
    <3>1. Skipped(h) = Skipped(f)
      BY <2>16, SkippedUnsaved
    <3> QED BY <2>16, <2>17, <2>18, <2>19, <2>20, <2>21, <3>1 DEF InodeOwned, IsPart
  <2>23. Owned(h, 0, who2, place2)
    BY <2>16, <2>22, OwnedSplit
  <2>24. h.node[n].spare # <<>>
    BY <2>6, <2>18, InOrderIs
  <2> QED BY <2>4, <2>14, <2>16, <2>17, <2>18, <2>23, <2>24 DEF IsSupplied
<1> QED BY <1>1, <1>2

LEMMA OwnedCounts ==
  ASSUME NEW f, NEW who, NEW place, Owned(f, 0, who, place), NEW n \in Inode, f.node[n] # NoNode,
         NEW g, NEW node \in Cached, IsNode(f, g, n, node),
         node.direct = f.node[n].direct, node.index = f.node[n].index, node.spare = f.node[n].spare
  PROVE  Owned(g, 0, who, place) /\ (Unsaved(f) => Unsaved(g)) /\ g.node[n] # NoNode /\ On(g) = On(f) /\ g.inodes = f.inodes
<1>1. /\ Owned(g, n, who, place) /\ (Unsaved(f) => Unsaved(g))
      /\ On(g) = On(f) /\ Skipped(g) = Skipped(f) /\ g.blocks = f.blocks /\ g.inodes = f.inodes
  BY OwnedNode
<1>2. g.node[n] = node /\ node # NoNode
  BY NotNoNode DEF IsNode
<1>3. InodeOwned(f, n, who, place)
  BY OwnedSplit
<1>4. \A index : PlacesOwned(f.node[n], index, n, f.blocks, who, place) => PlacesOwned(node, index, n, f.blocks, who, place)
  BY DEF PlacesOwned, BlockAt
<1>5. InodeOwned(g, n, who, place)
  BY <1>1, <1>2, <1>3, <1>4 DEF InodeOwned, IsPart
<1> QED BY <1>1, <1>2, <1>5, OwnedSplit

LEMMA OwnedLoaded ==
  ASSUME disk \in Image, NEW f, NEW who, NEW place, Owned(f, 0, who, place), NEW n \in Inode, n \in f.inodes
  PROVE  LET g == Loaded(f, n)
         IN /\ Owned(g, 0, who, place) /\ (Unsaved(f) => Unsaved(g)) /\ g.node[n] # NoNode
            /\ On(g) = On(f) /\ g.inodes = f.inodes
<1>1. f \in FileSystem
  BY DEF Owned
<1>2. CASE f.node[n] # NoNode
  BY <1>1, <1>2, LoadedIs
<1>3. CASE f.node[n] = NoNode
  <2>1. PICK g : g = Loaded(f, n)
    OBVIOUS
  <2>2. PICK node \in Cached : /\ IsNode(f, g, n, node)
                               /\ node.direct = On(f).table[n].direct /\ node.index = On(f).table[n].index /\ node.spare = <<>>
    BY <1>1, <1>3, <2>1, LoadedIs
  <2>3. /\ Owned(g, n, who, place) /\ (Unsaved(f) => Unsaved(g))
        /\ On(g) = On(f) /\ Skipped(g) = Skipped(f) /\ g.blocks = f.blocks /\ g.inodes = f.inodes
    BY <2>2, OwnedNode
  <2>4. g.node[n] = node /\ node # NoNode
    BY <2>2, NotNoNode DEF IsNode
  <2>5. InodeOwned(f, n, who, place)
    BY OwnedSplit
  <2>6. PlacesOwned(On(f).table[n], On(f).index, n, f.blocks, who, place)
    BY <1>3, <2>5 DEF InodeOwned
  <2>7. PlacesOwned(node, On(g).index, n, g.blocks, who, place)
    BY <2>2, <2>3, <2>6 DEF PlacesOwned, BlockAt
  <2>8. SpareOwned(node.spare, n, g.blocks, who, place)
    BY <2>2 DEF SpareOwned
  <2>9. InodeOwned(g, n, who, place)
    BY <2>2, <2>3, <2>4, <2>5, <2>7, <2>8 DEF InodeOwned, IsPart
  <2> QED BY <2>1, <2>3, <2>4, <2>9, OwnedSplit
<1> QED BY <1>2, <1>3

(* The block that is taken is no longer spare, and is to be in place q.    *)
IsTaken(f, g, n, b, q, who, place, place2) ==
  /\ Owned(g, 0, who, place2) /\ (Unsaved(f) => Unsaved(g)) /\ g.node[n] # NoNode /\ On(g) = On(f)
  /\ g.node[n].direct = f.node[n].direct /\ g.node[n].index = f.node[n].index
  /\ b \in f.blocks \ Fixed /\ b \in Block /\ g.blocks = f.blocks /\ g.inodes = f.inodes
  /\ who[b] = n /\ place[b] = -1 /\ place2[b] = q /\ \A c \in f.blocks : c # b => place2[c] = place[c]

LEMMA OwnedTaken ==
  ASSUME disk \in Image, NEW f, NEW who, NEW place, Owned(f, 0, who, place), NEW n \in Inode, f.node[n] # NoNode,
         f.node[n].spare # <<>>, NEW q
  PROVE  \E place2 : IsTaken(f, Taken(f, n), n, Head(f.node[n].spare), q, who, place, place2)
<1>1. f \in FileSystem /\ f.blocks \subseteq Block
  BY DEF Owned, FileSystem
<1>2. PICK c \in Cached : c = f.node[n]
  BY <1>1, CachedIs
<1>3. PICK s \in Seq(Block) : s = c.spare
  BY DEF Cached
<1>4. PICK b, g : b = Head(s) /\ g = Taken(f, n)
  OBVIOUS
<1>5. s # <<>> /\ b = s[1] /\ Tail(s) \in Seq(Block) /\ Len(Tail(s)) = Len(s) - 1 /\ \A i \in 1 .. Len(Tail(s)) : Tail(s)[i] = s[i + 1]
  BY <1>2, <1>3, <1>4
<1>6. PICK node \in Cached : /\ IsNode(f, g, n, node) /\ node.direct = c.direct /\ node.index = c.index /\ node.spare = Tail(s)
  <2>1. IsNode(f, g, n, [c EXCEPT !.spare = Tail(@)])
    BY <1>1, <1>2, <1>3, <1>4, <1>5, TakenIs
  <2>2. [c EXCEPT !.spare = Tail(@)] = [c EXCEPT !.spare = Tail(s)]
    BY <1>3
  <2>3. PICK node \in Cached : node = [c EXCEPT !.spare = Tail(s)]
    BY <1>5, CachedChanges
  <2>4. node.direct = c.direct /\ node.index = c.index /\ node.spare = Tail(s)
    BY <2>3 DEF Cached
  <2> QED BY <2>1, <2>2, <2>3, <2>4
<1>7. InodeOwned(f, n, who, place)
  BY OwnedSplit
<1>8. PlacesOwned(c, On(f).index, n, f.blocks, who, place) /\ SpareOwned(s, n, f.blocks, who, place)
  BY <1>2, <1>3, <1>7 DEF InodeOwned
<1>9. Len(s) \in Nat /\ Len(s) >= 1 /\ 1 \in 1 .. Len(s)
  BY <1>5
<1>10. b \in f.blocks \ Fixed /\ b \in Block /\ who[b] = n /\ place[b] = -1
  BY <1>1, <1>5, <1>8, <1>9 DEF SpareOwned
<1>11. PICK place2 : place2 = [a \in Block |-> IF a = b THEN q ELSE place[a]]
  OBVIOUS
<1>12. place2[b] = q /\ \A a \in f.blocks : a # b => place2[a] = place[a]
  BY <1>1, <1>10, <1>11
<1>13. /\ Owned(g, n, who, place2) /\ (Unsaved(f) => Unsaved(g))
       /\ On(g) = On(f) /\ Skipped(g) = Skipped(f) /\ g.blocks = f.blocks /\ g.inodes = f.inodes
  <2>1. \A a \in f.blocks \ Fixed : who[a] # n => who[a] = who[a] /\ place2[a] = place[a]
    BY <1>10, <1>12
  <2> QED BY <1>6, <2>1, OwnedNode
<1>14. g.node[n] = node /\ node # NoNode
  BY <1>6, NotNoNode DEF IsNode
<1>15. PlacesOwned(node, On(g).index, n, g.blocks, who, place2)
  <2>1. -1 \notin Place
    BY Sizes DEF Place
  <2>2. \A a \in f.blocks \ Fixed : who[a] = n /\ place[a] \in Place => a \in f.blocks /\ who[a] = n /\ place2[a] = place[a]
    BY <1>10, <1>12, <2>1
  <2>3. PlacesOwned(c, On(f).index, n, f.blocks, who, place2)
    BY <1>8, <2>2, PlacesKept
  <2> QED BY <1>6, <1>13, <2>3 DEF PlacesOwned, BlockAt
<1>16. SpareOwned(node.spare, n, g.blocks, who, place2)
  <2>1. ASSUME NEW i \in 1 .. Len(Tail(s))
        PROVE  /\ Tail(s)[i] \in f.blocks \ Fixed /\ who[Tail(s)[i]] = n /\ place2[Tail(s)[i]] = -1
               /\ i + 1 \in 1 .. Len(s)
    <3>1. i + 1 \in 1 .. Len(s) /\ i + 1 # 1 /\ Tail(s)[i] = s[i + 1]
      BY <1>5, <1>9
    <3>2. s[i + 1] # s[1] /\ s[i + 1] \in f.blocks \ Fixed /\ who[s[i + 1]] = n /\ place[s[i + 1]] = -1
      BY <1>8, <1>9, <3>1 DEF SpareOwned
    <3> QED BY <1>5, <1>12, <3>1, <3>2
  <2>2. ASSUME NEW i \in 1 .. Len(Tail(s)), NEW j \in 1 .. Len(Tail(s)), Tail(s)[i] = Tail(s)[j]
        PROVE  i = j
    <3>1. s[i + 1] = s[j + 1] /\ i + 1 \in 1 .. Len(s) /\ j + 1 \in 1 .. Len(s)
      BY <1>5, <2>1, <2>2
    <3>2. i + 1 = j + 1
      BY <1>8, <3>1 DEF SpareOwned
    <3> QED BY <3>2
  <2> QED BY <1>6, <1>13, <2>1, <2>2 DEF SpareOwned
<1>17. InodeOwned(g, n, who, place2)
  BY <1>2, <1>6, <1>7, <1>13, <1>14, <1>15, <1>16 DEF InodeOwned, IsPart
<1>18. Owned(g, 0, who, place2)
  BY <1>13, <1>17, OwnedSplit
<1>19. IsTaken(f, g, n, b, q, who, place, place2)
  BY <1>2, <1>6, <1>10, <1>12, <1>13, <1>14, <1>18 DEF IsTaken
<1> QED BY <1>2, <1>3, <1>4, <1>19

(* The index blocks are written: those of the other inodes stay as they are. *)
LEMMA OwnedIndexWritten ==
  ASSUME disk \in Image, NEW f, NEW who, NEW place, NEW n \in Inode, Owned(f, n, who, place), Unsaved(f), f.node[n] # NoNode,
         SpareOwned(f.node[n].spare, n, f.blocks, who, place),
         n \in f.inodes /\ n \notin stale => IsPart(On(f).table[n], f.node[n]),
         n \notin f.inodes /\ n \notin stale => IsPart(On(f).table[n], EmptyInode),
         NEW index, IsIndex(index),
         \A c \in f.blocks \ Fixed : who[c] # n /\ place[c] = Direct + PerIndex => index[c] = On(f).index[c],
         PlacesOwned(f.node[n], index, n, f.blocks, who, place)
  PROVE  LET g == Write(f, [On(f) EXCEPT !.index = index])
         IN /\ Owned(g, 0, who, place) /\ Unsaved(g) /\ g.node = f.node /\ g.inodes = f.inodes /\ g.blocks = f.blocks
            /\ On(g).index = index
<1>1. f \in FileSystem /\ Fixed \subseteq f.blocks /\ Flushed(f) /\ Counted(f) /\ Skipped(f) = stale /\ f.inodes \subseteq Inode
  BY SkippedUnsaved DEF Owned, FileSystem
<1>2. PICK d \in Image : d = On(f)
  BY <1>1, OnImage
<1>3. PICK e \in Image : e = [d EXCEPT !.index = index]
  <2>1. [d EXCEPT !.index = index] \in Image
    BY DEF Image, IsIndex
  <2> QED BY <2>1
<1>4. /\ e.index = index /\ e.blocks = f.blocks /\ e.inodes = f.inodes /\ e.super = f.super /\ e.groups = f.groups
      /\ e.table = d.table /\ e.table = disk.table
  BY <1>1, <1>2, <1>3 DEF Image, Flushed, Unsaved
<1>5. ASSUME NEW m \in Inode \ {n}, NEW inode, PlacesOwned(inode, On(f).index, m, f.blocks, who, place)
      PROVE  PlacesOwned(inode, index, m, f.blocks, who, place)
  <2>1. \A c \in f.blocks \ Fixed : who[c] = m /\ place[c] = Direct + PerIndex => index[c] = On(f).index[c]
    BY <1>5
  <2> QED BY <1>5, <2>1, PlacesKept
<1>6. ASSUME NEW m \in e.inodes \ stale
      PROVE  PlacesOwned(e.table[m], e.index, m, e.blocks, who, place)
  <2>1. m \in f.inodes /\ m \in Inode /\ m \notin Skipped(f)
    BY <1>1, <1>4
  <2>2. CASE m # n
    <3>1. PlacesOwned(On(f).table[m], On(f).index, m, f.blocks, who, place)
      BY <2>1, <2>2, TableOwned
    <3> QED BY <1>2, <1>4, <1>5, <2>1, <2>2, <3>1
  <2>3. CASE m = n
    <3>1. IsPart(On(f).table[n], f.node[n])
      BY <2>1, <2>3, <1>1
    <3>2. PlacesOwned(On(f).table[n], index, n, f.blocks, who, place)
      BY <3>1, PartPlaces
    <3> QED BY <1>2, <1>4, <2>3, <3>2
  <2> QED BY <2>2, <2>3
<1>7. e \in DiskImages
  BY <1>1, <1>4, <1>6 DEF DiskImages, DiskOwned
<1>8. PICK g : g = Write(f, e)
  OBVIOUS
<1>9. Adds(f, g, e, DiskImages)
  <2>1. DiskImages \subseteq Image
    BY DEF DiskImages
  <2> QED BY <1>1, <1>7, <1>8, <2>1, WriteAdds
<1>10. /\ g \in FileSystem /\ g.blocks = f.blocks /\ g.inodes = f.inodes /\ g.super = f.super /\ g.groups = f.groups
       /\ g.node = f.node /\ On(g) = e
  BY <1>9 DEF Adds
<1>11. g.images \in Seq(DiskImages)
  BY <1>9, SeqsAdded DEF Unsaved
<1>12. Unsaved(g) /\ Flushed(g) /\ Counted(g) /\ \A i \in 1 .. Len(g.images) - 1 : g.images[i] \in DiskImages
  BY <1>1, <1>4, <1>10, <1>11 DEF Unsaved, Flushed, Counted
<1>13. Skipped(g) = stale
  BY <1>12, SkippedUnsaved
<1>14. ASSUME NEW m \in Inode \ {n}
       PROVE  InodeOwned(g, m, who, place)
  <2>1. InodeOwned(f, m, who, place)
    BY DEF Owned
  <2> QED BY <1>1, <1>2, <1>4, <1>5, <1>10, <1>13, <2>1 DEF InodeOwned
<1>15. InodeOwned(g, n, who, place)
  BY <1>1, <1>2, <1>4, <1>10, <1>13 DEF InodeOwned
<1>16. Owned(g, n, who, place)
  BY <1>1, <1>10, <1>12, <1>14 DEF Owned
<1>17. Owned(g, 0, who, place)
  BY <1>15, <1>16, OwnedSplit
<1> QED BY <1>2, <1>3, <1>4, <1>8, <1>10, <1>12, <1>17

LEMMA OwnedWriteData ==
  ASSUME disk \in Image, NEW f, NEW who, NEW place, NEW n \in Inode, Owned(f, 0, who, place), Unsaved(f), f.node[n] # NoNode,
         NEW b \in Block, place[b] # Direct + PerIndex
  PROVE  Owned(WriteData(f, b), 0, who, place)
<1>1. f \in FileSystem /\ Skipped(f) = stale /\ Owned(f, n, who, place) /\ InodeOwned(f, n, who, place)
  BY SkippedUnsaved, OwnedSplit DEF Owned
<1>2. PICK d \in Image : d = On(f)
  BY <1>1, OnImage
<1>3. PICK index : index = [d.index EXCEPT ![b] = NoBlocks]
  OBVIOUS
<1>4. IsIndex(index) /\ [d EXCEPT !.index[b] = NoBlocks] = [d EXCEPT !.index = index]
  <2>1. NoBlocks \in [0 .. PerIndex - 1 -> Pointer]
    BY NoBlocksTyped
  <2> QED BY <1>3, <2>1, IndexTyped
<1>5. \A c \in Block : c # b => index[c] = d.index[c]
  BY <1>3 DEF Image
<1>6. f.blocks \subseteq Block
  BY <1>1 DEF FileSystem
<1>7. \A c \in f.blocks \ Fixed : place[c] = Direct + PerIndex => index[c] = On(f).index[c]
  BY <1>2, <1>5, <1>6
<1>8. PlacesOwned(f.node[n], index, n, f.blocks, who, place)
  <2>1. PlacesOwned(f.node[n], On(f).index, n, f.blocks, who, place)
    BY <1>1 DEF InodeOwned
  <2> QED BY <1>7, <2>1, PlacesKept
<1>9. PICK g : g = Write(f, [On(f) EXCEPT !.index = index])
  OBVIOUS
<1>10. Owned(g, 0, who, place)
  BY <1>1, <1>4, <1>7, <1>8, <1>9, OwnedIndexWritten DEF InodeOwned
<1>11. WriteData(f, b) = g
  BY <1>2, <1>4, <1>9 DEF WriteData
<1> QED BY <1>10, <1>11

LEMMA OwnedDirect ==
  ASSUME disk \in Image, NEW f, NEW who, NEW place, NEW n \in Inode, Owned(f, 0, who, place), Unsaved(f), f.node[n] # NoNode,
         NEW i \in 0 .. Direct - 1, f.node[n].direct[i] = 0, NEW b \in Block, b \in f.blocks \ Fixed, who[b] = n, place[b] = i
  PROVE  LET g == DirectSet(f, n, i, b)
         IN Owned(g, 0, who, place) /\ Unsaved(g) /\ g.node[n] # NoNode
<1>1. f \in FileSystem /\ InodeOwned(f, n, who, place)
  BY OwnedSplit DEF Owned
<1>2. PICK g : g = DirectSet(f, n, i, b)
  OBVIOUS
<1>3. \E node \in Cached :
           /\ IsNode(f, DirectSet(f, n, i, b), n, node)
           /\ node.links = f.node[n].links /\ node.opens = f.node[n].opens
           /\ node.spare = f.node[n].spare /\ node.index = f.node[n].index
           /\ \A j \in 0 .. Direct - 1 : node.direct[j] = IF j = i THEN b ELSE f.node[n].direct[j]
  BY <1>1, DirectChanged
<1>4. PICK node \in Cached : /\ IsNode(f, g, n, node) /\ node.spare = f.node[n].spare /\ node.index = f.node[n].index
                             /\ \A j \in 0 .. Direct - 1 : node.direct[j] = IF j = i THEN b ELSE f.node[n].direct[j]
  BY <1>2, <1>3
<1>5. /\ Owned(g, n, who, place) /\ Unsaved(g)
      /\ On(g) = On(f) /\ Skipped(g) = Skipped(f) /\ g.blocks = f.blocks /\ g.inodes = f.inodes
  BY <1>4, OwnedNode
<1>6. g.node[n] = node /\ node # NoNode
  BY <1>4, NotNoNode DEF IsNode
<1>7. ASSUME NEW p \in Place
      PROVE  BlockAt(node, On(g).index, p) = IF p = i THEN b ELSE BlockAt(f.node[n], On(f).index, p)
  <2>1. i < Direct
    BY Sizes
  <2>2. CASE p < Direct
    <3>1. p \in 0 .. Direct - 1
      BY <2>2, Sizes DEF Place
    <3> QED BY <1>4, <2>2, <3>1 DEF BlockAt
  <2>3. CASE ~(p < Direct)
    BY <1>4, <1>5, <2>1, <2>3 DEF BlockAt
  <2> QED BY <2>2, <2>3
<1>8. PlacesOwned(node, On(g).index, n, g.blocks, who, place)
  BY <1>1, <1>5, <1>7 DEF InodeOwned, PlacesOwned
<1>9. n \in g.inodes /\ n \notin Skipped(g) => IsPart(On(g).table[n], node)
  BY <1>1, <1>4, <1>5 DEF InodeOwned, IsPart
<1>10. InodeOwned(g, n, who, place)
  BY <1>1, <1>4, <1>5, <1>6, <1>8, <1>9 DEF InodeOwned
<1> QED BY <1>2, <1>5, <1>6, <1>10, OwnedSplit

IndexPlace == Direct .. Direct + PerIndex - 1

LEMMA OwnedEntry ==
  ASSUME disk \in Image, NEW f, NEW who, NEW place, NEW n \in Inode, Owned(f, 0, who, place), Unsaved(f), f.node[n] # NoNode,
         f.node[n].index # 0, NEW i \in IndexPlace, NEW b \in Block, b \in f.blocks \ Fixed, who[b] = n, place[b] = i
  PROVE  LET g == Write(f, [On(f) EXCEPT !.index[f.node[n].index][i - Direct] = b])
         IN Owned(g, 0, who, place) /\ Unsaved(g) /\ g.node = f.node
<1>1. f \in FileSystem /\ Skipped(f) = stale /\ Owned(f, n, who, place) /\ InodeOwned(f, n, who, place)
  BY SkippedUnsaved, OwnedSplit DEF Owned
<1>2. PICK d \in Image : d = On(f)
  BY <1>1, OnImage
<1>3. PICK c \in Cached : c = f.node[n]
  BY <1>1, CachedIs
<1>4. PICK x : x = c.index
  OBVIOUS
<1>5. PICK k : k = i - Direct
  OBVIOUS
<1>6. k \in 0 .. PerIndex - 1 /\ i >= Direct /\ i < Direct + PerIndex /\ i \in Place
  BY <1>5, Sizes DEF IndexPlace, Place
<1>7. PlacesOwned(c, d.index, n, f.blocks, who, place)
  BY <1>1, <1>2, <1>3 DEF InodeOwned
<1>8. x \in Block /\ x # 0 /\ who[x] = n
  <2>1. x # 0 /\ x \in Pointer
    BY <1>3, <1>4 DEF Cached
  <2>2. Direct + PerIndex \in Place /\ BlockAt(c, d.index, Direct + PerIndex) = x
    BY <1>4, <2>1, Sizes DEF Place, BlockAt
  <2> QED BY <1>7, <2>1, <2>2 DEF PlacesOwned, Pointer
<1>9. PICK index : index = [d.index EXCEPT ![x][k] = b]
  OBVIOUS
<1>10. IsIndex(index) /\ [d EXCEPT !.index[x][k] = b] = [d EXCEPT !.index = index]
  <2>1. b \in Pointer
    BY DEF Pointer
  <2> QED BY <1>6, <1>8, <1>9, <2>1, IndexTyped
<1>11. /\ \A a \in Block : a # x => index[a] = d.index[a]
       /\ \A j \in 0 .. PerIndex - 1 : index[x][j] = IF j = k THEN b ELSE d.index[x][j]
  BY <1>8, <1>9 DEF Image
<1>12. f.blocks \subseteq Block
  BY <1>1 DEF FileSystem
<1>13. \A a \in f.blocks \ Fixed : who[a] # n /\ place[a] = Direct + PerIndex => index[a] = On(f).index[a]
  BY <1>2, <1>8, <1>11, <1>12
<1>14. PlacesOwned(c, index, n, f.blocks, who, place)
  <2>1. ASSUME NEW p \in Place
        PROVE  BlockAt(c, index, p) = IF p = i THEN b ELSE BlockAt(c, d.index, p)
    <3>1. CASE p < Direct
      BY <1>6, <3>1, Sizes DEF BlockAt, Place
    <3>2. CASE ~(p < Direct) /\ p < Direct + PerIndex
      <4>1. p - Direct \in 0 .. PerIndex - 1 /\ (p - Direct = k <=> p = i)
        BY <1>5, <3>2, Sizes DEF Place, IndexPlace
      <4> QED BY <1>4, <1>8, <1>11, <3>2, <4>1 DEF BlockAt
    <3>3. CASE ~(p < Direct) /\ ~(p < Direct + PerIndex)
      BY <1>6, <3>3, Sizes DEF BlockAt, Place
    <3> QED BY <3>1, <3>2, <3>3
  <2> QED BY <1>7, <2>1 DEF PlacesOwned
<1>15. PICK g : g = Write(f, [On(f) EXCEPT !.index = index])
  OBVIOUS
<1>16. Owned(g, 0, who, place) /\ Unsaved(g) /\ g.node = f.node
  BY <1>1, <1>3, <1>10, <1>13, <1>14, <1>15, OwnedIndexWritten DEF InodeOwned
<1>17. Write(f, [On(f) EXCEPT !.index[f.node[n].index][i - Direct] = b]) = g
  BY <1>2, <1>3, <1>4, <1>5, <1>10, <1>15
<1> QED BY <1>16, <1>17

LEMMA OwnedNewIndex ==
  ASSUME disk \in Image, NEW f, NEW who, NEW place, NEW n \in Inode, Owned(f, 0, who, place), Unsaved(f), f.node[n] # NoNode,
         f.node[n].index = 0, NEW i \in IndexPlace, NEW b \in Block, b \in f.blocks \ Fixed, who[b] = n, place[b] = i,
         NEW c \in Block, c \in f.blocks \ Fixed, who[c] = n, place[c] = Direct + PerIndex,
         NEW k, k = IndexSet(f, n, c)
  PROVE  LET g == Write(k, [On(k) EXCEPT !.index[c] = [NoBlocks EXCEPT ![i - Direct] = b]])
         IN Owned(g, 0, who, place) /\ Unsaved(g) /\ g.node[n] # NoNode
<1>1. f \in FileSystem /\ Skipped(f) = stale /\ InodeOwned(f, n, who, place)
  BY SkippedUnsaved, OwnedSplit DEF Owned
<1>2. \E e \in Cached :
           /\ IsNode(f, IndexSet(f, n, c), n, e)
           /\ e.links = f.node[n].links /\ e.opens = f.node[n].opens
           /\ e.spare = f.node[n].spare /\ e.index = c
           /\ e.direct = f.node[n].direct
  BY <1>1, IndexChanged
<1>3. PICK e \in Cached : IsNode(f, k, n, e) /\ e.spare = f.node[n].spare /\ e.index = c /\ e.direct = f.node[n].direct
  BY <1>2
<1>4. /\ Owned(k, n, who, place) /\ Unsaved(k)
      /\ On(k) = On(f) /\ Skipped(k) = Skipped(f) /\ k.blocks = f.blocks /\ k.inodes = f.inodes
  BY <1>3, OwnedNode
<1>5. k.node[n] = e /\ e # NoNode
  BY <1>3, NotNoNode DEF IsNode
<1>6. PICK d \in Image : d = On(f)
  BY <1>1, OnImage
<1>7. PICK j : j = i - Direct
  OBVIOUS
<1>8. j \in 0 .. PerIndex - 1 /\ i >= Direct /\ i < Direct + PerIndex /\ i \in Place
  BY <1>7, Sizes DEF IndexPlace, Place
<1>9. PICK entry : entry = [NoBlocks EXCEPT ![j] = b]
  OBVIOUS
<1>10. PICK index : index = [d.index EXCEPT ![c] = entry]
  OBVIOUS
<1>11. IsIndex(index) /\ [d EXCEPT !.index[c] = entry] = [d EXCEPT !.index = index]
  <2>1. b \in Pointer
    BY DEF Pointer
  <2>2. entry \in [0 .. PerIndex - 1 -> Pointer]
    BY <1>8, <1>9, <2>1, IndexTyped
  <2> QED BY <1>10, <2>2, IndexTyped
<1>12. \A a \in Block : index[a] = IF a = c THEN entry ELSE d.index[a]
  BY <1>10 DEF Image
<1>13. \A l \in 0 .. PerIndex - 1 : entry[l] = IF l = j THEN b ELSE 0
  BY <1>9 DEF NoBlocks
<1>14. f.blocks \subseteq Block
  BY <1>1 DEF FileSystem
<1>15. \A a \in k.blocks \ Fixed : who[a] # n /\ place[a] = Direct + PerIndex => index[a] = On(k).index[a]
  BY <1>4, <1>6, <1>12, <1>14
<1>16. PlacesOwned(e, index, n, k.blocks, who, place)
  <2>1. PlacesOwned(f.node[n], d.index, n, f.blocks, who, place)
    BY <1>1, <1>6 DEF InodeOwned
  <2>2. c # 0
    BY Sizes
  <2>3. ASSUME NEW p \in Place
        PROVE  BlockAt(e, index, p) = (IF p < Direct THEN BlockAt(f.node[n], d.index, p) ELSE IF p = i THEN b
                                      ELSE IF p = Direct + PerIndex THEN c ELSE 0)
    <3>1. CASE p < Direct
      BY <1>3, <3>1 DEF BlockAt
    <3>2. CASE ~(p < Direct) /\ p < Direct + PerIndex
      <4>1. p - Direct \in 0 .. PerIndex - 1 /\ (p - Direct = j <=> p = i) /\ p # Direct + PerIndex
        BY <1>7, <3>2, Sizes DEF Place, IndexPlace
      <4>2. BlockAt(e, index, p) = index[c][p - Direct]
        BY <1>3, <2>2, <3>2 DEF BlockAt
      <4>3. index[c] = entry /\ entry[p - Direct] = IF p = i THEN b ELSE 0
        BY <1>12, <1>13, <4>1
      <4> QED BY <3>2, <4>1, <4>2, <4>3
    <3>3. CASE ~(p < Direct) /\ ~(p < Direct + PerIndex)
      <4>1. p = Direct + PerIndex /\ p # i
        BY <1>8, <3>3, Sizes DEF Place
      <4> QED BY <1>3, <2>2, <3>3, <4>1 DEF BlockAt
    <3> QED BY <3>1, <3>2, <3>3
  <2> QED BY <1>4, <2>1, <2>3 DEF PlacesOwned
<1>17. SpareOwned(e.spare, n, k.blocks, who, place)
  BY <1>1, <1>3, <1>4 DEF InodeOwned
<1>18. n \in k.inodes /\ n \notin stale => IsPart(On(k).table[n], e)
  BY <1>1, <1>3, <1>4 DEF InodeOwned, IsPart
<1>19. n \notin k.inodes /\ n \notin stale => IsPart(On(k).table[n], EmptyInode)
  BY <1>1, <1>4 DEF InodeOwned
<1>20. PICK g : g = Write(k, [On(k) EXCEPT !.index = index])
  OBVIOUS
<1>21. Owned(g, 0, who, place) /\ Unsaved(g) /\ g.node = k.node
  BY <1>4, <1>5, <1>11, <1>15, <1>16, <1>17, <1>18, <1>19, <1>20, OwnedIndexWritten
<1>22. Write(k, [On(k) EXCEPT !.index[c] = [NoBlocks EXCEPT ![i - Direct] = b]]) = g
  BY <1>4, <1>6, <1>7, <1>9, <1>11, <1>20
<1> QED BY <1>5, <1>21, <1>22

LEMMA OwnedImage ==
  ASSUME disk \in Image, NEW f, NEW who, NEW place, Owned(f, 0, who, place), Unsaved(f)
  PROVE  On(f) \in DiskImages
<1>1. f \in FileSystem /\ Fixed \subseteq f.blocks /\ On(f).blocks = f.blocks /\ On(f).inodes = f.inodes /\ Skipped(f) = stale
  BY SkippedUnsaved DEF Owned, Flushed
<1>2. On(f) \in Image /\ f.inodes \subseteq Inode /\ 0 \notin Inode
  BY <1>1, OnImage, Sizes DEF FileSystem
<1>3. ASSUME NEW n \in On(f).inodes \ stale
      PROVE  PlacesOwned(On(f).table[n], On(f).index, n, On(f).blocks, who, place)
  <2>1. n \in f.inodes /\ n \in Inode /\ n # 0 /\ n \notin Skipped(f)
    BY <1>1, <1>2
  <2> QED BY <1>1, <2>1, TableOwned
<1>4. DiskOwned(On(f), stale)
  BY <1>3 DEF DiskOwned
<1> QED BY <1>1, <1>2, <1>4 DEF DiskImages, Unsaved

LEMMA OwnedName ==
  ASSUME disk \in Image, NEW f, NEW x, NEW who, NEW place, Owned(f, x, who, place), Unsaved(f), On(f) \in DiskImages,
         NEW name \in Names, NEW to \in Inode \cup {0}
  PROVE  LET g == NameSet(f, name, to)
         IN /\ Owned(g, x, who, place) /\ Unsaved(g) /\ g.node = f.node /\ g.inodes = f.inodes /\ g.blocks = f.blocks
            /\ On(g).table = On(f).table /\ On(g) \in DiskImages
<1>1. f \in FileSystem /\ Skipped(f) = stale
  BY SkippedUnsaved DEF Owned
<1>2. PICK d \in Image : d = On(f)
  BY <1>1, OnImage
<1>3. PICK e : e = [d EXCEPT !.names[name] = to]
  OBVIOUS
<1>4. /\ e \in Image /\ e.blocks = d.blocks /\ e.inodes = d.inodes /\ e.super = d.super /\ e.groups = d.groups
      /\ e.table = d.table /\ e.index = d.index
  BY <1>3 DEF Image
<1>5. e \in DiskImages
  BY <1>2, <1>4 DEF DiskImages, DiskOwned
<1>6. PICK g : g = Write(f, e)
  OBVIOUS
<1>7. Adds(f, g, e, DiskImages)
  <2>1. DiskImages \subseteq Image
    BY DEF DiskImages
  <2> QED BY <1>1, <1>5, <1>6, <2>1, WriteAdds
<1>8. /\ g \in FileSystem /\ g.blocks = f.blocks /\ g.inodes = f.inodes /\ g.super = f.super /\ g.groups = f.groups
      /\ g.node = f.node /\ On(g) = e
  BY <1>7 DEF Adds
<1>9. g.images \in Seq(DiskImages)
  BY <1>7, SeqsAdded DEF Unsaved
<1>10. /\ Unsaved(g) /\ Flushed(g) /\ Counted(g) /\ Fixed \subseteq g.blocks
       /\ \A i \in 1 .. Len(g.images) - 1 : g.images[i] \in DiskImages
  BY <1>2, <1>4, <1>8, <1>9 DEF Owned, Unsaved, Flushed, Counted
<1>11. ASSUME NEW m \in Inode \ {x}
       PROVE  InodeOwned(g, m, who, place)
  <2>1. InodeOwned(f, m, who, place)
    BY DEF Owned
  <2>2. g.node[m] = f.node[m] /\ g.inodes = f.inodes /\ On(g).table[m] = On(f).table[m] /\ On(g).index = On(f).index
    BY <1>2, <1>4, <1>8
  <2>3. \A b \in f.blocks \ Fixed :
           who[b] = m => /\ b \in g.blocks /\ who[b] = m /\ place[b] = place[b]
                         /\ place[b] = Direct + PerIndex => On(g).index[b] = On(f).index[b]
    BY <1>8, <2>2
  <2> QED BY <2>1, <2>2, <2>3, InodeKept
<1>12. Owned(g, x, who, place)
  BY <1>8, <1>10, <1>11 DEF Owned
<1> QED BY <1>2, <1>3, <1>4, <1>5, <1>6, <1>8, <1>10, <1>12 DEF NameSet

-----------------------------------------------------------------------------
(* The inodes of f are written.                                            *)
InodesAreSaved(f, g) ==
  /\ g \in FileSystem /\ g.node = f.node /\ g.blocks = f.blocks /\ g.inodes = f.inodes
  /\ g.super = f.super /\ g.groups = f.groups /\ Unsaved(g) /\ Flushed(g) /\ On(g) \in DiskImages
  /\ On(g).table = On(f).table /\ On(g).names = On(f).names /\ On(g).index = On(f).index

LEMMA BitmapsSaved ==
  ASSUME disk \in Image, NEW f \in FileSystem, Unsaved(f), On(f).blocks = f.blocks,
         Fixed \subseteq f.blocks, NEW who, NEW place,
         \A n \in (f.inodes \cup On(f).inodes) \ stale : PlacesOwned(On(f).table[n], On(f).index, n, f.blocks, who, place)
  PROVE  InodesAreSaved(f, SaveSuperblock(FlushInodes(f)))
<1>1. On(f) \in Image /\ f.inodes \subseteq Inode
  BY OnImage DEF FileSystem
<1>2. ASSUME NEW g \in 0 .. Groups
      PROVE  PartInodes(f, g) \in DiskImages
  <2>1. PICK d \in Image : d = PartInodes(f, g)
    BY PartTyped
  <2>2. /\ d.table = On(f).table /\ d.blocks = On(f).blocks /\ d.index = On(f).index
        /\ d.inodes = {n \in Inode : n \in (IF GroupOf(n, InodesPerGroup) < g THEN f.inodes ELSE On(f).inodes)}
    BY <2>1, <1>1 DEF PartInodes, Image
  <2>3. ASSUME NEW n \in d.inodes \ stale
        PROVE  PlacesOwned(d.table[n], d.index, n, d.blocks, who, place)
    <3>1. n \in f.inodes \cup On(f).inodes
      BY <2>2
    <3>2. PlacesOwned(On(f).table[n], On(f).index, n, f.blocks, who, place)
      BY <2>3, <3>1
    <3> QED BY <2>2, <3>2
  <2>4. d.table = disk.table /\ Fixed \subseteq d.blocks
    BY <2>2 DEF Unsaved
  <2> QED BY <2>1, <2>3, <2>4 DEF DiskImages, DiskOwned
<1>3. PICK g : g = SaveSuperblock(FlushInodes(f))
  OBVIOUS
<1>4. PICK image \in DiskImages : Adds(f, g, image, DiskImages) /\ WithInodes(f, image)
  BY <1>2, <1>3, ImagesCountFree, InodesSaved
<1>5. /\ g \in FileSystem /\ g.node = f.node /\ g.blocks = f.blocks /\ g.inodes = f.inodes
      /\ g.super = f.super /\ g.groups = f.groups /\ On(g) = image
  BY <1>4 DEF Adds
<1>6. g.images \in Seq(DiskImages)
  BY <1>4, SeqsAdded DEF Unsaved
<1>7. /\ image.table = On(f).table /\ image.names = On(f).names /\ image.blocks = f.blocks /\ image.inodes = f.inodes
      /\ image.super = f.super /\ image.groups = f.groups /\ image.index = On(f).index
  BY <1>1, <1>4 DEF WithInodes
<1> QED BY <1>3, <1>5, <1>6, <1>7 DEF InodesAreSaved, Unsaved, Flushed

LEMMA OwnedBitmaps ==
  ASSUME disk \in Image, NEW f, NEW who, NEW place, Owned(f, 0, who, place), Unsaved(f), NEW n \in Inode,
         NEW I, NEW more, NEW g, IsInodes(f, g, n, I, more),
         \/ n \notin f.inodes /\ I = f.inodes \cup {n} /\ more = -1
         \/ n \in f.inodes /\ I = f.inodes \ {n} /\ more = 1,
         NEW h, h = SaveSuperblock(FlushInodes(g))
  PROVE  /\ Owned(h, n, who, place) /\ Unsaved(h) /\ h.node = f.node /\ h.inodes = I /\ h.blocks = f.blocks
         /\ On(h).table = On(f).table /\ On(h).index = On(f).index /\ On(h) \in DiskImages
<1>1. f \in FileSystem /\ Fixed \subseteq f.blocks /\ On(f).blocks = f.blocks /\ On(f).inodes = f.inodes /\ Skipped(f) = stale
  BY SkippedUnsaved DEF Owned, Flushed
<1>2. /\ g \in FileSystem /\ g.blocks = f.blocks /\ g.inodes = I /\ g.images = f.images /\ g.node = f.node
  BY DEF IsInodes
<1>3. On(g) = On(f) /\ Unsaved(g)
  BY <1>2, OnSame DEF Unsaved
<1>4. Counted(g)
  <2>1. Counted(f)
    BY DEF Owned
  <2> QED BY <1>1, <2>1, CountedInodes
<1>5. f.inodes \subseteq Inode /\ 0 \notin Inode
  BY <1>1, Sizes DEF FileSystem
<1>6. ASSUME NEW m \in (g.inodes \cup On(g).inodes) \ stale
      PROVE  PlacesOwned(On(g).table[m], On(g).index, m, g.blocks, who, place)
  <2>1. m \in Inode /\ m # 0 /\ m \notin Skipped(f)
    BY <1>1, <1>2, <1>3, <1>5
  <2>2. CASE m \in f.inodes
    <3>1. PlacesOwned(On(f).table[m], On(f).index, m, f.blocks, who, place)
      BY <2>1, <2>2, TableOwned
    <3> QED BY <1>2, <1>3, <3>1
  <2>3. CASE m \notin f.inodes
    <3>1. InodeOwned(f, m, who, place)
      BY <2>1 DEF Owned
    <3>2. IsPart(On(f).table[m], EmptyInode)
      BY <2>1, <2>3, <3>1 DEF InodeOwned
    <3> QED BY <1>3, <3>2, EmptyOwned
  <2> QED BY <2>2, <2>3
<1>7. InodesAreSaved(g, h)
  BY <1>1, <1>2, <1>3, <1>6, BitmapsSaved
<1>8. /\ h \in FileSystem /\ h.node = f.node /\ h.blocks = f.blocks /\ h.inodes = I
      /\ h.super = g.super /\ h.groups = g.groups /\ Unsaved(h) /\ Flushed(h) /\ On(h) \in DiskImages
      /\ On(h).table = On(f).table /\ On(h).index = On(f).index
  BY <1>2, <1>3, <1>7 DEF InodesAreSaved
<1>9. Counted(h) /\ \A i \in 1 .. Len(h.images) - 1 : h.images[i] \in DiskImages
  BY <1>2, <1>4, <1>8 DEF Counted, Unsaved
<1>10. ASSUME NEW m \in Inode \ {n}
       PROVE  InodeOwned(h, m, who, place)
  <2>1. InodeOwned(f, m, who, place)
    BY <1>5 DEF Owned
  <2>2. h.node[m] = f.node[m] /\ (m \in h.inodes <=> m \in f.inodes) /\ On(h).table[m] = On(f).table[m]
    BY <1>8
  <2>3. \A b \in f.blocks \ Fixed :
           who[b] = m => /\ b \in h.blocks /\ who[b] = m /\ place[b] = place[b]
                         /\ place[b] = Direct + PerIndex => On(h).index[b] = On(f).index[b]
    BY <1>8
  <2> QED BY <2>1, <2>2, <2>3, InodeKept
<1>11. Owned(h, n, who, place)
  BY <1>1, <1>8, <1>9, <1>10 DEF Owned
<1> QED BY <1>8, <1>11

LEMMA OwnedAllocateInode ==
  ASSUME disk \in Image, NEW f, NEW who, NEW place, Owned(f, 0, who, place), Unsaved(f), NEW n \in Inode, n \notin f.inodes,
         NEW h, h = AllocateInode(f, n)
  PROVE  /\ Owned(h, n, who, place) /\ Unsaved(h) /\ On(h) \in DiskImages /\ n \in h.inodes
         /\ n \notin stale => IsPart(On(h).table[n], EmptyInode)
<1>1. f \in FileSystem /\ Skipped(f) = stale /\ InodeOwned(f, n, who, place)
  BY OwnedSplit, SkippedUnsaved DEF Owned
<1>2. PICK g : g = InodeTaken(f, n)
  OBVIOUS
<1>3. h = SaveSuperblock(FlushInodes(g)) /\ IsInodes(f, g, n, f.inodes \cup {n}, -1)
  BY <1>1, <1>2, AllocateInodeIs
<1>4. /\ Owned(h, n, who, place) /\ Unsaved(h) /\ h.inodes = f.inodes \cup {n}
      /\ On(h).table = On(f).table /\ On(h) \in DiskImages
  BY <1>3, OwnedBitmaps
<1> QED BY <1>1, <1>4 DEF InodeOwned

LEMMA OwnedFreeInode ==
  ASSUME Aligned, disk \in Image, NEW f, NEW who, NEW place, Owned(f, 0, who, place), Unsaved(f), NEW n \in f.inodes \ FixedInodes,
         n \in Inode, NEW h, h = FreeInode(f, n)
  PROVE  /\ Owned(h, n, who, place) /\ Unsaved(h) /\ h.node = f.node /\ h.inodes = f.inodes \ {n} /\ h.blocks = f.blocks
         /\ On(h).index = On(f).index
<1>1. f \in FileSystem
  BY DEF Owned
<1>2. PICK g : g = InodeReleased(f, n)
  OBVIOUS
<1>3. h = SaveSuperblock(FlushInodes(g)) /\ IsInodes(f, g, n, f.inodes \ {n}, 1)
  BY <1>1, <1>2, FreeInodeIs
<1> QED BY <1>3, OwnedBitmaps

(* The inode is saved, which is the last write of a call.                  *)
LEMMA OwnedSaveInode ==
  ASSUME disk \in Image, NEW f, NEW who, NEW place, NEW n \in Inode, Owned(f, n, who, place), Unsaved(f), f.node[n] # NoNode,
         NEW g, g = SaveInode(f, n)
  PROVE  /\ Owned(g, n, who, place) /\ g.node = f.node /\ g.inodes = f.inodes /\ g.blocks = f.blocks
         /\ On(g).index = On(f).index /\ IsPart(On(g).table[n], f.node[n])
         /\ On(g).table[n].direct = f.node[n].direct /\ On(g).table[n].index = f.node[n].index
<1>1. f \in FileSystem /\ Fixed \subseteq f.blocks /\ Flushed(f) /\ Counted(f)
  BY DEF Owned
<1>2. PICK d \in Image : d = On(f)
  BY <1>1, OnImage
<1>3. PICK c \in Cached : c = f.node[n]
  BY <1>1, CachedIs
<1>4. PICK saved \in Saved : saved = [links |-> c.links, empty |-> c.empty, direct |-> c.direct, index |-> c.index]
  BY DEF Cached, Saved
<1>5. PICK e : e = [d EXCEPT !.table[n] = saved]
  OBVIOUS
<1>6. /\ e \in Image /\ e.blocks = d.blocks /\ e.inodes = d.inodes /\ e.super = d.super /\ e.groups = d.groups
      /\ e.index = d.index /\ e.table[n] = saved /\ \A m \in Inode \ {n} : e.table[m] = d.table[m]
  BY <1>5 DEF Image
<1>7. g = Write(f, e)
  BY <1>2, <1>3, <1>4, <1>5 DEF SaveInode
<1>8. Adds(f, g, e, Image)
  BY <1>1, <1>6, <1>7, WriteAdds
<1>9. /\ g \in FileSystem /\ g.blocks = f.blocks /\ g.inodes = f.inodes /\ g.super = f.super /\ g.groups = f.groups
      /\ g.node = f.node /\ On(g) = e
  BY <1>8 DEF Adds
<1>10. g.images = f.images \/ g.images = Append(f.images, e)
  BY <1>1, <1>7 DEF Write, FileSystem
<1>11. \A i \in 1 .. Len(g.images) - 1 : g.images[i] \in DiskImages
  <2>1. PICK s \in Seq(DiskImages) : s = f.images
    BY DEF Unsaved
  <2>2. CASE g.images = s
    BY <2>2
  <2>3. CASE g.images = Append(s, e)
    <3>1. Len(g.images) - 1 = Len(s) /\ \A i \in 1 .. Len(s) : g.images[i] = s[i]
      BY <2>3
    <3> QED BY <3>1
  <2> QED BY <1>10, <2>1, <2>2, <2>3
<1>12. Flushed(g) /\ Counted(g)
  BY <1>1, <1>2, <1>6, <1>9 DEF Flushed, Counted
<1>13. ASSUME NEW m \in Inode \ {n}
       PROVE  InodeOwned(g, m, who, place)
  <2>1. InodeOwned(f, m, who, place)
    BY DEF Owned
  <2>2. g.node[m] = f.node[m] /\ g.inodes = f.inodes /\ On(g).table[m] = On(f).table[m] /\ On(g).index = On(f).index
    BY <1>2, <1>6, <1>9
  <2>3. \A b \in f.blocks \ Fixed :
           who[b] = m => /\ b \in g.blocks /\ who[b] = m /\ place[b] = place[b]
                         /\ place[b] = Direct + PerIndex => On(g).index[b] = On(f).index[b]
    BY <1>9, <2>2
  <2> QED BY <2>1, <2>2, <2>3, InodeKept
<1>14. Owned(g, n, who, place)
  BY <1>1, <1>9, <1>11, <1>12, <1>13 DEF Owned
<1>15. On(g).table[n].direct = f.node[n].direct /\ On(g).table[n].index = f.node[n].index
  BY <1>3, <1>4, <1>6, <1>9
<1>16. IsPart(On(g).table[n], f.node[n])
  BY <1>15 DEF IsPart
<1> QED BY <1>2, <1>6, <1>9, <1>14, <1>15, <1>16

LEMMA OwnedKeptInode ==
  ASSUME disk \in Image, NEW f, NEW who, NEW place, NEW n \in Inode, Owned(f, n, who, place), Unsaved(f), f.node[n] # NoNode,
         n \in f.inodes, PlacesOwned(f.node[n], On(f).index, n, f.blocks, who, place), SpareOwned(f.node[n].spare, n, f.blocks, who, place),
         NEW g, g = SaveInode(f, n)
  PROVE  Owned(g, 0, who, place) /\ g.node = f.node /\ g.inodes = f.inodes
<1>1. /\ Owned(g, n, who, place) /\ g.node = f.node /\ g.inodes = f.inodes /\ g.blocks = f.blocks
      /\ On(g).index = On(f).index /\ IsPart(On(g).table[n], f.node[n])
  BY OwnedSaveInode
<1>2. InodeOwned(g, n, who, place)
  BY <1>1 DEF InodeOwned
<1> QED BY <1>1, <1>2, OwnedSplit

-----------------------------------------------------------------------------
(* Blocks of an inode become spare ones.                                   *)
LEMMA BlocksOwned ==
  ASSUME NEW inode, HasBlocks(inode), NEW I, IsIndex(I), NEW n, NEW B, NEW who, NEW place, PlacesOwned(inode, I, n, B, who, place),
         NEW t, t = BlocksOf(inode, I)
  PROVE  /\ t \in Seq(Block) /\ \A i, j \in 1 .. Len(t) : t[i] = t[j] => i = j
         /\ \A i \in 1 .. Len(t) : t[i] \in B \ Fixed /\ who[t[i]] = n /\ place[t[i]] \in Place
<1>1. PICK at : AreBlocks(inode, I, t, at)
  BY BlocksOfIs
<1>2. t \in Seq(Block) /\ at \in [1 .. Len(t) -> Place]
  BY <1>1 DEF AreBlocks
<1>3. ASSUME NEW i \in 1 .. Len(t)
      PROVE  t[i] \in B \ Fixed /\ who[t[i]] = n /\ place[t[i]] = at[i] /\ at[i] \in Place
  <2>1. t[i] = BlockAt(inode, I, at[i]) /\ at[i] \in Place
    BY <1>1, <1>2 DEF AreBlocks
  <2>2. t[i] \in Block /\ t[i] # 0
    BY <1>2, Sizes
  <2>3. BlockAt(inode, I, at[i]) # 0
    BY <2>1, <2>2
  <2> QED BY <2>1, <2>3 DEF PlacesOwned
<1>4. \A i, j \in 1 .. Len(t) : at[i] = at[j] => i = j
  BY <1>1 DEF AreBlocks
<1> QED BY <1>2, <1>3, <1>4

LEMMA SpareJoined ==
  ASSUME NEW t \in Seq(Block), NEW s \in Seq(Block), NEW n, NEW B, NEW who, NEW place, SpareOwned(s, n, B, who, place),
         \A i, j \in 1 .. Len(t) : t[i] = t[j] => i = j,
         \A i \in 1 .. Len(t) : t[i] \in B \ Fixed /\ who[t[i]] = n /\ place[t[i]] \in Place, NEW place2,
         \A b \in B \ Fixed : who[b] = n => place2[b] = -1
  PROVE  SpareOwned(Reverse(t) \o s, n, B, who, place2)
<1>1. PICK r : r = Reverse(t) \o s
  OBVIOUS
<1>2. Len(t) \in Nat /\ Len(s) \in Nat /\ Reverse(t) = [i \in 1 .. Len(t) |-> t[Len(t) - i + 1]]
  BY DEF Reverse
<1>3. Reverse(t) \in Seq(Block) /\ Len(Reverse(t)) = Len(t)
  <2>1. \A i \in 1 .. Len(t) : Len(t) - i + 1 \in 1 .. Len(t)
    BY <1>2
  <2> QED BY <1>2, <2>1
<1>4. /\ Len(r) = Len(t) + Len(s)
      /\ \A i \in 1 .. Len(r) : r[i] = IF i <= Len(t) THEN t[Len(t) - i + 1] ELSE s[i - Len(t)]
  <2>1. PICK u \in Seq(Block) : u = Reverse(t)
    BY <1>3
  <2>2. Len(u \o s) = Len(u) + Len(s) /\ \A i \in 1 .. Len(u) + Len(s) : (u \o s)[i] = IF i <= Len(u) THEN u[i] ELSE s[i - Len(u)]
    OBVIOUS
  <2>3. \A i \in 1 .. Len(t) : u[i] = t[Len(t) - i + 1]
    BY <1>2, <2>1
  <2>4. Len(r) = Len(t) + Len(s) /\ \A i \in 1 .. Len(t) + Len(s) : r[i] = IF i <= Len(t) THEN u[i] ELSE s[i - Len(t)]
    BY <1>1, <1>3, <2>1, <2>2
  <2> QED BY <1>2, <2>3, <2>4
<1>5. ASSUME NEW i \in 1 .. Len(r)
      PROVE  /\ i <= Len(t) => Len(t) - i + 1 \in 1 .. Len(t)
             /\ ~(i <= Len(t)) => i - Len(t) \in 1 .. Len(s)
  BY <1>2, <1>4
<1>6. -1 \notin Place
  BY Sizes DEF Place
<1>7. ASSUME NEW i \in 1 .. Len(r)
      PROVE  r[i] \in B \ Fixed /\ who[r[i]] = n /\ (place[r[i]] = -1 <=> ~(i <= Len(t)))
  <2>1. CASE i <= Len(t)
    <3>1. r[i] = t[Len(t) - i + 1] /\ Len(t) - i + 1 \in 1 .. Len(t)
      BY <1>4, <1>5, <2>1
    <3> QED BY <1>6, <2>1, <3>1
  <2>2. CASE ~(i <= Len(t))
    <3>1. r[i] = s[i - Len(t)] /\ i - Len(t) \in 1 .. Len(s)
      BY <1>4, <1>5, <2>2
    <3> QED BY <2>2, <3>1 DEF SpareOwned
  <2> QED BY <2>1, <2>2
<1>8. ASSUME NEW i \in 1 .. Len(r), NEW j \in 1 .. Len(r), r[i] = r[j]
      PROVE  i = j
  <2>1. i <= Len(t) <=> j <= Len(t)
    BY <1>7, <1>8
  <2>2. CASE i <= Len(t)
    <3>1. t[Len(t) - i + 1] = t[Len(t) - j + 1] /\ Len(t) - i + 1 \in 1 .. Len(t) /\ Len(t) - j + 1 \in 1 .. Len(t)
      BY <1>4, <1>5, <1>8, <2>1, <2>2
    <3>2. Len(t) - i + 1 = Len(t) - j + 1
      BY <3>1
    <3> QED BY <1>2, <3>2
  <2>3. CASE ~(i <= Len(t))
    <3>1. s[i - Len(t)] = s[j - Len(t)] /\ i - Len(t) \in 1 .. Len(s) /\ j - Len(t) \in 1 .. Len(s)
      BY <1>4, <1>5, <1>8, <2>1, <2>3
    <3>2. i - Len(t) = j - Len(t)
      BY <3>1 DEF SpareOwned
    <3> QED BY <1>2, <3>2
  <2> QED BY <2>2, <2>3
<1>9. \A i \in 1 .. Len(r) : r[i] \in B \ Fixed /\ who[r[i]] = n /\ place2[r[i]] = -1
  BY <1>7
<1> QED BY <1>1, <1>8, <1>9 DEF SpareOwned

(* The node x alone, which Owned(f, n, ...) leaves out.                    *)
NodeOwned(f, n, who, place) ==
  /\ f.node[n] # NoNode
  /\ PlacesOwned(f.node[n], On(f).index, n, f.blocks, who, place)
  /\ SpareOwned(f.node[n].spare, n, f.blocks, who, place)

LEMMA OwnedTruncated ==
  ASSUME disk \in Image, NEW f, NEW who, NEW place, NEW n \in Inode, Owned(f, n, who, place), NodeOwned(f, n, who, place),
         NEW g, g = Truncated(f, n)
  PROVE  \E place2 :
           /\ Owned(g, n, who, place2) /\ (Unsaved(f) => Unsaved(g)) /\ NodeOwned(g, n, who, place2) /\ IsPart(g.node[n], EmptyInode)
           /\ On(g) = On(f) /\ g.blocks = f.blocks /\ g.inodes = f.inodes
<1>1. f \in FileSystem /\ f.node[n] # NoNode
  BY DEF Owned, NodeOwned
<1>2. PICK c \in Cached : c = f.node[n]
  BY <1>1, CachedIs
<1>3. PICK I : I = On(f).index
  OBVIOUS
<1>4. IsIndex(I) /\ HasBlocks(c)
  BY <1>1, <1>3, OnImage, CachedBlocks
<1>5. PICK t, s : t = BlocksOf(c, I) /\ s = c.spare
  OBVIOUS
<1>6. \E node \in Cached :
        /\ IsNode(f, Truncated(f, n), n, node)
        /\ node.links = f.node[n].links /\ node.empty = f.node[n].empty /\ node.opens = f.node[n].opens
        /\ node.direct = EmptyInode.direct /\ node.index = 0
        /\ node.spare = Reverse(BlocksOf(f.node[n], On(f).index)) \o f.node[n].spare
  BY <1>1, TruncatedIs
<1>7. PICK node \in Cached : /\ IsNode(f, g, n, node) /\ node.direct = EmptyInode.direct /\ node.index = 0
                             /\ node.spare = Reverse(t) \o s
  BY <1>2, <1>3, <1>5, <1>6
<1>8. PlacesOwned(c, I, n, f.blocks, who, place) /\ SpareOwned(s, n, f.blocks, who, place) /\ s \in Seq(Block)
  BY <1>2, <1>3, <1>5 DEF NodeOwned, Cached
<1>9. /\ t \in Seq(Block) /\ \A i, j \in 1 .. Len(t) : t[i] = t[j] => i = j
      /\ \A i \in 1 .. Len(t) : t[i] \in f.blocks \ Fixed /\ who[t[i]] = n /\ place[t[i]] \in Place
  BY <1>4, <1>5, <1>8, BlocksOwned
<1>10. PICK place2 : place2 = [b \in Block |-> IF who[b] = n THEN -1 ELSE place[b]]
  OBVIOUS
<1>11. f.blocks \subseteq Block
  BY <1>1 DEF FileSystem
<1>12. \A b \in f.blocks \ Fixed : /\ who[b] = n => place2[b] = -1
                                   /\ who[b] # n => who[b] = who[b] /\ place2[b] = place[b]
  BY <1>10, <1>11
<1>13. SpareOwned(node.spare, n, f.blocks, who, place2)
  <2>1. \A b \in f.blocks \ Fixed : who[b] = n => place2[b] = -1
    BY <1>12
  <2>2. SpareOwned(Reverse(t) \o s, n, f.blocks, who, place2)
    BY <1>8, <1>9, <2>1, SpareJoined
  <2> QED BY <1>7, <2>2
<1>14. /\ Owned(g, n, who, place2) /\ (Unsaved(f) => Unsaved(g))
       /\ On(g) = On(f) /\ g.blocks = f.blocks /\ g.inodes = f.inodes
  <2>1. \A b \in f.blocks \ Fixed : who[b] # n => who[b] = who[b] /\ place2[b] = place[b]
    BY <1>12
  <2> QED BY <1>7, <2>1, OwnedNode
<1>15. g.node[n] = node /\ node # NoNode
  BY <1>7, NotNoNode DEF IsNode
<1>16. IsPart(node, EmptyInode)
  BY <1>7 DEF IsPart
<1>17. NodeOwned(g, n, who, place2)
  BY <1>13, <1>14, <1>15, <1>16, EmptyOwned DEF NodeOwned
<1> QED BY <1>14, <1>15, <1>16, <1>17

LEMMA OwnedReleased ==
  ASSUME Aligned, disk \in Image, NEW f, NEW who, NEW place, NEW n \in Inode, Owned(f, n, who, place), Unsaved(f),
         n \in f.inodes \ stale => PlacesOwned(On(f).table[n], On(f).index, n, f.blocks, who, place),
         NEW s \in Seq(Block), SpareOwned(s, n, f.blocks, who, place), NEW h, h = FreeBlocks(f, s)
  PROVE  /\ Owned(h, n, who, place) /\ Unsaved(h) /\ h.node = f.node /\ h.inodes = f.inodes /\ h.blocks = f.blocks \ ToSet(s)
         /\ \A b \in h.blocks : On(h).index[b] = On(f).index[b]
         /\ On(h).table = On(f).table
<1>1. /\ f \in FileSystem /\ Fixed \subseteq f.blocks /\ On(f).blocks = f.blocks /\ On(f).inodes = f.inodes /\ Skipped(f) = stale
      /\ Counted(f)
  BY SkippedUnsaved DEF Owned, Flushed
<1>2. CASE s = <<>>
  <2>1. h = f
    BY <1>2, FreeBlocksIs
  <2>2. ToSet(s) = {}
    BY <1>2 DEF ToSet
  <2> QED BY <2>1, <2>2
<1>3. CASE s # <<>>
  <2>1. PICK r : r = Released(f, s)
    OBVIOUS
  <2>2. h = SaveSuperblock(FlushBlocks(r))
    BY <1>3, <2>1, FreeBlocksIs
  <2>3. s \in Seq(Block \ Fixed) /\ ToSet(s) \subseteq f.blocks /\ \A b \in ToSet(s) : b \notin Fixed /\ who[b] = n /\ place[b] = -1
    <3>1. \A i \in 1 .. Len(s) : s[i] \in f.blocks \ Fixed /\ who[s[i]] = n /\ place[s[i]] = -1
      BY DEF SpareOwned
    <3>2. DOMAIN s = 1 .. Len(s) /\ \A i \in 1 .. Len(s) : s[i] \in Block
      OBVIOUS
    <3>3. s \in Seq(Block \ Fixed)
      BY <3>1, <3>2
    <3> QED BY <3>1, <3>2, <3>3 DEF ToSet
  <2>4. IsReleased(f, r, s)
    BY <1>1, <2>1, <2>3, ReleasedIs
  <2>5. r \in FileSystem /\ r.blocks = f.blocks \ ToSet(s) /\ r.inodes = f.inodes /\ r.images = f.images /\ r.node = f.node
    BY <2>4 DEF IsReleased, IsFreed
  <2>6. Counted(r)
    <3>1. \A i, j \in 1 .. Len(s) : s[i] = s[j] => i = j
      BY DEF SpareOwned
    <3> QED BY <1>1, <2>3, <2>4, <3>1, CountedReleased
  <2>7. On(r) = On(f) /\ Unsaved(r) /\ Fixed \subseteq r.blocks /\ Fixed \subseteq On(r).blocks /\ On(r).inodes = r.inodes
    BY <1>1, <2>3, <2>5, OnSame DEF Unsaved
  <2>8. r.blocks \cap On(r).blocks = r.blocks
    BY <1>1, <2>5, <2>7
  <2>9. ASSUME NEW m \in r.inodes \ stale
        PROVE  PlacesOwned(On(r).table[m], On(r).index, m, r.blocks \cap On(r).blocks, who, place)
    <3>1. m \in f.inodes /\ m \in Inode /\ m \notin Skipped(f)
      BY <1>1, <2>5 DEF FileSystem
    <3>2. PlacesOwned(On(f).table[m], On(f).index, m, f.blocks, who, place)
      <4>1. CASE m = n
        BY <2>9, <3>1, <4>1
      <4>2. CASE m # n
        BY <3>1, <4>2, TableOwned
      <4> QED BY <4>1, <4>2
    <3>3. -1 \notin Place
      BY Sizes DEF Place
    <3>4. \A b \in f.blocks \ Fixed : who[b] = m /\ place[b] \in Place => b \in r.blocks /\ who[b] = m /\ place[b] = place[b]
      BY <2>3, <2>5, <3>3
    <3>5. PlacesOwned(On(f).table[m], On(f).index, m, r.blocks, who, place)
      BY <3>2, <3>4, PlacesKept
    <3> QED BY <2>7, <2>8, <3>5
  <2>10. AreSaved(r, h)
    BY <2>2, <2>5, <2>7, <2>9, BlocksAreSaved
  <2>11. Owned(h, n, who, place) /\ Unsaved(h) /\ On(h).table = On(f).table
    <3>1. \A b \in f.blocks \ Fixed : who[b] # n => b \in r.blocks /\ who[b] = who[b] /\ place[b] = place[b]
      BY <2>3, <2>5
    <3>2. \A m \in Inode \ {n} : r.node[m] = f.node[m]
      BY <2>5
    <3> QED BY <2>5, <2>6, <2>7, <2>10, <3>1, <3>2, OwnedSaved
  <2>12. /\ h.node = f.node /\ h.inodes = f.inodes /\ h.blocks = f.blocks \ ToSet(s)
         /\ \A b \in h.blocks : On(h).index[b] = On(f).index[b]
    BY <2>5, <2>7, <2>10 DEF AreSaved
  <2> QED BY <2>11, <2>12
<1> QED BY <1>2, <1>3

LEMMA OwnedFreeNode ==
  ASSUME Aligned, disk \in Image, NEW f, NEW who, NEW place, NEW n \in Inode, Owned(f, 0, who, place), Unsaved(f),
         f.node[n] # NoNode, n \in f.inodes \ FixedInodes, NEW g, g = FreeNode(f, n)
  PROVE  g.node[n] = NoNode /\ \E place2 : Owned(g, 0, who, place2)
<1>1. InodeOwned(f, n, who, place)
  BY OwnedSplit
<1>2. PICK g2 : g2 = FreeInode(f, n)
  OBVIOUS
<1>3. /\ Owned(g2, n, who, place) /\ Unsaved(g2) /\ g2.node = f.node /\ g2.inodes = f.inodes \ {n} /\ g2.blocks = f.blocks
      /\ On(g2).index = On(f).index
  BY <1>2, OwnedFreeInode
<1>4. NodeOwned(g2, n, who, place)
  BY <1>1, <1>3 DEF InodeOwned, NodeOwned
<1>5. PICK g3 : g3 = Truncated(g2, n)
  OBVIOUS
<1>6. PICK place2 : /\ Owned(g3, n, who, place2) /\ Unsaved(g3) /\ NodeOwned(g3, n, who, place2) /\ IsPart(g3.node[n], EmptyInode)
                    /\ g3.inodes = f.inodes \ {n}
  BY <1>3, <1>4, <1>5, OwnedTruncated
<1>7. PICK s \in Seq(Block) : s = g3.node[n].spare
  <2>1. g3.node[n] \in Cached
    BY <1>6, CachedIs DEF Owned, NodeOwned
  <2> QED BY <2>1 DEF Cached
<1>8. PICK g4 : g4 = FreeBlocks(g3, s)
  OBVIOUS
<1>9. Owned(g4, n, who, place2) /\ Unsaved(g4) /\ g4.node = g3.node /\ g4.inodes = g3.inodes
  <2>1. SpareOwned(s, n, g3.blocks, who, place2) /\ n \notin g3.inodes
    BY <1>6, <1>7 DEF NodeOwned
  <2> QED BY <1>6, <1>8, <2>1, OwnedReleased
<1>10. PICK g5 : g5 = SaveInode(g4, n)
  OBVIOUS
<1>11. /\ Owned(g5, n, who, place2) /\ g5.node = g4.node /\ g5.inodes = g4.inodes
       /\ On(g5).table[n].direct = g4.node[n].direct /\ On(g5).table[n].index = g4.node[n].index
  <2>1. g4.node[n] # NoNode
    BY <1>6, <1>9 DEF NodeOwned
  <2>2. Owned(g4, n, who, place2) /\ Unsaved(g4)
    BY <1>9
  <2> QED BY <1>10, <2>1, <2>2, OwnedSaveInode
<1>12. IsPart(On(g5).table[n], EmptyInode)
  BY <1>6, <1>9, <1>11 DEF IsPart
<1>13. g = [g5 EXCEPT !.node[n] = NoNode]
  BY <1>2, <1>5, <1>7, <1>8, <1>10, Zenon DEF FreeNode
<1>14. IsNode(g5, g, n, NoNode)
  <2>1. g5 \in FileSystem
    BY <1>11 DEF Owned
  <2> QED BY <1>13, <2>1, NodeReplaced
<1>15. /\ Owned(g, n, who, place2) /\ On(g) = On(g5) /\ g.inodes = g5.inodes
  BY <1>11, <1>14, OwnedNode
<1>16. g.node[n] = NoNode
  BY <1>14 DEF IsNode
<1>17. InodeOwned(g, n, who, place2)
  BY <1>6, <1>9, <1>11, <1>12, <1>15, <1>16 DEF InodeOwned
<1>18. Owned(g, 0, who, place2)
  BY <1>15, <1>17, OwnedSplit
<1> QED BY <1>16, <1>18

Recounted(f, n, g) ==
  \/ g = IncLinkCount(f, n)
  \/ g = [f EXCEPT !.node[n].links = @ - 1]
  \/ g = [f EXCEPT !.node[n].opens = @ + 1]
  \/ g = [f EXCEPT !.node[n].opens = @ - 1] /\ f.node[n].opens > 0
  \/ g = EmptySet(f, n, TRUE) \/ g = EmptySet(f, n, FALSE)
LEMMA OwnedLinks ==
  ASSUME NEW f, NEW who, NEW place, Owned(f, 0, who, place), NEW n \in Inode, f.node[n] # NoNode, NEW g, Recounted(f, n, g)
  PROVE  Owned(g, 0, who, place) /\ (Unsaved(f) => Unsaved(g)) /\ g.node[n] # NoNode /\ On(g) = On(f) /\ g.inodes = f.inodes
<1>1. f \in FileSystem
  BY DEF Owned
<1>2. PICK c \in Cached : c = f.node[n]
  BY <1>1, CachedIs
<1>3. c.links \in Int /\ c.opens \in Nat /\ c.links + 1 \in Int /\ c.links - 1 \in Int /\ c.opens + 1 \in Nat
  BY DEF Cached
<1>4. \E d \in Cached : IsNode(f, g, n, d) /\ d.direct = c.direct /\ d.index = c.index /\ d.spare = c.spare
  <2>1. CASE g = IncLinkCount(f, n)
    <3>1. PICK d : d = [c EXCEPT !.links = @ + 1]
      OBVIOUS
    <3>2. d = [c EXCEPT !.links = c.links + 1]
      BY <3>1
    <3>3. d \in Cached
      BY <1>3, <3>2, CachedChanges
    <3>4. d.direct = c.direct /\ d.index = c.index /\ d.spare = c.spare
      BY <3>2 DEF Cached
    <3>5. IsNode(f, g, n, d)
      BY <1>1, <1>2, <2>1, <3>1, LinksChanged
    <3> QED BY <3>3, <3>4, <3>5
  <2>2. CASE g = [f EXCEPT !.node[n].links = @ - 1]
    <3>1. PICK d : d = [c EXCEPT !.links = @ - 1]
      OBVIOUS
    <3>2. d = [c EXCEPT !.links = c.links - 1]
      BY <3>1
    <3>3. d \in Cached
      BY <1>3, <3>2, CachedChanges
    <3>4. d.direct = c.direct /\ d.index = c.index /\ d.spare = c.spare
      BY <3>2 DEF Cached
    <3>5. IsNode(f, g, n, d)
      BY <1>1, <1>2, <2>2, <3>1, LinksChanged
    <3> QED BY <3>3, <3>4, <3>5
  <2>3. CASE g = [f EXCEPT !.node[n].opens = @ + 1]
    <3>1. PICK d : d = [c EXCEPT !.opens = @ + 1]
      OBVIOUS
    <3>2. d = [c EXCEPT !.opens = c.opens + 1]
      BY <3>1
    <3>3. d \in Cached
      BY <1>3, <3>2, CachedChanges
    <3>4. d.direct = c.direct /\ d.index = c.index /\ d.spare = c.spare
      BY <3>2 DEF Cached
    <3>5. IsNode(f, g, n, d)
      BY <1>1, <1>2, <2>3, <3>1, OpensChanged
    <3> QED BY <3>3, <3>4, <3>5
  <2>4. CASE g = [f EXCEPT !.node[n].opens = @ - 1] /\ f.node[n].opens > 0
    <3>1. PICK d : d = [c EXCEPT !.opens = @ - 1]
      OBVIOUS
    <3>2. d = [c EXCEPT !.opens = c.opens - 1] /\ c.opens - 1 \in Nat
      BY <1>2, <1>3, <2>4, <3>1
    <3>3. d \in Cached
      BY <3>2, CachedChanges
    <3>4. d.direct = c.direct /\ d.index = c.index /\ d.spare = c.spare
      BY <3>2 DEF Cached
    <3>5. IsNode(f, g, n, d)
      BY <1>1, <1>2, <2>4, <3>1, OpensChanged
    <3> QED BY <3>3, <3>4, <3>5
  <2>5. ASSUME NEW e \in BOOLEAN, g = EmptySet(f, n, e)
        PROVE  \E d \in Cached : IsNode(f, g, n, d) /\ d.direct = c.direct /\ d.index = c.index /\ d.spare = c.spare
    <3>1. PICK d : d = [c EXCEPT !.empty = e]
      OBVIOUS
    <3>2. d \in Cached
      BY <3>1, CachedChanges
    <3>3. d.direct = c.direct /\ d.index = c.index /\ d.spare = c.spare
      BY <3>1 DEF Cached
    <3>4. IsNode(f, g, n, d)
      BY <1>1, <1>2, <2>5, <3>1, EmptyChanged DEF EmptySet
    <3> QED BY <3>2, <3>3, <3>4
  <2> QED BY <2>1, <2>2, <2>3, <2>4, <2>5 DEF Recounted
<1>5. PICK d \in Cached : IsNode(f, g, n, d) /\ d.direct = f.node[n].direct /\ d.index = f.node[n].index /\ d.spare = f.node[n].spare
  BY <1>2, <1>4
<1> QED BY <1>5, OwnedCounts

LEMMA OwnedDecLinkCount ==
  ASSUME Aligned, disk \in Image, NEW f, NEW who, NEW place, NEW n \in Inode, Owned(f, 0, who, place), Unsaved(f),
         f.node[n] # NoNode, n \in f.inodes \ FixedInodes, NEW g, g = DecLinkCount(f, n)
  PROVE  /\ \E place2 : Owned(g, 0, who, place2)
         /\ g.node[n] # NoNode => Unsaved(g) /\ n \in g.inodes
<1>1. PICK less : less = [f EXCEPT !.node[n].links = @ - 1]
  OBVIOUS
<1>2. Owned(less, 0, who, place) /\ Unsaved(less) /\ less.node[n] # NoNode /\ less.inodes = f.inodes
  <2>1. Recounted(f, n, less)
    BY <1>1, Zenon DEF Recounted
  <2> QED BY <2>1, OwnedLinks
<1>3. g = IF less.node[n].links = 0 THEN FreeNode(less, n) ELSE less
  BY <1>1, Zenon DEF DecLinkCount
<1>4. CASE less.node[n].links = 0
  <2>1. n \in less.inodes \ FixedInodes
    BY <1>2
  <2> QED BY <1>2, <1>3, <1>4, <2>1, OwnedFreeNode
<1>5. CASE less.node[n].links # 0
  BY <1>2, <1>3, <1>5
<1> QED BY <1>4, <1>5

LEMMA OwnedFileOpened ==
  ASSUME NEW f, NEW who, NEW place, NEW n \in Inode, Owned(f, 0, who, place), f.node[n] # NoNode
  PROVE  Owned(FileOpened(f, n), 0, who, place)
<1>1. PICK g : g = [f EXCEPT !.node[n].opens = @ + 1]
  OBVIOUS
<1>2. Owned(g, 0, who, place) /\ g.node[n] # NoNode
  <2>1. Recounted(f, n, g)
    BY <1>1, Zenon DEF Recounted
  <2> QED BY <2>1, OwnedLinks
<1>3. Owned(IncLinkCount(g, n), 0, who, place)
  <2>1. Recounted(g, n, IncLinkCount(g, n))
    BY Zenon DEF Recounted
  <2> QED BY <1>2, <2>1, OwnedLinks
<1> QED BY <1>1, <1>3 DEF FileOpened

LEMMA SubSeqIs ==
  ASSUME NEW s \in Seq(Block), NEW a \in Nat \ {0}, NEW b \in Nat, b <= Len(s), NEW t, t = SubSeq(s, a, b)
  PROVE  t \in Seq(Block) /\ \A i \in 1 .. Len(t) : i + a - 1 \in a .. b /\ i + a - 1 \in 1 .. Len(s) /\ t[i] = s[i + a - 1]
OBVIOUS

IsTrimmed(f, g, n, who, place) ==
  Owned(g, 0, who, place) /\ Unsaved(g) /\ g.node[n] # NoNode /\ g.inodes = f.inodes
LEMMA OwnedSpareFreed ==
  ASSUME Aligned, disk \in Image, NEW f, NEW who, NEW place, NEW n \in Inode, Owned(f, 0, who, place), Unsaved(f),
         f.node[n] # NoNode, n \in f.inodes, NEW kept, kept \in Nat, NEW g, g = SpareFreed(f, n, kept)
  PROVE  IsTrimmed(f, g, n, who, place)
<1>1. f \in FileSystem /\ Skipped(f) = stale /\ Owned(f, n, who, place) /\ InodeOwned(f, n, who, place)
  BY SkippedUnsaved, OwnedSplit DEF Owned
<1>2. PICK c \in Cached : c = f.node[n]
  BY <1>1, CachedIs
<1>3. PICK s \in Seq(Block) : s = c.spare
  BY DEF Cached
<1>4. PICK m \in Nat, len \in Nat : len = Len(s) /\ m = (IF kept < Len(s) THEN kept ELSE Len(s))
  OBVIOUS
<1>5. m <= len /\ (m < len => m = kept) /\ (m = len => len <= kept)
  BY <1>4
<1>6. PICK tail, front : tail = SubSeq(s, kept + 1, len) /\ front = SubSeq(s, 1, m)
  OBVIOUS
<1>7. /\ tail \in Seq(Block) /\ front \in Seq(Block)
      /\ \A i \in 1 .. Len(tail) : i + kept \in 1 .. len /\ i + kept > m /\ tail[i] = s[i + kept]
      /\ \A i \in 1 .. Len(front) : i \in 1 .. len /\ i <= m /\ front[i] = s[i]
  <2>1. kept + 1 \in Nat \ {0} /\ 1 \in Nat \ {0} /\ len <= Len(s) /\ m <= Len(s)
    BY <1>4, <1>5
  <2>2. /\ tail \in Seq(Block)
        /\ \A i \in 1 .. Len(tail) : i + (kept + 1) - 1 \in kept + 1 .. len /\ tail[i] = s[i + (kept + 1) - 1]
    BY <1>6, <2>1, SubSeqIs
  <2>3. front \in Seq(Block) /\ \A i \in 1 .. Len(front) : i + 1 - 1 \in 1 .. m /\ front[i] = s[i + 1 - 1]
    BY <1>6, <2>1, SubSeqIs
  <2>4. ASSUME NEW i \in 1 .. Len(tail)
        PROVE  i + kept \in 1 .. len /\ i + kept > m /\ tail[i] = s[i + kept]
    <3>1. i + (kept + 1) - 1 = i + kept
      OBVIOUS
    <3>2. i + kept \in kept + 1 .. len /\ tail[i] = s[i + kept]
      BY <2>2, <3>1
    <3> QED BY <1>4, <3>2
  <2>5. ASSUME NEW i \in 1 .. Len(front)
        PROVE  i \in 1 .. len /\ i <= m /\ front[i] = s[i]
    <3>1. i + 1 - 1 = i
      OBVIOUS
    <3>2. i \in 1 .. m /\ front[i] = s[i]
      BY <2>3, <3>1
    <3> QED BY <1>4, <1>5, <3>2
  <2> QED BY <2>2, <2>3, <2>4, <2>5
<1>8. PlacesOwned(c, On(f).index, n, f.blocks, who, place) /\ SpareOwned(s, n, f.blocks, who, place)
  BY <1>1, <1>2, <1>3 DEF InodeOwned
<1>9. /\ \A i \in 1 .. len : s[i] \in f.blocks \ Fixed /\ who[s[i]] = n /\ place[s[i]] = -1
      /\ \A i, j \in 1 .. len : s[i] = s[j] => i = j
  BY <1>4, <1>8 DEF SpareOwned
<1>10. SpareOwned(tail, n, f.blocks, who, place)
  <2>1. ASSUME NEW i \in 1 .. Len(tail), NEW j \in 1 .. Len(tail), tail[i] = tail[j]
        PROVE  i = j
    <3>1. i + kept = j + kept
      BY <1>7, <1>9, <2>1
    <3> QED BY <3>1
  <2>2. \A i \in 1 .. Len(tail) : tail[i] \in f.blocks \ Fixed /\ who[tail[i]] = n /\ place[tail[i]] = -1
    BY <1>7, <1>9
  <2> QED BY <2>1, <2>2 DEF SpareOwned
<1>11. PICK h : h = FreeBlocks(f, tail)
  OBVIOUS
<1>12. /\ Owned(h, n, who, place) /\ Unsaved(h) /\ h.node = f.node /\ h.inodes = f.inodes /\ h.blocks = f.blocks \ ToSet(tail)
       /\ \A b \in h.blocks : On(h).index[b] = On(f).index[b]
       /\ On(h).table = On(f).table
  <2>1. n \in f.inodes \ stale => PlacesOwned(On(f).table[n], On(f).index, n, f.blocks, who, place)
    <3>1. n # 0
      BY Sizes
    <3> QED BY <1>1, <3>1, TableOwned
  <2> QED BY <1>1, <1>7, <1>10, <1>11, <2>1, OwnedReleased
<1>13. \A b \in ToSet(tail) : who[b] = n /\ place[b] = -1
  <2>1. \A b \in ToSet(tail) : \E i \in 1 .. Len(tail) : b = tail[i]
    BY <1>7 DEF ToSet
  <2> QED BY <1>10, <2>1 DEF SpareOwned
<1>14. PlacesOwned(c, On(h).index, n, h.blocks, who, place)
  <2>1. -1 \notin Place /\ Direct + PerIndex # -1
    BY Sizes DEF Place
  <2>2. /\ \A b \in f.blocks \ Fixed : who[b] = n /\ place[b] \in Place => b \in h.blocks /\ who[b] = n /\ place[b] = place[b]
        /\ \A b \in f.blocks \ Fixed : who[b] = n /\ place[b] = Direct + PerIndex => On(h).index[b] = On(f).index[b]
    BY <1>12, <1>13, <2>1
  <2> QED BY <1>8, <2>2, PlacesKept
<1>15. SpareOwned(front, n, h.blocks, who, place)
  <2>1. ASSUME NEW i \in 1 .. Len(front)
        PROVE  front[i] \in h.blocks \ Fixed /\ who[front[i]] = n /\ place[front[i]] = -1
    <3>1. front[i] = s[i] /\ i \in 1 .. len /\ i <= m
      BY <1>7
    <3>2. \A j \in 1 .. Len(tail) : tail[j] # s[i]
      <4>1. ASSUME NEW j \in 1 .. Len(tail), tail[j] = s[i]
            PROVE  FALSE
        <5>1. j + kept \in 1 .. len /\ j + kept > m /\ s[j + kept] = s[i]
          BY <1>7, <4>1
        <5>2. j + kept = i
          BY <1>9, <3>1, <5>1
        <5> QED BY <3>1, <5>1, <5>2
      <4> QED BY <4>1
    <3>3. s[i] \notin ToSet(tail)
      BY <1>7, <3>2 DEF ToSet
    <3> QED BY <1>9, <1>12, <3>1, <3>3
  <2>2. \A i, j \in 1 .. Len(front) : front[i] = front[j] => i = j
    BY <1>7, <1>9
  <2> QED BY <2>1, <2>2 DEF SpareOwned
<1>16. g = SpareSet(h, n, front)
  BY <1>2, <1>3, <1>4, <1>6, <1>11, Zenon DEF SpareFreed, SpareSet
<1>17. PICK d \in Cached : d = [c EXCEPT !.spare = front]
  BY <1>7, CachedChanges
<1>18. d.direct = c.direct /\ d.index = c.index /\ d.spare = front
  BY <1>17 DEF Cached
<1>19. IsNode(h, g, n, d)
  <2>1. h \in FileSystem /\ h.node[n] # NoNode /\ h.node[n] = c
    BY <1>2, <1>12 DEF Owned
  <2> QED BY <1>7, <1>16, <1>17, <2>1, SpareChanged DEF SpareSet
<1>20. /\ Owned(g, n, who, place) /\ Unsaved(g)
       /\ On(g) = On(h) /\ Skipped(g) = Skipped(h) /\ g.blocks = h.blocks /\ g.inodes = h.inodes
  BY <1>12, <1>19, OwnedNode
<1>21. g.node[n] = d /\ d # NoNode
  BY <1>19, NotNoNode DEF IsNode
<1>22. PlacesOwned(d, On(h).index, n, h.blocks, who, place)
  BY <1>14, <1>18 DEF PlacesOwned, BlockAt
<1>23. n \notin stale => IsPart(On(g).table[n], d)
  BY <1>1, <1>2, <1>12, <1>18, <1>20 DEF InodeOwned, IsPart
<1>24. Skipped(g) = stale
  BY <1>20, SkippedUnsaved
<1>25. InodeOwned(g, n, who, place)
  BY <1>12, <1>15, <1>18, <1>20, <1>21, <1>22, <1>23, <1>24 DEF InodeOwned
<1>26. Owned(g, 0, who, place)
  BY <1>20, <1>25, OwnedSplit
<1> QED BY <1>12, <1>20, <1>21, <1>26 DEF IsTrimmed

LEMMA OwnedLastClosed ==
  ASSUME Aligned, disk \in Image, NEW f, NEW who, NEW place, NEW n \in Inode, Owned(f, 0, who, place), Unsaved(f),
         f.node[n] # NoNode, n \in f.inodes, n \notin FixedInodes, NEW kept, kept \in Nat,
         NEW g, g = SpareFreed(f, n, kept), NEW h, h = DecLinkCount(g, n)
  PROVE  /\ \E place2 : Owned(h, 0, who, place2)
         /\ h.node[n] # NoNode => Unsaved(h) /\ n \in h.inodes
<1>1. IsTrimmed(f, g, n, who, place)
  BY OwnedSpareFreed
<1>2. Owned(g, 0, who, place) /\ Unsaved(g) /\ g.node[n] # NoNode /\ n \in g.inodes \ FixedInodes
  BY <1>1 DEF IsTrimmed
<1> QED BY <1>2, OwnedDecLinkCount

LEMMA OwnedFileClosed ==
  ASSUME Aligned, disk \in Image, NEW f, NEW who, NEW place, NEW n \in Inode, Owned(f, 0, who, place), Unsaved(f),
         f.node[n] # NoNode, f.node[n].opens > 0, n \in f.inodes \ FixedInodes, NEW g, g = FileClosed(f, n)
  PROVE  \E place2 : Owned(g, 0, who, place2)
<1>1. PICK less : less = [f EXCEPT !.node[n].opens = @ - 1]
  OBVIOUS
<1>2. Owned(less, 0, who, place) /\ Unsaved(less) /\ less.node[n] # NoNode /\ n \in less.inodes /\ n \notin FixedInodes
  <2>1. Recounted(f, n, less)
    BY <1>1, Zenon DEF Recounted
  <2>2. Owned(less, 0, who, place) /\ Unsaved(less) /\ less.node[n] # NoNode /\ less.inodes = f.inodes
    BY <2>1, OwnedLinks
  <2> QED BY <2>2
<1>3. PICK kept : kept = IF less.node[n].opens = 0 THEN 0 ELSE Keep
  OBVIOUS
<1>4. kept \in Nat
  BY <1>3, Ext2Assumption
<1>5. PICK final : final = DecLinkCount(SpareFreed(less, n, kept), n)
  OBVIOUS
<1>6. /\ \E place2 : Owned(final, 0, who, place2)
      /\ final.node[n] # NoNode => Unsaved(final) /\ n \in final.inodes
  BY <1>2, <1>4, <1>5, OwnedLastClosed
<1>7. g = IF final.node[n] = NoNode THEN final ELSE SaveInode(final, n)
  BY <1>1, <1>3, <1>5, Zenon DEF FileClosed
<1>8. CASE final.node[n] = NoNode
  BY <1>6, <1>7, <1>8
<1>9. CASE final.node[n] # NoNode
  <2>1. PICK place2 : Owned(final, 0, who, place2)
    BY <1>6
  <2>2. Owned(final, n, who, place2) /\ InodeOwned(final, n, who, place2)
    BY <2>1, OwnedSplit
  <2>3. g = SaveInode(final, n) /\ Unsaved(final) /\ n \in final.inodes
    BY <1>6, <1>7, <1>9
  <2>4. PlacesOwned(final.node[n], On(final).index, n, final.blocks, who, place2) /\ SpareOwned(final.node[n].spare, n, final.blocks, who, place2)
    BY <1>9, <2>2 DEF InodeOwned
  <2>5. Owned(g, 0, who, place2)
    BY <1>9, <2>2, <2>3, <2>4, OwnedKeptInode
  <2> QED BY <2>5
<1> QED BY <1>8, <1>9

-----------------------------------------------------------------------------
(* The invariant.  One restart finds free inodes with blocks; of such an   *)
(* inode, created again, a second one could find the blocks of another.    *)
OwnedInv ==
  /\ NamesInv /\ disk \in DiskImages /\ (crashes = 0 => stale = {})
  /\ \E who, place : Owned(fs, 0, who, place)

LEMMA OwnedBegins ==
  ASSUME OwnedInv, Called
  PROVE  /\ disk \in Image /\ fs \in FileSystem /\ On(fs) = disk /\ Unsaved(fs)
         /\ \A n \in Inode : fs.node[n] # NoNode => n \in fs.inodes \ FixedInodes
         /\ \A name \in Names : disk.names[name] # 0 => disk.names[name] \in fs.inodes \ FixedInodes /\ disk.names[name] \in Inode
<1>1. /\ disk \in Image /\ fs \in FileSystem /\ On(fs) = disk
      /\ \A name \in Names : disk.names[name] # 0 => disk.names[name] \in fs.inodes \ FixedInodes
  BY CallBegins DEF OwnedInv
<1>2. Unsaved(fs)
  <2>1. fs.images = <<>>
    BY DEF Called, Written
  <2> QED BY <1>1, <2>1 DEF Unsaved
<1>3. \A n \in Inode : fs.node[n] # NoNode => n \in fs.inodes \ FixedInodes
  <2>1. \A n \in Inode \ {0} : InUse(fs, n)
    BY DEF OwnedInv, NamesInv, NamesKept
  <2> QED BY <2>1, Sizes DEF InUse
<1>4. fs.inodes \subseteq Inode
  BY <1>1 DEF FileSystem
<1> QED BY <1>1, <1>2, <1>3, <1>4

LEMMA OwnedCalled ==
  ASSUME OwnedInv, NamesInv', Called, NEW g, fs' = g, \E who, place : Owned(g, 0, who, place)
  PROVE  OwnedInv'
<1>1. disk' = disk /\ crashes' = crashes /\ torn' = torn /\ stale' = stale
  BY DEF Called
<1>2. DiskImages' = DiskImages
  BY <1>1 DEF DiskImages, DiskOwned
<1>3. PICK who, place : Owned(g, 0, who, place)
  OBVIOUS
<1>4. Owned(fs, 0, who, place)'
  BY <1>1, <1>2, <1>3 DEF Owned, Flushed, Counted, InodeOwned, Skipped, On
<1> QED BY <1>1, <1>2, <1>4 DEF OwnedInv

LEMMA OwnedOpen ==
  ASSUME OwnedInv, NamesInv', NEW name \in Names, Open(name)
  PROVE  OwnedInv'
<1>1. PICK n : n = disk.names[name]
  OBVIOUS
<1>2. Called /\ n # 0
  BY <1>1 DEF Open
<1>3. disk \in Image /\ n \in fs.inodes /\ n \in Inode
  BY <1>1, <1>2, OwnedBegins
<1>4. PICK f : f = Loaded(fs, n)
  OBVIOUS
<1>5. PICK who, place : Owned(fs, 0, who, place)
  BY DEF OwnedInv
<1>6. Owned(f, 0, who, place) /\ f.node[n] # NoNode
  BY <1>3, <1>4, <1>5, OwnedLoaded
<1>7. Owned(FileOpened(f, n), 0, who, place)
  BY <1>3, <1>6, OwnedFileOpened
<1>8. fs' = FileOpened(f, n)
  BY <1>1, <1>4 DEF Open
<1> QED BY <1>2, <1>7, <1>8, OwnedCalled

LEMMA OwnedOpenTruncate ==
  ASSUME OwnedInv, NamesInv', NEW name \in Names, OpenTruncate(name)
  PROVE  OwnedInv'
<1>1. PICK n : n = disk.names[name]
  OBVIOUS
<1>2. Called /\ n # 0
  BY <1>1 DEF OpenTruncate
<1>3. disk \in Image /\ n \in fs.inodes /\ n \in Inode /\ Unsaved(fs)
  BY <1>1, <1>2, OwnedBegins
<1>4. PICK f : f = Loaded(fs, n)
  OBVIOUS
<1>5. PICK who, place : Owned(fs, 0, who, place)
  BY DEF OwnedInv
<1>6. Owned(f, 0, who, place) /\ f.node[n] # NoNode /\ Unsaved(f) /\ f.inodes = fs.inodes
  BY <1>3, <1>4, <1>5, OwnedLoaded
<1>7. PICK g : g = Truncated(f, n)
  OBVIOUS
<1>8. Owned(f, n, who, place) /\ NodeOwned(f, n, who, place)
  BY <1>3, <1>6, OwnedSplit DEF InodeOwned, NodeOwned
<1>9. PICK place2 : /\ Owned(g, n, who, place2) /\ Unsaved(g) /\ NodeOwned(g, n, who, place2) /\ IsPart(g.node[n], EmptyInode)
                    /\ On(g) = On(f) /\ g.inodes = f.inodes
  BY <1>3, <1>6, <1>7, <1>8, OwnedTruncated
<1>10. PICK h : h = [g EXCEPT !.node[n].empty = TRUE]
  OBVIOUS
<1>11. PICK c \in Cached, e \in Cached : /\ c = g.node[n] /\ IsNode(g, h, n, e)
                                         /\ e.direct = c.direct /\ e.index = c.index /\ e.spare = c.spare
  <2>1. g \in FileSystem /\ g.node[n] # NoNode
    BY <1>9 DEF Owned, NodeOwned
  <2>2. PICK c \in Cached : c = g.node[n]
    BY <1>3, <2>1, CachedIs
  <2>3. PICK e \in Cached : e = [c EXCEPT !.empty = TRUE]
    BY CachedChanges
  <2>4. IsNode(g, h, n, e)
    BY <1>3, <1>10, <2>1, <2>2, <2>3, EmptyChanged
  <2>5. e.direct = c.direct /\ e.index = c.index /\ e.spare = c.spare
    BY <2>3 DEF Cached
  <2> QED BY <2>2, <2>4, <2>5
<1>12. Owned(h, n, who, place2) /\ Unsaved(h) /\ On(h) = On(g) /\ h.blocks = g.blocks /\ h.inodes = g.inodes
  BY <1>3, <1>9, <1>11, OwnedNode
<1>13. h.node[n] = e /\ e # NoNode
  BY <1>11, NotNoNode DEF IsNode
<1>14. PlacesOwned(e, On(h).index, n, h.blocks, who, place2) /\ SpareOwned(e.spare, n, h.blocks, who, place2)
  BY <1>9, <1>11, <1>12 DEF NodeOwned, PlacesOwned, BlockAt
<1>15. PICK i : i = SaveInode(h, n)
  OBVIOUS
<1>16. Owned(i, 0, who, place2) /\ i.node = h.node
  BY <1>3, <1>6, <1>9, <1>12, <1>13, <1>14, <1>15, OwnedKeptInode
<1>17. Owned(FileOpened(i, n), 0, who, place2)
  BY <1>3, <1>13, <1>16, OwnedFileOpened
<1>18. fs' = FileOpened(i, n)
  BY <1>1, <1>4, <1>7, <1>10, <1>15 DEF OpenTruncate
<1> QED BY <1>2, <1>17, <1>18, OwnedCalled

LEMMA OwnedClose ==
  ASSUME Aligned, OwnedInv, NamesInv', NEW n \in Inode, Close(n)
  PROVE  OwnedInv'
<1>1. Called /\ fs.node[n] # NoNode /\ fs.node[n].opens > 0 /\ fs' = FileClosed(fs, n)
  BY DEF Close, IsOpen
<1>2. disk \in Image /\ Unsaved(fs) /\ n \in fs.inodes \ FixedInodes
  BY <1>1, OwnedBegins
<1>3. PICK who, place : Owned(fs, 0, who, place)
  BY DEF OwnedInv
<1>4. PICK g : g = FileClosed(fs, n)
  OBVIOUS
<1>5. \E place2 : Owned(g, 0, who, place2)
  BY <1>1, <1>2, <1>3, <1>4, OwnedFileClosed
<1> QED BY <1>1, <1>4, <1>5, OwnedCalled

LEMMA OwnedLink ==
  ASSUME OwnedInv, NamesInv', NEW old \in Names, NEW name \in Names, Link(old, name)
  PROVE  OwnedInv'
<1>1. PICK n : n = disk.names[old]
  OBVIOUS
<1>2. Called /\ n # 0
  BY <1>1 DEF Link
<1>3. disk \in Image /\ n \in fs.inodes /\ n \in Inode /\ Unsaved(fs) /\ On(fs) = disk
  BY <1>1, <1>2, OwnedBegins
<1>4. PICK f : f = Loaded(fs, n)
  OBVIOUS
<1>5. PICK who, place : Owned(fs, 0, who, place)
  BY DEF OwnedInv
<1>6. Owned(f, 0, who, place) /\ f.node[n] # NoNode /\ Unsaved(f) /\ On(f) = disk
  BY <1>3, <1>4, <1>5, OwnedLoaded
<1>7. PICK g : g = NameSet(f, name, n)
  OBVIOUS
<1>8. Owned(g, 0, who, place) /\ g.node = f.node
  <2>1. On(f) \in DiskImages
    BY <1>3, <1>6, OwnedImage
  <2>2. n \in Inode \cup {0}
    BY <1>3
  <2> QED BY <1>3, <1>6, <1>7, <2>1, <2>2, OwnedName
<1>9. PICK h : h = IncLinkCount(g, n)
  OBVIOUS
<1>10. Owned(h, 0, who, place)
  <2>1. Recounted(g, n, h)
    BY <1>9, Zenon DEF Recounted
  <2>2. g.node[n] # NoNode
    BY <1>6, <1>8
  <2> QED BY <1>3, <1>8, <2>1, <2>2, OwnedLinks
<1>11. fs' = h
  BY <1>1, <1>4, <1>6, <1>7, <1>9 DEF Link, NameSet
<1> QED BY <1>2, <1>10, <1>11, OwnedCalled

LEMMA OwnedUnlink ==
  ASSUME Aligned, OwnedInv, NamesInv', NEW name \in Names, Unlink(name)
  PROVE  OwnedInv'
<1>1. PICK n : n = disk.names[name]
  OBVIOUS
<1>2. Called /\ n # 0
  BY <1>1 DEF Unlink
<1>3. disk \in Image /\ n \in fs.inodes \ FixedInodes /\ n \in Inode /\ Unsaved(fs) /\ On(fs) = disk
  BY <1>1, <1>2, OwnedBegins
<1>4. PICK f : f = Loaded(fs, n)
  OBVIOUS
<1>5. PICK who, place : Owned(fs, 0, who, place)
  BY DEF OwnedInv
<1>6. Owned(f, 0, who, place) /\ f.node[n] # NoNode /\ Unsaved(f) /\ On(f) = disk /\ f.inodes = fs.inodes
  BY <1>3, <1>4, <1>5, OwnedLoaded
<1>7. PICK g : g = NameSet(f, name, 0)
  OBVIOUS
<1>8. Owned(g, 0, who, place) /\ Unsaved(g) /\ g.node = f.node /\ g.inodes = f.inodes
  <2>1. On(f) \in DiskImages
    BY <1>3, <1>6, OwnedImage
  <2>2. 0 \in Inode \cup {0}
    OBVIOUS
  <2> QED BY <1>3, <1>6, <1>7, <2>1, <2>2, OwnedName
<1>9. PICK h : h = DecLinkCount(g, n)
  OBVIOUS
<1>10. \E place2 : Owned(h, 0, who, place2)
  <2>1. g.node[n] # NoNode /\ n \in g.inodes \ FixedInodes
    BY <1>3, <1>6, <1>8
  <2> QED BY <1>3, <1>8, <1>9, <2>1, OwnedDecLinkCount
<1>11. fs' = h
  BY <1>1, <1>4, <1>6, <1>7, <1>9 DEF Unlink, NameSet
<1> QED BY <1>2, <1>10, <1>11, OwnedCalled

LEMMA OwnedWriteBegins ==
  ASSUME OwnedInv, NEW n \in Inode, Called, IsOpen(n), ~NoSpace(fs, n), NEW f, f = Supplied(Sized(n), n)
  PROVE  \E who, place :
           /\ Owned(f, 0, who, place) /\ Unsaved(f) /\ f.node[n] # NoNode /\ f.node[n].spare # <<>>
           /\ f.node[n].direct = fs.node[n].direct /\ f.node[n].index = fs.node[n].index
<1>1. disk \in Image /\ fs \in FileSystem /\ fs.node[n] # NoNode /\ Unsaved(fs)
  BY OwnedBegins DEF IsOpen
<1>2. PICK who, place : Owned(fs, 0, who, place)
  BY DEF OwnedInv
<1>3. PICK c \in Cached : c = fs.node[n]
  BY <1>1, CachedIs
<1>4. PICK e \in Cached : e = [c EXCEPT !.empty = FALSE]
  BY CachedChanges
<1>5. PICK g : g = Sized(n)
  OBVIOUS
<1>6. IsNode(fs, g, n, e) /\ ~NoSpace(g, n)
  BY <1>1, <1>3, <1>4, <1>5, SizedIs
<1>7. e.direct = fs.node[n].direct /\ e.index = fs.node[n].index /\ e.spare = fs.node[n].spare
  BY <1>3, <1>4 DEF Cached
<1>8. Owned(g, 0, who, place) /\ Unsaved(g) /\ g.node[n] # NoNode
  BY <1>1, <1>2, <1>6, <1>7, OwnedCounts
<1>9. g.node[n] = e
  BY <1>6 DEF IsNode
<1>10. PICK who2, place2 : IsSupplied(g, f, n, who, place, who2, place2)
  BY <1>1, <1>5, <1>6, <1>8, OwnedSupplied
<1> QED BY <1>7, <1>9, <1>10 DEF IsSupplied

LEMMA OwnedWriteFull ==
  ASSUME OwnedInv, NamesInv', NEW n \in Inode, NEW i, WriteFull(n, i)
  PROVE  OwnedInv'
<1>1. Called /\ IsOpen(n) /\ fs' = Sized(n)
  BY DEF WriteFull
<1>2. fs \in FileSystem /\ fs.node[n] # NoNode
  BY <1>1, OwnedBegins DEF IsOpen
<1>3. PICK who, place : Owned(fs, 0, who, place)
  BY DEF OwnedInv
<1>4. PICK g : g = EmptySet(fs, n, FALSE)
  OBVIOUS
<1>5. Owned(g, 0, who, place)
  <2>1. Recounted(fs, n, g)
    BY <1>4, Zenon DEF Recounted
  <2> QED BY <1>2, <1>3, <2>1, OwnedLinks
<1>6. fs' = g
  BY <1>1, <1>4 DEF Sized, EmptySet
<1> QED BY <1>1, <1>5, <1>6, OwnedCalled

LEMMA OwnedWriteDirect ==
  ASSUME OwnedInv, NamesInv', NEW n \in Inode, NEW i \in 0 .. Direct + PerIndex - 1, WriteDirect(n, i)
  PROVE  OwnedInv'
<1>1. Called /\ IsOpen(n) /\ ~NoSpace(fs, n) /\ i < Direct /\ BlockAt(fs.node[n], disk.index, i) = 0
  BY DEF WriteDirect
<1>2. i \in 0 .. Direct - 1 /\ i # Direct + PerIndex /\ disk \in Image
  BY <1>1, Sizes, OwnedBegins
<1>3. PICK f : f = Supplied(Sized(n), n)
  OBVIOUS
<1>4. PICK who, place : /\ Owned(f, 0, who, place) /\ Unsaved(f) /\ f.node[n] # NoNode /\ f.node[n].spare # <<>>
                        /\ f.node[n].direct = fs.node[n].direct
  BY <1>1, <1>3, OwnedWriteBegins
<1>5. PICK b, g : b = Head(f.node[n].spare) /\ g = Taken(f, n)
  OBVIOUS
<1>6. PICK place2 : IsTaken(f, g, n, b, i, who, place, place2)
  BY <1>2, <1>4, <1>5, OwnedTaken
<1>7. /\ Owned(g, 0, who, place2) /\ Unsaved(g) /\ g.node[n] # NoNode /\ g.node[n].direct = f.node[n].direct
      /\ b \in Block /\ b \in g.blocks \ Fixed /\ who[b] = n /\ place2[b] = i
  BY <1>4, <1>6 DEF IsTaken
<1>8. g.node[n].direct[i] = 0
  BY <1>1, <1>4, <1>7 DEF BlockAt
<1>9. PICK h : h = DirectSet(g, n, i, b)
  OBVIOUS
<1>10. Owned(h, 0, who, place2) /\ Unsaved(h) /\ h.node[n] # NoNode
  BY <1>2, <1>7, <1>8, <1>9, OwnedDirect
<1>11. PICK k : k = WriteData(h, b)
  OBVIOUS
<1>12. Owned(k, 0, who, place2)
  BY <1>2, <1>7, <1>10, <1>11, OwnedWriteData
<1>13. fs' = k
  BY <1>3, <1>5, <1>9, <1>11 DEF WriteDirect, DirectSet
<1> QED BY <1>1, <1>12, <1>13, OwnedCalled

LEMMA OwnedWriteIndexed ==
  ASSUME OwnedInv, NamesInv', NEW n \in Inode, NEW i \in 0 .. Direct + PerIndex - 1, WriteIndexed(n, i)
  PROVE  OwnedInv'
<1>1. Called /\ IsOpen(n) /\ ~NoSpace(fs, n) /\ i >= Direct /\ fs.node[n].index # 0
  BY DEF WriteIndexed
<1>2. i \in IndexPlace /\ i # Direct + PerIndex /\ disk \in Image
  BY <1>1, Sizes, OwnedBegins DEF IndexPlace
<1>3. PICK f : f = Supplied(Sized(n), n)
  OBVIOUS
<1>4. PICK who, place : /\ Owned(f, 0, who, place) /\ Unsaved(f) /\ f.node[n] # NoNode /\ f.node[n].spare # <<>>
                        /\ f.node[n].index = fs.node[n].index
  BY <1>1, <1>3, OwnedWriteBegins
<1>5. PICK b, g : b = Head(f.node[n].spare) /\ g = Taken(f, n)
  OBVIOUS
<1>6. PICK place2 : IsTaken(f, g, n, b, i, who, place, place2)
  BY <1>2, <1>4, <1>5, OwnedTaken
<1>7. /\ Owned(g, 0, who, place2) /\ Unsaved(g) /\ g.node[n] # NoNode /\ g.node[n].index = f.node[n].index
      /\ b \in Block /\ b \in g.blocks \ Fixed /\ who[b] = n /\ place2[b] = i
  BY <1>4, <1>6 DEF IsTaken
<1>8. PICK h : h = Write(g, [On(g) EXCEPT !.index[g.node[n].index][i - Direct] = b])
  OBVIOUS
<1>9. Owned(h, 0, who, place2) /\ Unsaved(h) /\ h.node = g.node
  <2>1. g.node[n].index # 0
    BY <1>1, <1>4, <1>7
  <2> QED BY <1>2, <1>7, <1>8, <2>1, OwnedEntry
<1>10. PICK k : k = WriteData(h, b)
  OBVIOUS
<1>11. Owned(k, 0, who, place2)
  <2>1. h.node[n] # NoNode
    BY <1>7, <1>9
  <2> QED BY <1>2, <1>7, <1>9, <1>10, <2>1, OwnedWriteData
<1>12. fs' = k
  <2>1. g.node[n].index = fs.node[n].index
    BY <1>4, <1>7
  <2>2. h = Write(g, [On(g) EXCEPT !.index[fs.node[n].index][i - Direct] = b])
    BY <1>8, <2>1
  <2> QED BY <1>3, <1>5, <1>10, <2>2 DEF WriteIndexed
<1> QED BY <1>1, <1>11, <1>12, OwnedCalled

LEMMA OwnedWriteNewIndex ==
  ASSUME OwnedInv, NamesInv', NEW n \in Inode, NEW i \in 0 .. Direct + PerIndex - 1, WriteNewIndex(n, i)
  PROVE  OwnedInv'
<1>1. Called /\ IsOpen(n) /\ ~NoSpace(fs, n) /\ i >= Direct /\ fs.node[n].index = 0
  BY DEF WriteNewIndex
<1>2. i \in IndexPlace /\ i # Direct + PerIndex /\ i # -1 /\ disk \in Image
  BY <1>1, Sizes, OwnedBegins DEF IndexPlace
<1>3. PICK f : f = Supplied(Sized(n), n)
  OBVIOUS
<1>4. PICK who, place : /\ Owned(f, 0, who, place) /\ Unsaved(f) /\ f.node[n] # NoNode /\ f.node[n].spare # <<>>
                        /\ f.node[n].index = fs.node[n].index
  BY <1>1, <1>3, OwnedWriteBegins
<1>5. PICK b, g : b = Head(f.node[n].spare) /\ g = Taken(f, n)
  OBVIOUS
<1>6. PICK place2 : IsTaken(f, g, n, b, i, who, place, place2)
  BY <1>2, <1>4, <1>5, OwnedTaken
<1>7. /\ Owned(g, 0, who, place2) /\ Unsaved(g) /\ g.node[n] # NoNode /\ g.node[n].index = 0
      /\ b \in Block /\ b \in g.blocks \ Fixed /\ who[b] = n /\ place2[b] = i
  BY <1>1, <1>4, <1>6 DEF IsTaken
<1>8. CASE NoSpace(g, n)
  <2>1. fs' = g
    BY <1>3, <1>5, <1>8 DEF WriteNewIndex
  <2> QED BY <1>1, <1>7, <2>1, OwnedCalled
<1>9. CASE ~NoSpace(g, n)
  <2>1. PICK h : h = Supplied(g, n)
    OBVIOUS
  <2>2. PICK who3, place3 : IsSupplied(g, h, n, who, place2, who3, place3)
    BY <1>2, <1>7, <1>9, <2>1, OwnedSupplied
  <2>3. /\ Owned(h, 0, who3, place3) /\ Unsaved(h) /\ h.node[n] # NoNode /\ h.node[n].spare # <<>>
        /\ h.node[n].index = 0 /\ b \in h.blocks \ Fixed /\ who3[b] = n /\ place3[b] = i
    BY <1>7, <2>2 DEF IsSupplied
  <2>4. PICK x, t : x = Head(h.node[n].spare) /\ t = Taken(h, n)
    OBVIOUS
  <2>5. PICK place4 : IsTaken(h, t, n, x, Direct + PerIndex, who3, place3, place4)
    BY <1>2, <2>3, <2>4, OwnedTaken
  <2>6. /\ Owned(t, 0, who3, place4) /\ Unsaved(t) /\ t.node[n] # NoNode /\ t.node[n].index = 0
        /\ x \in Block /\ x \in t.blocks \ Fixed /\ who3[x] = n /\ place4[x] = Direct + PerIndex
    BY <2>3, <2>5 DEF IsTaken
  <2>7. b \in t.blocks \ Fixed /\ who3[b] = n /\ place4[b] = i
    <3>1. b # x
      BY <1>2, <2>3, <2>5 DEF IsTaken
    <3> QED BY <2>3, <2>5, <3>1 DEF IsTaken
  <2>8. PICK k : k = IndexSet(t, n, x)
    OBVIOUS
  <2>9. PICK m : m = Write(k, [On(k) EXCEPT !.index[x] = [NoBlocks EXCEPT ![i - Direct] = b]])
    OBVIOUS
  <2>10. Owned(m, 0, who3, place4) /\ Unsaved(m) /\ m.node[n] # NoNode
    BY <1>2, <1>7, <2>6, <2>7, <2>8, <2>9, OwnedNewIndex
  <2>11. PICK o : o = WriteData(m, b)
    OBVIOUS
  <2>12. Owned(o, 0, who3, place4)
    BY <1>2, <1>7, <2>7, <2>10, <2>11, OwnedWriteData
  <2>13. fs' = o
    BY <1>3, <1>5, <1>9, <2>1, <2>4, <2>8, <2>9, <2>11 DEF WriteNewIndex, IndexSet
  <2> QED BY <1>1, <2>12, <2>13, OwnedCalled
<1> QED BY <1>8, <1>9

LEMMA OwnedCreate ==
  ASSUME Aligned, OwnedInv, NamesInv', NEW name \in Names, Create(name)
  PROVE  OwnedInv'
<1>1. PICK n : n = Min(Inode \ fs.inodes)
  OBVIOUS
<1>2. Called /\ Inode \ fs.inodes # {}
  BY DEF Create
<1>3. disk \in Image /\ fs \in FileSystem /\ Unsaved(fs)
  BY <1>2, OwnedBegins
<1>4. n \in Inode /\ n \notin fs.inodes
  BY <1>1, <1>2, <1>3, NewInode
<1>5. PICK who, place : Owned(fs, 0, who, place)
  BY DEF OwnedInv
<1>6. PICK f : f = AllocateInode(fs, n)
  OBVIOUS
<1>7. /\ Owned(f, n, who, place) /\ Unsaved(f) /\ On(f) \in DiskImages /\ n \in f.inodes
      /\ n \notin stale => IsPart(On(f).table[n], EmptyInode)
  BY <1>3, <1>4, <1>5, <1>6, OwnedAllocateInode
<1>8. PICK g : g = NameSet(f, name, n)
  OBVIOUS
<1>9. /\ Owned(g, n, who, place) /\ Unsaved(g) /\ g.inodes = f.inodes
      /\ On(g).table = On(f).table
  <2>1. n \in Inode \cup {0}
    BY <1>4
  <2> QED BY <1>3, <1>7, <1>8, <2>1, OwnedName
<1>10. PICK node \in Cached : /\ node = [links |-> 0, empty |-> TRUE, direct |-> EmptyInode.direct, index |-> 0, spare |-> <<>>, opens |-> 0]
                              /\ node.direct = EmptyInode.direct /\ node.index = 0 /\ node.spare = <<>>
  <2>1. 0 \in Pointer /\ <<>> \in Seq(Block)
    BY DEF Pointer
  <2>2. [links |-> 0, empty |-> TRUE, direct |-> EmptyInode.direct, index |-> 0, spare |-> <<>>, opens |-> 0] \in Cached
    BY <2>1, EmptyTyped DEF Cached
  <2> QED BY <2>2
<1>11. PICK h : h = [g EXCEPT !.node[n] = node]
  OBVIOUS
<1>12. IsNode(g, h, n, node)
  <2>1. g \in FileSystem
    BY <1>9 DEF Owned
  <2> QED BY <1>4, <1>11, <2>1, NodeReplaced
<1>13. /\ Owned(h, n, who, place) /\ Unsaved(h) /\ On(h) = On(g) /\ h.blocks = g.blocks /\ h.inodes = g.inodes
  BY <1>4, <1>9, <1>12, OwnedNode
<1>14. h.node[n] = node /\ node # NoNode
  BY <1>12, NotNoNode DEF IsNode
<1>15. IsPart(node, EmptyInode) /\ SpareOwned(node.spare, n, h.blocks, who, place)
  BY <1>10 DEF IsPart, SpareOwned
<1>16. PlacesOwned(node, On(h).index, n, h.blocks, who, place)
  BY <1>15, EmptyOwned
<1>17. n \notin stale => IsPart(On(h).table[n], node)
  <2>1. EmptyInode.index = 0
    BY DEF EmptyInode
  <2> QED BY <1>7, <1>9, <1>10, <1>13, <2>1 DEF IsPart
<1>18. InodeOwned(h, n, who, place)
  <2>1. Skipped(h) = stale
    BY <1>13, SkippedUnsaved
  <2> QED BY <1>7, <1>9, <1>13, <1>14, <1>15, <1>16, <1>17, <2>1 DEF InodeOwned
<1>19. Owned(h, 0, who, place)
  BY <1>4, <1>13, <1>18, OwnedSplit
<1>20. PICK i : i = IncLinkCount(h, n)
  OBVIOUS
<1>21. Owned(i, 0, who, place)
  <2>1. Recounted(h, n, i)
    BY <1>20, Zenon DEF Recounted
  <2> QED BY <1>4, <1>14, <1>19, <2>1, OwnedLinks
<1>22. fs' = i
  BY <1>1, <1>6, <1>8, <1>10, <1>11, <1>20 DEF Create, NameSet
<1> QED BY <1>2, <1>21, <1>22, OwnedCalled

LEMMA OwnedDiskWrite ==
  ASSUME OwnedInv, NamesInv', DiskWrite
  PROVE  OwnedInv'
<1>1. PICK who, place : Owned(fs, 0, who, place)
  BY DEF OwnedInv
<1>2. disk \in Image /\ fs \in FileSystem
  BY <1>1 DEF OwnedInv, DiskImages, Owned
<1>3. PICK s \in Seq(Image) : s = fs.images /\ s # <<>>
  BY <1>2 DEF DiskWrite, Written, FileSystem
<1>4. PICK t \in Seq(Image), d \in Image : t = Tail(s) /\ d = Head(s)
  <2>1. Tail(s) \in Seq(Image) /\ Head(s) \in Image
    BY <1>3
  <2> QED BY <2>1
<1>5. /\ Len(s) \in Nat /\ Len(s) >= 1 /\ d = s[1] /\ Len(t) = Len(s) - 1 /\ \A i \in 1 .. Len(t) : t[i] = s[i + 1]
      /\ (t = <<>> <=> Len(s) = 1)
  <2>1. Len(s) \in Nat /\ Len(s) >= 1 /\ d = s[1]
    BY <1>3, <1>4
  <2>2. Len(t) = Len(s) - 1 /\ \A i \in 1 .. Len(t) : t[i] = s[i + 1]
    BY <1>3, <1>4
  <2>3. t = <<>> <=> Len(t) = 0
    OBVIOUS
  <2> QED BY <2>1, <2>2, <2>3
<1>6. PICK g : g = fs' /\ g = [fs EXCEPT !.images = t] /\ disk' = d
  BY <1>3, <1>4 DEF DiskWrite
<1>7. /\ g \in FileSystem /\ g.images = t /\ g.node = fs.node /\ g.inodes = fs.inodes /\ g.blocks = fs.blocks
      /\ g.super = fs.super /\ g.groups = fs.groups
  BY <1>2, <1>4, <1>6 DEF FileSystem
<1>8. PICK o \in Image : o = On(fs) /\ o = s[Len(s)]
  <2>1. On(fs) = s[Len(s)]
    BY <1>3 DEF On, Last
  <2>2. s[Len(s)] \in Image
    BY <1>3, <1>5
  <2> QED BY <2>1, <2>2
<1>9. On(fs)' = o
  <2>1. On(fs)' = IF t = <<>> THEN d ELSE t[Len(t)]
    BY <1>6, <1>7 DEF On, Last
  <2>2. CASE t = <<>>
    BY <1>5, <1>8, <2>1, <2>2
  <2>3. CASE t # <<>>
    <3>1. t[Len(t)] = s[Len(s)]
      BY <1>5, <2>3
    <3> QED BY <1>8, <2>1, <2>3, <3>1
  <2> QED BY <2>2, <2>3
<1>10. /\ torn' = torn /\ crashes' = crashes /\ stale' = {n \in stale : d.table[n] = disk.table[n]}
  BY <1>6 DEF DiskWrite
<1>11. t # <<>> => d \in DiskImages
  BY <1>1, <1>3, <1>5 DEF Owned
<1>12. t # <<>> => d.table = disk.table /\ stale' = stale /\ DiskImages' = DiskImages
  <2>1. ASSUME t # <<>>
        PROVE  d.table = disk.table /\ stale' = stale /\ DiskImages' = DiskImages
    <3>1. d.table = disk.table
      BY <1>11, <2>1 DEF DiskImages
    <3>2. stale' = stale
      BY <1>10, <3>1
    <3> QED BY <1>6, <3>1, <3>2 DEF DiskImages, DiskOwned
  <2> QED BY <2>1
<1>13. PICK S : S = Skipped(fs)
  OBVIOUS
<1>14. Skipped(fs)' = S
  <2>1. Skipped(fs)' = {n \in stale' : o.table[n] = d.table[n]}
    BY <1>6, <1>9 DEF Skipped
  <2>2. S = {n \in stale : o.table[n] = disk.table[n]}
    BY <1>8, <1>13 DEF Skipped
  <2>3. CASE t = <<>>
    <3>1. o = d
      BY <1>5, <1>8, <2>3
    <3> QED BY <1>10, <2>1, <2>2, <3>1
  <2>4. CASE t # <<>>
    BY <1>12, <2>1, <2>2, <2>4
  <2> QED BY <2>3, <2>4
<1>15. /\ Fixed \subseteq fs.blocks /\ o.blocks = fs.blocks /\ o.inodes = fs.inodes /\ o.super = fs.super /\ o.groups = fs.groups
  BY <1>1, <1>8 DEF Owned, Flushed
<1>16. (disk \in DiskImages)'
  <2>1. CASE t = <<>>
    <3>1. o = d
      BY <1>5, <1>8, <2>1
    <3>2. stale' = S
      BY <1>8, <1>10, <1>13, <3>1 DEF Skipped
    <3>3. ASSUME NEW n \in d.inodes \ S
          PROVE  PlacesOwned(d.table[n], d.index, n, d.blocks, who, place)
      <4>1. n \in fs.inodes /\ n \in Inode /\ n # 0 /\ n \notin Skipped(fs)
        BY <1>2, <1>13, <1>15, <3>1, <3>3, Sizes DEF FileSystem
      <4>2. PlacesOwned(On(fs).table[n], On(fs).index, n, fs.blocks, who, place)
        BY <1>1, <4>1, TableOwned
      <4> QED BY <1>8, <1>15, <3>1, <4>2
    <3>4. DiskOwned(d, S)
      BY <3>3 DEF DiskOwned
    <3>5. (DiskOwned(disk, stale))'
      BY <1>6, <3>2, <3>4 DEF DiskOwned
    <3>6. Fixed \subseteq d.blocks
      BY <1>15, <3>1
    <3> QED BY <1>6, <3>5, <3>6 DEF DiskImages
  <2>2. CASE t # <<>>
    BY <1>6, <1>11, <1>12, <2>2
  <2> QED BY <2>1, <2>2
<1>17. (Flushed(fs) /\ Counted(fs) /\ Fixed \subseteq fs.blocks)'
  <2>1. Counted(fs)
    BY <1>1 DEF Owned
  <2>2. Flushed(fs)'
    BY <1>6, <1>7, <1>9, <1>15 DEF Flushed
  <2>3. Counted(fs)'
    BY <1>6, <1>7, <1>10, <2>1 DEF Counted
  <2> QED BY <1>6, <1>7, <1>15, <2>2, <2>3
<1>18. (\A i \in 1 .. Len(fs.images) - 1 : fs.images[i] \in DiskImages)'
  <2>1. ASSUME NEW i \in 1 .. Len(t) - 1
        PROVE  t[i] \in DiskImages'
    <3>1. i \in 1 .. Len(t) /\ i + 1 \in 1 .. Len(s) - 1 /\ t # <<>>
      BY <1>5
    <3>2. t[i] = s[i + 1] /\ s[i + 1] \in DiskImages
      BY <1>1, <1>3, <1>5, <3>1 DEF Owned
    <3> QED BY <1>12, <3>1, <3>2
  <2> QED BY <1>6, <1>7, <2>1
<1>19. ASSUME NEW n \in Inode \ {0}
       PROVE  InodeOwned(fs, n, who, place)'
  <2>1. InodeOwned(fs, n, who, place)
    BY <1>1 DEF Owned
  <2>2. fs'.node = fs.node /\ fs'.inodes = fs.inodes /\ fs'.blocks = fs.blocks /\ On(fs)' = On(fs) /\ Skipped(fs)' = Skipped(fs)
    BY <1>6, <1>7, <1>8, <1>9, <1>13, <1>14
  <2> QED BY <2>1, <2>2 DEF InodeOwned
<1>20. Owned(fs, 0, who, place)'
  BY <1>6, <1>7, <1>17, <1>18, <1>19 DEF Owned
<1>21. (crashes = 0 => stale = {})'
  BY <1>10 DEF OwnedInv
<1> QED BY <1>16, <1>20, <1>21 DEF OwnedInv

LEMMA NoBlocksOf ==
  ASSUME NEW d \in Image, NEW n \in Inode, BlocksOf(d.table[n], d.index) = <<>>
  PROVE  IsPart(d.table[n], EmptyInode)
<1>1. PICK c, I : c = d.table[n] /\ I = d.index
  OBVIOUS
<1>2. HasBlocks(c) /\ IsIndex(I)
  BY <1>1, CachedBlocks
<1>3. PICK at : AreBlocks(c, I, <<>>, at)
  BY <1>1, <1>2, BlocksOfIs
<1>4. \A p \in Place : BlockAt(c, I, p) = 0
  <2>1. \A p \in Place : BlockAt(c, I, p) # 0 => \E i \in 1 .. Len(<<>>) : at[i] = p
    BY <1>3 DEF AreBlocks
  <2>2. 1 .. Len(<<>>) = {}
    OBVIOUS
  <2> QED BY <2>1, <2>2
<1>5. c.index = 0
  <2>1. Direct + PerIndex \in Place /\ ~(Direct + PerIndex < Direct) /\ ~(Direct + PerIndex < Direct + PerIndex)
    BY Sizes DEF Place
  <2> QED BY <1>4, <2>1 DEF BlockAt
<1>6. \A i \in 0 .. Direct - 1 : c.direct[i] = 0
  <2>1. \A i \in 0 .. Direct - 1 : i \in Place /\ i < Direct
    BY Sizes DEF Place
  <2> QED BY <1>4, <2>1 DEF BlockAt
<1> QED BY <1>1, <1>5, <1>6 DEF IsPart

LEMMA OwnedCrash ==
  ASSUME MaxCrashes <= 1, OwnedInv, NamesInv', Crash
  PROVE  OwnedInv'
<1>1. /\ disk' = disk /\ fs' = Mounted(disk) /\ crashes' = crashes + 1 /\ crashes < MaxCrashes
      /\ torn' = (torn \/ disk.super # SuperOf(disk.blocks, disk.inodes) \/ disk.groups # GroupsOf(disk.blocks, disk.inodes))
      /\ stale' = stale \cup {n \in Inode \ disk.inodes : BlocksOf(disk.table[n], disk.index) # <<>>}
  BY DEF Crash
<1>2. crashes = 0 /\ stale = {}
  <2>1. crashes \in Nat /\ MaxCrashes \in Nat
    BY Ext2Assumption DEF OwnedInv, NamesInv, TypeOK
  <2> QED BY <1>1, <2>1 DEF OwnedInv
<1>3. disk \in Image /\ Fixed \subseteq disk.blocks /\ DiskOwned(disk, {})
  BY <1>2 DEF OwnedInv, DiskImages
<1>4. PICK who, place : \A n \in disk.inodes : PlacesOwned(disk.table[n], disk.index, n, disk.blocks, who, place)
  BY <1>3 DEF DiskOwned
<1>5. PICK g : g = Mounted(disk)
  OBVIOUS
<1>6. /\ g \in FileSystem /\ g.images = <<>> /\ g.inodes = disk.inodes /\ g.blocks = disk.blocks
      /\ g.super = disk.super /\ g.groups = disk.groups /\ \A n \in Inode : g.node[n] = NoNode
  BY <1>3, <1>5, MountedTyped
<1>7. fs' = g /\ On(fs)' = disk
  BY <1>1, <1>5, <1>6 DEF On
<1>8. Skipped(fs)' = stale'
  BY <1>1, <1>7 DEF Skipped
<1>9. ASSUME NEW n \in Inode
      PROVE  InodeOwned(fs, n, who, place)'
  <2>1. n \in disk.inodes => n \notin stale'
    BY <1>1, <1>2
  <2>2. n \notin disk.inodes /\ n \notin stale' => IsPart(disk.table[n], EmptyInode)
    BY <1>1, <1>3, NoBlocksOf
  <2>3. fs'.node[n] = NoNode /\ fs'.inodes = disk.inodes /\ fs'.blocks = disk.blocks
    BY <1>6, <1>7
  <2> QED BY <1>4, <1>7, <1>8, <2>1, <2>2, <2>3 DEF InodeOwned
<1>10. (Flushed(fs) /\ Counted(fs) /\ Fixed \subseteq fs.blocks)'
  <2>1. Flushed(fs)'
    BY <1>6, <1>7 DEF Flushed
  <2>2. Counted(fs)'
    BY <1>1, <1>6, <1>7 DEF Counted
  <2> QED BY <1>3, <1>6, <1>7, <2>1, <2>2
<1>11. (\A i \in 1 .. Len(fs.images) - 1 : fs.images[i] \in DiskImages)'
  <2>1. Len(fs'.images) = 0
    BY <1>6, <1>7
  <2>2. 1 .. Len(fs'.images) - 1 = {}
    BY <2>1
  <2> QED BY <2>2
<1>12. Owned(fs, 0, who, place)'
  BY <1>6, <1>7, <1>9, <1>10, <1>11 DEF Owned
<1>13. (disk \in DiskImages)'
  <2>1. DiskOwned(disk, stale)'
    BY <1>1, <1>4 DEF DiskOwned
  <2> QED BY <1>1, <1>3, <2>1 DEF DiskImages
<1>14. (crashes = 0 => stale = {})'
  BY <1>1, <1>2
<1> QED BY <1>12, <1>13, <1>14 DEF OwnedInv

LEMMA OwnedStep ==
  ASSUME Aligned, MaxCrashes <= 1, OwnedInv, [Next]_vars
  PROVE  OwnedInv'
<1>1. NamesInv'
  BY NamesStep DEF OwnedInv
<1>2. CASE UNCHANGED vars
  <2>1. fs' = fs /\ disk' = disk /\ crashes' = crashes /\ torn' = torn /\ stale' = stale
    BY <1>2 DEF vars
  <2>2. DiskImages' = DiskImages
    BY <2>1 DEF DiskImages, DiskOwned
  <2>3. PICK who, place : Owned(fs, 0, who, place)
    BY DEF OwnedInv
  <2>4. Owned(fs, 0, who, place)'
    BY <2>1, <2>2, <2>3 DEF Owned, Flushed, Counted, InodeOwned, Skipped, On
  <2> QED BY <1>1, <2>1, <2>2, <2>4 DEF OwnedInv
<1>3. ASSUME NEW name \in Names, Create(name)
      PROVE  OwnedInv'
  BY <1>1, <1>3, OwnedCreate
<1>4. ASSUME NEW name \in Names, Unlink(name)
      PROVE  OwnedInv'
  BY <1>1, <1>4, OwnedUnlink
<1>5. ASSUME NEW name \in Names, Open(name)
      PROVE  OwnedInv'
  BY <1>1, <1>5, OwnedOpen
<1>6. ASSUME NEW name \in Names, OpenTruncate(name)
      PROVE  OwnedInv'
  BY <1>1, <1>6, OwnedOpenTruncate
<1>7. ASSUME NEW name \in Names, NEW old \in Names, Link(old, name)
      PROVE  OwnedInv'
  BY <1>1, <1>7, OwnedLink
<1>8. ASSUME NEW n \in Inode, Close(n)
      PROVE  OwnedInv'
  BY <1>1, <1>8, OwnedClose
<1>9. ASSUME NEW n \in Inode, NEW i \in 0 .. Direct + PerIndex - 1,
             WriteFull(n, i) \/ WriteDirect(n, i) \/ WriteIndexed(n, i) \/ WriteNewIndex(n, i)
      PROVE  OwnedInv'
  BY <1>1, <1>9, OwnedWriteFull, OwnedWriteDirect, OwnedWriteIndexed, OwnedWriteNewIndex
<1>10. CASE DiskWrite
  BY <1>1, <1>10, OwnedDiskWrite
<1>11. CASE Crash
  BY <1>1, <1>11, OwnedCrash
<1> QED BY <1>2, <1>3, <1>4, <1>5, <1>6, <1>7, <1>8, <1>9, <1>10, <1>11 DEF Next

LEMMA OwnedInit ==
  ASSUME Init
  PROVE  OwnedInv
<1>1. disk = Formatted /\ fs = Mounted(disk) /\ crashes = 0 /\ torn = FALSE /\ stale = {}
  BY DEF Init
<1>2. /\ disk \in Image /\ disk.blocks = Fixed /\ disk.inodes = FixedInodes /\ \A n \in Inode : disk.table[n] = EmptyInode
      /\ disk.super = SuperOf(disk.blocks, disk.inodes) /\ disk.groups = GroupsOf(disk.blocks, disk.inodes)
  BY <1>1, FormattedTyped
<1>3. /\ fs \in FileSystem /\ fs.images = <<>> /\ fs.inodes = disk.inodes /\ fs.blocks = disk.blocks
      /\ fs.super = disk.super /\ fs.groups = disk.groups /\ \A n \in Inode : fs.node[n] = NoNode
  BY <1>1, <1>2, MountedTyped
<1>4. On(fs) = disk /\ Skipped(fs) = {}
  BY <1>1, <1>3 DEF On, Skipped
<1>5. IsPart(EmptyInode, EmptyInode)
  BY DEF IsPart
<1>6. PICK who, place : who = 0 /\ place = 0
  OBVIOUS
<1>7. \A n \in Inode : PlacesOwned(disk.table[n], disk.index, n, disk.blocks, who, place)
  BY <1>2, <1>5, EmptyOwned
<1>8. \A n \in Inode : InodeOwned(fs, n, who, place)
  BY <1>2, <1>3, <1>4, <1>5, <1>7 DEF InodeOwned
<1>9. Flushed(fs) /\ Counted(fs) /\ Fixed \subseteq fs.blocks
  BY <1>2, <1>3, <1>4 DEF Flushed, Counted
<1>10. \A i \in 1 .. Len(fs.images) - 1 : fs.images[i] \in DiskImages
  <2>1. 1 .. Len(<<>>) - 1 = {}
    OBVIOUS
  <2> QED BY <1>3, <2>1
<1>11. Owned(fs, 0, who, place)
  BY <1>3, <1>8, <1>9, <1>10 DEF Owned
<1>12. disk \in DiskImages
  <2>1. FixedInodes \subseteq Inode
    BY Ext2Assumption
  <2>2. DiskOwned(disk, stale)
    BY <1>2, <1>7, <2>1 DEF DiskOwned
  <2> QED BY <1>2, <2>2 DEF DiskImages
<1> QED BY <1>1, <1>11, <1>12, NamesInit DEF OwnedInv

-----------------------------------------------------------------------------
(* What Owned says of a sequence of an inode's blocks.                     *)
HasOwner(s, n, B, who) ==
  IsInjective(s) /\ ToSet(s) \subseteq B \ Fixed /\ \A b \in ToSet(s) : who[b] = n

LEMMA OwnerOfBlocks ==
  ASSUME NEW s \in Seq(Block), NEW n, NEW B, NEW who, \A i, j \in 1 .. Len(s) : s[i] = s[j] => i = j,
         \A i \in 1 .. Len(s) : s[i] \in B \ Fixed /\ who[s[i]] = n
  PROVE  HasOwner(s, n, B, who)
<1>1. DOMAIN s = 1 .. Len(s)
  OBVIOUS
<1> QED BY <1>1 DEF HasOwner, IsInjective, ToSet

LEMMA OwnerOfNone ==
  ASSUME NEW n, NEW B, NEW who
  PROVE  HasOwner(<<>>, n, B, who)
<1>1. DOMAIN <<>> = {}
  OBVIOUS
<1> QED BY <1>1 DEF HasOwner, IsInjective, ToSet

LEMMA OwnerOfPlaces ==
  ASSUME NEW inode, HasBlocks(inode), NEW I, IsIndex(I), NEW n, NEW B, NEW who, NEW place, PlacesOwned(inode, I, n, B, who, place)
  PROVE  HasOwner(BlocksOf(inode, I), n, B, who)
<1>1. PICK t : t = BlocksOf(inode, I)
  OBVIOUS
<1>2. /\ t \in Seq(Block) /\ \A i, j \in 1 .. Len(t) : t[i] = t[j] => i = j
      /\ \A i \in 1 .. Len(t) : t[i] \in B \ Fixed /\ who[t[i]] = n /\ place[t[i]] \in Place
  BY <1>1, BlocksOwned
<1> QED BY <1>1, <1>2, OwnerOfBlocks

LEMMA OwnerOfNode ==
  ASSUME NEW inode, HasBlocks(inode), inode.spare \in Seq(Block), NEW I, IsIndex(I), NEW n, NEW B, NEW who, NEW place,
         PlacesOwned(inode, I, n, B, who, place), SpareOwned(inode.spare, n, B, who, place)
  PROVE  HasOwner(BlocksOf(inode, I) \o inode.spare, n, B, who)
<1>1. PICK t : t = BlocksOf(inode, I)
  OBVIOUS
<1>2. /\ t \in Seq(Block) /\ \A i, j \in 1 .. Len(t) : t[i] = t[j] => i = j
      /\ \A i \in 1 .. Len(t) : t[i] \in B \ Fixed /\ who[t[i]] = n /\ place[t[i]] \in Place
  BY <1>1, BlocksOwned
<1>3. PICK s \in Seq(Block) : s = inode.spare
  OBVIOUS
<1>4. PICK r \in Seq(Block) : r = t \o s
  <2>1. t \o s \in Seq(Block)
    BY <1>2
  <2> QED BY <2>1
<1>5. /\ Len(t) \in Nat /\ Len(s) \in Nat /\ Len(r) = Len(t) + Len(s)
      /\ \A i \in 1 .. Len(r) : r[i] = IF i <= Len(t) THEN t[i] ELSE s[i - Len(t)]
  BY <1>2, <1>4
<1>6. -1 \notin Place
  BY Sizes DEF Place
<1>7. ASSUME NEW i \in 1 .. Len(r)
      PROVE  r[i] \in B \ Fixed /\ who[r[i]] = n /\ (place[r[i]] = -1 <=> ~(i <= Len(t)))
  <2>1. CASE i <= Len(t)
    <3>1. r[i] = t[i] /\ i \in 1 .. Len(t)
      BY <1>5, <2>1
    <3> QED BY <1>2, <1>6, <2>1, <3>1
  <2>2. CASE ~(i <= Len(t))
    <3>1. r[i] = s[i - Len(t)] /\ i - Len(t) \in 1 .. Len(s)
      BY <1>5, <2>2
    <3> QED BY <1>3, <2>2, <3>1 DEF SpareOwned
  <2> QED BY <2>1, <2>2
<1>8. ASSUME NEW i \in 1 .. Len(r), NEW j \in 1 .. Len(r), r[i] = r[j]
      PROVE  i = j
  <2>1. i <= Len(t) <=> j <= Len(t)
    BY <1>7, <1>8
  <2>2. CASE i <= Len(t)
    <3>1. t[i] = t[j] /\ i \in 1 .. Len(t) /\ j \in 1 .. Len(t)
      BY <1>5, <1>8, <2>1, <2>2
    <3> QED BY <1>2, <3>1
  <2>3. CASE ~(i <= Len(t))
    <3>1. s[i - Len(t)] = s[j - Len(t)] /\ i - Len(t) \in 1 .. Len(s) /\ j - Len(t) \in 1 .. Len(s)
      BY <1>5, <1>8, <2>1, <2>3
    <3>2. i - Len(t) = j - Len(t)
      BY <1>3, <3>1 DEF SpareOwned
    <3> QED BY <1>5, <3>2
  <2> QED BY <2>2, <2>3
<1>9. HasOwner(r, n, B, who)
  BY <1>7, <1>8, OwnerOfBlocks
<1> QED BY <1>1, <1>3, <1>4, <1>9

(* With a witness of the owners of the blocks f has in use, no inode in    *)
(* memory and none on disk has the block of another.                       *)
LEMMA OnDiskOwned ==
  ASSUME disk \in DiskImages
  PROVE  \E who : \A n \in Inode : HasOwner(OnDisk(n), n, disk.blocks, who)
<1>1. disk \in Image /\ DiskOwned(disk, stale)
  BY DEF DiskImages
<1>2. PICK who, place : \A n \in disk.inodes \ stale : PlacesOwned(disk.table[n], disk.index, n, disk.blocks, who, place)
  BY <1>1 DEF DiskOwned
<1>3. ASSUME NEW n \in Inode
      PROVE  HasOwner(OnDisk(n), n, disk.blocks, who)
  <2>1. CASE n \in disk.inodes \ stale
    <3>1. HasBlocks(disk.table[n]) /\ IsIndex(disk.index)
      BY <1>1, <1>3, CachedBlocks
    <3>2. HasOwner(BlocksOf(disk.table[n], disk.index), n, disk.blocks, who)
      BY <1>2, <2>1, <3>1, OwnerOfPlaces
    <3> QED BY <2>1, <3>2 DEF OnDisk
  <2>2. CASE n \notin disk.inodes \ stale
    BY <2>2, OwnerOfNone DEF OnDisk
  <2> QED BY <2>1, <2>2
<1> QED BY <1>3

LEMMA InMemoryOwned ==
  ASSUME disk \in DiskImages, NEW who, NEW place, Owned(fs, 0, who, place), Written
  PROVE  \A n \in Inode : HasOwner(InMemory(n), n, fs.blocks, who) /\ HasOwner(OnDisk(n), n, fs.blocks, who)
<1>1. On(fs) = disk /\ Skipped(fs) = stale /\ fs \in FileSystem /\ disk \in Image /\ fs.inodes = disk.inodes
  <2>1. On(fs) = disk
    BY DEF On, Written
  <2>2. Skipped(fs) = stale
    BY <2>1 DEF Skipped
  <2> QED BY <2>1, <2>2 DEF Owned, Flushed, DiskImages
<1>2. ASSUME NEW n \in Inode
      PROVE  HasOwner(InMemory(n), n, fs.blocks, who)
  <2>1. CASE fs.node[n] = NoNode
    BY <2>1, OwnerOfNone DEF InMemory
  <2>2. CASE fs.node[n] # NoNode
    <3>1. PICK c \in Cached : c = fs.node[n]
      BY <1>1, <1>2, <2>2, CachedIs
    <3>2. HasBlocks(c) /\ IsIndex(disk.index) /\ c.spare \in Seq(Block)
      BY <1>1, CachedBlocks DEF Cached
    <3>3. InodeOwned(fs, n, who, place)
      BY <1>2, Sizes DEF Owned
    <3>4. PlacesOwned(c, disk.index, n, fs.blocks, who, place) /\ SpareOwned(c.spare, n, fs.blocks, who, place)
      BY <1>1, <2>2, <3>1, <3>3 DEF InodeOwned
    <3>5. HasOwner(BlocksOf(c, disk.index) \o c.spare, n, fs.blocks, who)
      BY <3>2, <3>4, OwnerOfNode
    <3> QED BY <2>2, <3>1, <3>5 DEF InMemory
  <2> QED BY <2>1, <2>2
<1>3. ASSUME NEW n \in Inode
      PROVE  HasOwner(OnDisk(n), n, fs.blocks, who)
  <2>1. CASE n \in disk.inodes \ stale
    <3>1. HasBlocks(disk.table[n]) /\ IsIndex(disk.index)
      BY <1>1, <1>3, CachedBlocks
    <3>2. n \in fs.inodes /\ n # 0 /\ n \notin Skipped(fs)
      BY <1>1, <1>3, <2>1, Sizes
    <3>3. PlacesOwned(disk.table[n], disk.index, n, fs.blocks, who, place)
      BY <1>1, <1>3, <3>2, TableOwned
    <3>4. HasOwner(BlocksOf(disk.table[n], disk.index), n, fs.blocks, who)
      BY <3>1, <3>3, OwnerOfPlaces
    <3> QED BY <2>1, <3>4 DEF OnDisk
  <2>2. CASE n \notin disk.inodes \ stale
    BY <2>2, OwnerOfNone DEF OnDisk
  <2> QED BY <2>1, <2>2
<1> QED BY <1>2, <1>3

LEMMA OwnersDiffer ==
  ASSUME NEW m, NEW n, m # n, NEW s, NEW t, NEW B, NEW who, HasOwner(s, m, B, who), HasOwner(t, n, B, who)
  PROVE  ToSet(s) \cap ToSet(t) = {}
BY DEF HasOwner

LEMMA OwnersOnce ==
  ASSUME OwnedInv
  PROVE  OwnedOnce
<1>1. PICK who : \A n \in Inode : HasOwner(OnDisk(n), n, disk.blocks, who)
  BY OnDiskOwned DEF OwnedInv
<1>2. ASSUME NEW n \in Inode
      PROVE  IsInjective(OnDisk(n)) /\ ToSet(OnDisk(n)) \subseteq disk.blocks \ Fixed
  BY <1>1, <1>2 DEF HasOwner
<1>3. ASSUME NEW m \in Inode, NEW n \in Inode, m # n
      PROVE  ToSet(OnDisk(m)) \cap ToSet(OnDisk(n)) = {}
  BY <1>1, <1>3, OwnersDiffer
<1>4. ASSUME Written
      PROVE  \E own : \A n \in Inode : HasOwner(InMemory(n), n, fs.blocks, own) /\ HasOwner(OnDisk(n), n, fs.blocks, own)
  BY <1>4, InMemoryOwned DEF OwnedInv
<1>5. ASSUME Written, NEW n \in Inode
      PROVE  IsInjective(InMemory(n)) /\ ToSet(InMemory(n)) \subseteq fs.blocks \ Fixed
  BY <1>4, <1>5 DEF HasOwner
<1>6. ASSUME Written, NEW m \in Inode, NEW n \in Inode, m # n
      PROVE  ToSet(InMemory(m)) \cap (ToSet(OnDisk(n)) \cup ToSet(InMemory(n))) = {}
  <2>1. PICK own : \A k \in Inode : HasOwner(InMemory(k), k, fs.blocks, own) /\ HasOwner(OnDisk(k), k, fs.blocks, own)
    BY <1>4, <1>6
  <2>2. ToSet(InMemory(m)) \cap ToSet(OnDisk(n)) = {} /\ ToSet(InMemory(m)) \cap ToSet(InMemory(n)) = {}
    BY <1>6, <2>1, OwnersDiffer
  <2> QED BY <2>2
<1> QED BY <1>2, <1>3, <1>5, <1>6 DEF OwnedOnce

LEMMA CountsTrue ==
  ASSUME OwnedInv
  PROVE  CountsAgree
<1>1. PICK who, place : Owned(fs, 0, who, place)
  BY DEF OwnedInv
<1>2. Flushed(fs) /\ Counted(fs)
  BY <1>1 DEF Owned
<1>3. Written => On(fs) = disk
  BY DEF Written, On
<1> QED BY <1>2, <1>3 DEF Flushed, Counted, CountsAgree

(* In memory after every call, and on disk between any two writes with the *)
(* power gone or not, a block of a file or a block kept spare for one has  *)
(* one owner, in one place, and is marked in the bitmap: allocation        *)
(* marks a block on disk before an inode is saved that has it, and a       *)
(* truncation saves the inode before the blocks are free.  This for one    *)
(* crash: an inode that was made and left unsaved by a first crash may     *)
(* have what it had in an earlier life when it comes to be used again.     *)
THEOREM OwnersAreUnique ==
  ASSUME Aligned, MaxCrashes <= 1
  PROVE  Spec => []OwnedOnce
<1>1. Init => OwnedInv
  BY OwnedInit
<1>2. OwnedInv /\ [Next]_vars => OwnedInv'
  BY OwnedStep
<1>3. OwnedInv => OwnedOnce
  BY OwnersOnce
<1> QED BY <1>1, <1>2, <1>3, PTL DEF Spec

(* The counts of free blocks and inodes, of the superblock and of each     *)
(* group, are those of the bitmaps after every call of any length, and     *)
(* have reached the disk when its writes have, as long as no restart found *)
(* a disk that the power left with a bitmap ahead of its counts.  This for *)
(* one crash: blocks with two owners after a second would be freed twice.  *)
THEOREM CountsStayTrue ==
  ASSUME Aligned, MaxCrashes <= 1
  PROVE  Spec => []CountsAgree
<1>1. Init => OwnedInv
  BY OwnedInit
<1>2. OwnedInv /\ [Next]_vars => OwnedInv'
  BY OwnedStep
<1>3. OwnedInv => CountsAgree
  BY CountsTrue
<1> QED BY <1>1, <1>2, <1>3, PTL DEF Spec
=============================================================================
