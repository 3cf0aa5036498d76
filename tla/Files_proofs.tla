---------------------------- MODULE Files_proofs ----------------------------
(***************************************************************************)
(* Theorems about what programs know of storage.  Files: for any disk and  *)
(* any calls, descriptors are positions in sequences of bytes.  Vfs: for   *)
(* any nodes and names, and paths of any length, what is bound or created  *)
(* is found from then on.                                                  *)
(***************************************************************************)
EXTENDS Files, Vfs, NaturalsInduction, WellFoundedInduction, TLAPS

(* A set of numbers that is not empty has a least one.                     *)
LEMMA LeastOf ==
  ASSUME NEW B, B \subseteq Nat, B # {}
  PROVE  \E x \in B : \A y \in B : x <= y
<1> DEFINE Below == {ss \in Nat \X Nat : ss[1] < ss[2]}
<1>1. IsWellFoundedOn(Below, Nat)
  BY NatLessThanWellFounded DEF OpToRel
<1>2. PICK x \in B : \A y \in B : ~(<<y, x>> \in Below)
  BY <1>1, WFMin, Zenon
<1>3. ASSUME NEW y \in B
      PROVE  x <= y
  <2>1. x \in Nat /\ y \in Nat /\ <<y, x>> \in Nat \X Nat
    OBVIOUS
  <2>2. ~(<<y, x>>[1] < <<y, x>>[2])
    BY <1>2, <2>1, Zenon
  <2> QED BY <2>1, <2>2
<1> QED BY <1>3

-----------------------------------------------------------------------------
(* Sequences put together.  FlattenSeq is a function by recursion: that    *)
(* there is one.                                                           *)
FlatStep(ss, f, i) == IF i = 1 THEN ss[i] ELSE f[i - 1] \o ss[i]
IsFlat(ss, f, m) == f = [i \in 1 .. m |-> FlatStep(ss, f, i)]

LEMMA FlatExists ==
  ASSUME NEW ss, NEW m \in Nat \ {0}
  PROVE  \E f : IsFlat(ss, f, m)
<1> DEFINE B == {k \in Nat \ {0} : ~\E f : IsFlat(ss, f, k)}
<1>1. ASSUME B # {}
      PROVE  FALSE
  <2>1. PICK x \in B : \A y \in B : x <= y
    BY <1>1, LeastOf
  <2>2. x \in Nat \ {0}
    OBVIOUS
  <2>3. CASE x = 1
    <3> DEFINE f == [i \in 1 .. 1 |-> ss[i]]
    <3>1. IsFlat(ss, f, x)
      BY <2>3 DEF IsFlat, FlatStep
    <3> QED BY <3>1
  <2>4. CASE x # 1
    <3>1. x - 1 \in Nat \ {0} /\ ~(x <= x - 1)
      BY <2>2, <2>4
    <3>2. x - 1 \notin B
      BY <2>1, <3>1
    <3>3. PICK g : IsFlat(ss, g, x - 1)
      BY <3>1, <3>2
    <3> DEFINE f == [i \in 1 .. x |-> IF i = x THEN g[x - 1] \o ss[x] ELSE g[i]]
    <3>4. ASSUME NEW i \in 1 .. x
          PROVE  f[i] = FlatStep(ss, f, i)
      <4>1. CASE i = x
        <5>1. f[i] = g[x - 1] \o ss[x]
          BY <4>1
        <5>2. f[i - 1] = g[x - 1]
          BY <4>1, <3>1, <2>2
        <5> QED BY <5>1, <5>2, <4>1, <2>4 DEF FlatStep
      <4>2. CASE i # x
        <5>1. i \in 1 .. x - 1 /\ f[i] = g[i] /\ g[i] = FlatStep(ss, g, i)
          BY <4>2, <2>2, <3>3 DEF IsFlat
        <5>2. i # 1 => f[i - 1] = g[i - 1]
          BY <5>1, <2>2
        <5> QED BY <5>1, <5>2 DEF FlatStep
      <4> QED BY <4>1, <4>2
    <3>5. IsFlat(ss, f, x)
      BY <3>4 DEF IsFlat
    <3> QED BY <3>5
  <2> QED BY <2>3, <2>4
<1> QED BY <1>1

FlatBy(ss, m, f) ==
  /\ f[1] = ss[1]
  /\ \A i \in 2 .. m : f[i] = f[i - 1] \o ss[i]
  /\ FlattenSeq(ss) = f[m]

LEMMA FlatFunction ==
  ASSUME NEW ss, NEW m \in Nat \ {0}, Len(ss) = m
  PROVE  \E f : FlatBy(ss, m, f)
<1> DEFINE f == CHOOSE g : g = [i \in 1 .. Len(ss) |-> IF i = 1 THEN ss[i] ELSE g[i - 1] \o ss[i]]
<1>1. \E g : g = [i \in 1 .. Len(ss) |-> IF i = 1 THEN ss[i] ELSE g[i - 1] \o ss[i]]
  BY FlatExists DEF IsFlat, FlatStep
<1>2. f = [i \in 1 .. Len(ss) |-> IF i = 1 THEN ss[i] ELSE f[i - 1] \o ss[i]]
  BY <1>1
<1>3. FlattenSeq(ss) = f[Len(ss)]
  BY DEF FlattenSeq
<1> HIDE DEF f
<1>4. f[1] = ss[1] /\ \A i \in 2 .. m : f[i] = f[i - 1] \o ss[i]
  <2>1. ASSUME NEW i \in 1 .. m
        PROVE  f[i] = IF i = 1 THEN ss[i] ELSE f[i - 1] \o ss[i]
    BY <1>2, Zenon
  <2>2. f[1] = ss[1]
    BY <2>1
  <2>3. ASSUME NEW i \in 2 .. m
        PROVE  f[i] = f[i - 1] \o ss[i]
    <3>1. i \in 1 .. m /\ i # 1
      OBVIOUS
    <3> QED BY <2>1, <3>1, Zenon
  <2> QED BY <2>2, <2>3
<1> QED BY <1>3, <1>4, Zenon DEF FlatBy

-----------------------------------------------------------------------------
(* Induction up to m, of a set of numbers, and the functions by recursion  *)
(* up to m: Step[i] is what makes the value at i of that before it.        *)
LEMMA Upwards ==
  ASSUME NEW m \in Nat, NEW G, 0 \in G, \A i \in 1 .. m : i - 1 \in G => i \in G
  PROVE  \A i \in 0 .. m : i \in G
<1> DEFINE B == {i \in 0 .. m : i \notin G}
<1>1. ASSUME B # {}
      PROVE  FALSE
  <2>1. PICK x \in B : \A y \in B : x <= y
    <3>1. B \subseteq Nat
      OBVIOUS
    <3> QED BY <1>1, <3>1, LeastOf
  <2>2. x # 0 /\ x \in 0 .. m /\ x \notin G
    OBVIOUS
  <2>3. x \in 1 .. m /\ x - 1 \in 0 .. m /\ ~(x <= x - 1)
    BY <2>2
  <2>4. x - 1 \in G
    BY <2>1, <2>3
  <2> QED BY <2>2, <2>3, <2>4
<1> QED BY <1>1

IsRecursion(f, m, base, Step) == f = [i \in 0 .. m |-> IF i = 0 THEN base ELSE Step[i][f[i - 1]]]

LEMMA Recursion ==
  ASSUME NEW X, NEW m \in Nat, NEW base \in X, NEW Step, \A i \in 1 .. m, x \in X : Step[i][x] \in X
  PROVE  \E f : IsRecursion(f, m, base, Step) /\ \A i \in 0 .. m : f[i] \in X
<1> DEFINE P(f, k) == IsRecursion(f, k, base, Step) /\ \A i \in 0 .. k : f[i] \in X
           G == {k \in 0 .. m : \E f : P(f, k)}
<1>1. 0 \in G
  <2>1. P([i \in 0 .. 0 |-> base], 0)
    BY DEF IsRecursion
  <2> QED BY <2>1
<1>2. ASSUME NEW k \in 1 .. m, k - 1 \in G
      PROVE  k \in G
  <2>1. PICK g : P(g, k - 1)
    BY <1>2
  <2> DEFINE f == [i \in 0 .. k |-> IF i = k THEN Step[k][g[k - 1]] ELSE g[i]]
  <2>2. k - 1 \in 0 .. k - 1 /\ g[k - 1] \in X
    BY <2>1
  <2>3. ASSUME NEW i \in 0 .. k
        PROVE  f[i] \in X /\ f[i] = IF i = 0 THEN base ELSE Step[i][f[i - 1]]
    <3>1. CASE i = k
      <4>1. i # 0 /\ f[i] = Step[k][g[k - 1]] /\ f[i - 1] = g[k - 1]
        BY <3>1
      <4> QED BY <4>1, <3>1, <2>2
    <3>2. CASE i # k
      <4>1. i \in 0 .. k - 1 /\ f[i] = g[i]
        BY <3>2
      <4>2. i # 0 => f[i - 1] = g[i - 1]
        BY <3>2
      <4> HIDE DEF f
      <4> QED BY <4>1, <4>2, <2>1 DEF IsRecursion
    <3> QED BY <3>1, <3>2
  <2>4. P(f, k)
    BY <2>3 DEF IsRecursion
  <2> QED BY <2>4
<1> HIDE DEF P
<1>3. \A k \in 0 .. m : k \in G
  <2> HIDE DEF G
  <2> QED BY <1>1, <1>2, Upwards
<1> QED BY <1>3 DEF P

LEMMA JoinedSet ==
  ASSUME NEW X, NEW s \in Seq(X), NEW t \in Seq(X)
  PROVE  ToSet(s \o t) = ToSet(s) \cup ToSet(t)
<1>1. s \o t \in Seq(X) /\ Len(s \o t) = Len(s) + Len(t) /\ Len(s) \in Nat /\ Len(t) \in Nat
  OBVIOUS
<1>2. DOMAIN s = 1 .. Len(s) /\ DOMAIN t = 1 .. Len(t) /\ DOMAIN (s \o t) = 1 .. Len(s) + Len(t)
  BY <1>1
<1>3. ASSUME NEW x \in ToSet(s \o t)
      PROVE  x \in ToSet(s) \cup ToSet(t)
  <2>1. PICK i \in 1 .. Len(s) + Len(t) : x = (s \o t)[i]
    BY <1>2 DEF ToSet
  <2>2. CASE i <= Len(s)
    <3>1. i \in 1 .. Len(s) /\ x = s[i]
      BY <2>1, <2>2, <1>1
    <3> QED BY <3>1, <1>2 DEF ToSet
  <2>3. CASE Len(s) < i
    <3>1. i - Len(s) \in 1 .. Len(t) /\ x = t[i - Len(s)]
      BY <2>1, <2>3, <1>1
    <3> QED BY <3>1, <1>2 DEF ToSet
  <2>4. i <= Len(s) \/ Len(s) < i
    BY <2>1, <1>1
  <2> QED BY <2>2, <2>3, <2>4
<1>4. ASSUME NEW x \in ToSet(s)
      PROVE  x \in ToSet(s \o t)
  <2>1. PICK i \in 1 .. Len(s) : x = s[i]
    BY <1>2 DEF ToSet
  <2>2. i \in 1 .. Len(s) + Len(t) /\ (s \o t)[i] = s[i]
    BY <1>1
  <2> QED BY <2>1, <2>2, <1>2 DEF ToSet
<1>5. ASSUME NEW x \in ToSet(t)
      PROVE  x \in ToSet(s \o t)
  <2>1. PICK i \in 1 .. Len(t) : x = t[i]
    BY <1>2 DEF ToSet
  <2>2. PICK k \in 1 .. Len(s) + Len(t) : k = i + Len(s)
    BY <1>1
  <2>3. (s \o t)[k] = t[i]
    BY <1>1, <2>2
  <2> QED BY <2>1, <2>3, <1>2 DEF ToSet
<1> QED BY <1>3, <1>4, <1>5

(* What FlattenSeq makes, and of what.                                     *)
LEMMA FlatUnion ==
  ASSUME NEW X, NEW m \in Nat, NEW ss \in [1 .. m -> Seq(X)]
  PROVE  /\ FlattenSeq(ss) \in Seq(X)
         /\ ToSet(FlattenSeq(ss)) = UNION {ToSet(ss[j]) : j \in 1 .. m}
<1>1. CASE m = 0
  <2>1. ss = <<>> /\ Len(ss) = 0
    BY <1>1
  <2>2. FlattenSeq(ss) = <<>>
    BY <2>1 DEF FlattenSeq
  <2>3. ToSet(<<>>) = {}
    BY DEF ToSet
  <2>4. {ToSet(ss[j]) : j \in 1 .. m} = {}
    BY <1>1
  <2> QED BY <2>2, <2>3, <2>4
<1>2. CASE m # 0
  <2>1. Len(ss) = m /\ m \in Nat \ {0}
    BY <1>2
  <2>2. PICK f : FlatBy(ss, m, f)
    BY <2>1, FlatFunction
  <2> DEFINE P(k) == k > 0 => f[k] \in Seq(X) /\ \A x : x \in ToSet(f[k]) <=> \E j \in 1 .. k : x \in ToSet(ss[j])
             G == {k \in 0 .. m : P(k)}
  <2>3. 0 \in G
    OBVIOUS
  <2>4. ASSUME NEW k \in 1 .. m, k - 1 \in G
        PROVE  k \in G
    <3>1. ss[k] \in Seq(X)
      OBVIOUS
    <3>2. CASE k = 1
      <4>1. f[k] = ss[1]
        BY <2>2, <3>2 DEF FlatBy
      <4>2. \A x : x \in ToSet(f[k]) <=> \E j \in 1 .. k : x \in ToSet(ss[j])
        BY <4>1, <3>2
      <4> QED BY <4>1, <4>2, <3>1, <3>2
    <3>3. CASE k # 1
      <4>1. k - 1 > 0 /\ k \in 2 .. m
        BY <3>3
      <4>2. f[k - 1] \in Seq(X) /\ \A x : x \in ToSet(f[k - 1]) <=> \E j \in 1 .. k - 1 : x \in ToSet(ss[j])
        BY <2>4, <4>1
      <4>3. f[k] = f[k - 1] \o ss[k]
        BY <2>2, <4>1 DEF FlatBy
      <4>4. f[k] \in Seq(X)
        BY <4>2, <4>3, <3>1
      <4>5. ToSet(f[k]) = ToSet(f[k - 1]) \cup ToSet(ss[k])
        BY <4>2, <4>3, <3>1, JoinedSet
      <4>6. ASSUME NEW x
            PROVE  x \in ToSet(f[k]) <=> \E j \in 1 .. k : x \in ToSet(ss[j])
        <5>1. \A j \in 1 .. k : j = k \/ j \in 1 .. k - 1
          OBVIOUS
        <5>2. k \in 1 .. k /\ \A j \in 1 .. k - 1 : j \in 1 .. k
          OBVIOUS
        <5> QED BY <4>2, <4>5, <5>1, <5>2, Zenon
      <4> QED BY <4>4, <4>6
    <3> QED BY <3>2, <3>3
  <2>5. \A k \in 0 .. m : k \in G
    <3> HIDE DEF G
    <3> QED BY <2>3, <2>4, Upwards
  <2>6. m \in 0 .. m /\ m > 0
    BY <2>1
  <2>7. P(m)
    BY <2>5, <2>6
  <2> HIDE DEF G
  <2> QED BY <2>2, <2>6, <2>7 DEF FlatBy
<1> QED BY <1>1, <1>2

-----------------------------------------------------------------------------
(* Byte j of sector i.                                                     *)
LEMMA Division ==
  ASSUME NEW m \in Nat \ {0}, NEW x \in Int
  PROVE  \E q \in Int, r \in 0 .. m - 1 : q = x \div m /\ r = x % m /\ x = q * m + r
<1>1. x \div m \in Int /\ x % m \in 0 .. m - 1 /\ x = (x \div m) * m + (x % m)
  OBVIOUS
<1> QED BY <1>1, Zenon

LEMMA Below ==
  ASSUME NEW m \in Nat, NEW i \in Int, NEW k \in Int, i < k
  PROVE  i * m + m <= k * m
<1>1. PICK d \in Nat : k = i + 1 + d
  <2>1. k - (i + 1) \in Nat /\ k = i + 1 + (k - (i + 1))
    OBVIOUS
  <2> QED BY <2>1
<1>2. k * m = i * m + m + d * m /\ d * m \in Nat /\ i * m \in Int
  BY <1>1
<1> QED BY <1>2

LEMMA PositionIn ==
  ASSUME NEW m \in Nat \ {0}, NEW k \in Nat, NEW i \in 0 .. k - 1, NEW j \in 1 .. m
  PROVE  i * m + j \in 1 .. k * m
<1>1. i * m + m <= k * m
  BY Below
<1>2. i * m \in Nat /\ k * m \in Nat
  OBVIOUS
<1> QED BY <1>1, <1>2

LEMMA PositionOf ==
  ASSUME NEW m \in Nat \ {0}, NEW k \in Nat, NEW a \in 1 .. k * m
  PROVE  \E i \in 0 .. k - 1, j \in 1 .. m : a = i * m + j
<1>0. k * m \in Nat /\ a \in Int /\ a - 1 \in Int
  OBVIOUS
<1>1. PICK q \in Int, r \in 0 .. m - 1 : a - 1 = q * m + r
  <2>1. \E q \in Int, r \in 0 .. m - 1 : q = (a - 1) \div m /\ r = (a - 1) % m /\ a - 1 = q * m + r
    BY <1>0, Division, Zenon
  <2> QED BY <2>1, Zenon
<1>2. q * m \in Int /\ a = q * m + (r + 1) /\ r + 1 \in 1 .. m
  BY <1>1
<1>3. ASSUME q < 0 PROVE FALSE
  <2>1. q * m + m <= 0 * m
    BY <1>3, Below
  <2> QED BY <2>1, <1>2
<1>4. ASSUME k <= q PROVE FALSE
  <2>1. k * m <= q * m
    <3>1. k < q => k * m + m <= q * m
      BY Below
    <3> QED BY <3>1, <1>4, <1>0, <1>2
  <2> QED BY <2>1, <1>2, <1>0
<1>5. q \in 0 .. k - 1
  BY <1>3, <1>4
<1> QED BY <1>2, <1>5

LEMMA OnePosition ==
  ASSUME NEW m \in Nat \ {0}, NEW i \in Int, NEW k \in Int, NEW j \in 1 .. m, NEW l \in 1 .. m,
         i * m + j = k * m + l
  PROVE  i = k /\ j = l
<1>1. i * m \in Int /\ k * m \in Int
  OBVIOUS
<1>2. i < k => i * m + m <= k * m
  BY Below
<1>3. k < i => k * m + m <= i * m
  BY Below
<1>4. i = k
  BY <1>1, <1>2, <1>3
<1> QED BY <1>1, <1>4

-----------------------------------------------------------------------------
(* The bytes of k sectors from `first` on.                                 *)
Holds(s, d, first, k) ==
  /\ s \in Seq(Byte) /\ Len(s) = k * BlockSize
  /\ \A i \in 0 .. k - 1, j \in 1 .. BlockSize : s[i * BlockSize + j] = d[first + i][j]

LEMMA Sizes ==
  /\ BlockSize \in Nat \ {0} /\ Blocks \in Nat \ {0}
  /\ Blocks * BlockSize \in Nat
BY FilesAssumption

LEMMA HoldsMore ==
  ASSUME NEW s, NEW t, NEW d, NEW first, NEW k \in Nat,
         Holds(s, d, first, k), t \in [1 .. BlockSize -> Byte], t = d[first + k]
  PROVE  Holds(s \o t, d, first, k + 1)
<1>1. t \in Seq(Byte) /\ Len(t) = BlockSize /\ BlockSize \in Nat \ {0}
  BY Sizes
<1>2. s \in Seq(Byte) /\ Len(s) = k * BlockSize /\ k * BlockSize \in Nat
  BY Sizes DEF Holds
<1>3. (k + 1) * BlockSize = k * BlockSize + BlockSize
  BY <1>1
<1>4. s \o t \in Seq(Byte) /\ Len(s \o t) = (k + 1) * BlockSize
  BY <1>1, <1>2, <1>3
<1>5. ASSUME NEW i \in 0 .. k, NEW j \in 1 .. BlockSize
      PROVE  (s \o t)[i * BlockSize + j] = d[first + i][j]
  <2>1. CASE i = k
    <3>1. (s \o t)[k * BlockSize + j] = t[j]
      BY <1>1, <1>2
    <3> QED BY <2>1, <3>1
  <2>2. CASE i # k
    <3>1. i \in 0 .. k - 1
      BY <2>2
    <3>2. i * BlockSize + j \in 1 .. k * BlockSize
      BY <3>1, <1>1, PositionIn
    <3>3. (s \o t)[i * BlockSize + j] = s[i * BlockSize + j]
      BY <3>2, <1>1, <1>2
    <3> QED BY <3>1, <3>3 DEF Holds
  <2> QED BY <2>1, <2>2
<1>6. 0 .. (k + 1) - 1 = 0 .. k
  OBVIOUS
<1> QED BY <1>4, <1>5, <1>6, Zenon DEF Holds

(* A sequence of sectors put together, of any length.                      *)
LEMMA FlatHolds ==
  ASSUME NEW d, NEW first \in Nat, NEW k \in Nat,
         \A i \in 0 .. k - 1 : d[first + i] \in [1 .. BlockSize -> Byte],
         NEW ss, ss = [i \in 1 .. k |-> d[first + i - 1]]
  PROVE  Holds(FlattenSeq(ss), d, first, k)
<1>1. ss \in Seq([1 .. BlockSize -> Byte]) /\ Len(ss) = k
  <2>1. ASSUME NEW i \in 1 .. k
        PROVE  ss[i] \in [1 .. BlockSize -> Byte]
    <3>1. i - 1 \in 0 .. k - 1 /\ first + i - 1 = first + (i - 1)
      OBVIOUS
    <3> QED BY <3>1
  <2> QED BY <2>1
<1>2. CASE k = 0
  <2>1. FlattenSeq(ss) = ss
    BY <1>1, <1>2 DEF FlattenSeq
  <2>2. ss \in Seq(Byte) /\ Len(ss) = k * BlockSize
    BY <1>1, <1>2, Sizes
  <2>3. 0 .. k - 1 = {}
    BY <1>2
  <2> QED BY <2>1, <2>2, <2>3 DEF Holds
<1>3. CASE k # 0
  <2>1. k \in Nat \ {0}
    BY <1>3
  <2>2. PICK f : FlatBy(ss, k, f)
    BY <2>1, <1>1, FlatFunction, Zenon
  <2> DEFINE B == {i \in 1 .. k : ~Holds(f[i], d, first, i)}
  <2>3. ASSUME B # {}
        PROVE  FALSE
    <3>0. B \subseteq Nat
      OBVIOUS
    <3>1. PICK x \in B : \A y \in B : x <= y
      BY <2>3, <3>0, LeastOf, Zenon
    <3>2. x \in 1 .. k /\ ~Holds(f[x], d, first, x)
      BY <3>1
    <3>3. ss[x] = d[first + (x - 1)] /\ ss[x] \in [1 .. BlockSize -> Byte]
      <4>1. x - 1 \in 0 .. k - 1 /\ first + x - 1 = first + (x - 1)
        BY <3>2
      <4> QED BY <4>1, <3>2
    <3>4. CASE x = 1
      <4>1. Holds(<<>>, d, first, 0)
        <5>1. 0 .. 0 - 1 = {} /\ 0 * BlockSize = 0
          BY Sizes
        <5> QED BY <5>1 DEF Holds
      <4>2. ss[x] = d[first + 0] /\ 0 + 1 = x
        BY <3>3, <3>4
      <4>3. Holds(<<>> \o ss[x], d, first, x)
        BY <4>1, <4>2, <3>3, HoldsMore
      <4>4. <<>> \o ss[x] = ss[x]
        <5>1. ss[x] \in Seq(Byte)
          BY <3>3, Sizes
        <5> QED BY <5>1
      <4> QED BY <4>3, <4>4, <3>4, <3>2, <2>2 DEF FlatBy
    <3>5. CASE x # 1
      <4>1. x \in 2 .. k /\ x - 1 \in 1 .. k /\ x - 1 \in Nat /\ ~(x <= x - 1) /\ (x - 1) + 1 = x
        BY <3>2, <3>5
      <4>2. Holds(f[x - 1], d, first, x - 1)
        BY <4>1, <3>1
      <4>3. Holds(f[x - 1] \o ss[x], d, first, (x - 1) + 1)
        BY <4>1, <4>2, <3>3, HoldsMore
      <4> QED BY <4>1, <4>3, <3>2, <2>2 DEF FlatBy
    <3> QED BY <3>4, <3>5
  <2>4. k \in 1 .. k
    BY <2>1
  <2> QED BY <2>2, <2>3, <2>4 DEF FlatBy
<1> QED BY <1>2, <1>3

(* Sectors of which the first i are left out.                              *)
Within(t, s, b) == b + Len(t) <= Len(s) /\ \A a \in 1 .. Len(t) : t[a] = s[b + a]

LEMMA HoldsWithin ==
  ASSUME NEW d, NEW k \in Nat, NEW first \in Nat, NEW c \in Nat, first + c <= k,
         NEW s, NEW t, Holds(s, d, 0, k), Holds(t, d, first, c)
  PROVE  Within(t, s, first * BlockSize)
<1>1. first * BlockSize \in Nat /\ c * BlockSize \in Nat /\ (first + c) * BlockSize = first * BlockSize + c * BlockSize
  BY Sizes
<1>2. (first + c) * BlockSize <= k * BlockSize
  <2>1. first + c < k => (first + c) * BlockSize + BlockSize <= k * BlockSize
    BY Below, Sizes
  <2>2. (first + c) * BlockSize \in Nat /\ k * BlockSize \in Nat
    BY Sizes
  <2> QED BY <2>1, <2>2, Sizes
<1>3. ASSUME NEW a \in 1 .. Len(t)
      PROVE  t[a] = s[first * BlockSize + a]
  <2>1. PICK i \in 0 .. c - 1, j \in 1 .. BlockSize : a = i * BlockSize + j
    <3>1. a \in 1 .. c * BlockSize
      BY DEF Holds
    <3> QED BY <3>1, PositionOf, Sizes, Zenon
  <2>2. t[a] = d[first + i][j]
    BY <2>1 DEF Holds
  <2>3. first + i \in 0 .. k - 1 /\ 0 + (first + i) = first + i
    OBVIOUS
  <2>4. s[(first + i) * BlockSize + j] = d[first + i][j]
    BY <2>3 DEF Holds
  <2>5. (first + i) * BlockSize + j = first * BlockSize + a
    <3>1. (first + i) * BlockSize = first * BlockSize + i * BlockSize /\ i * BlockSize \in Nat
      BY Sizes
    <3> QED BY <3>1, <2>1, <1>1
  <2> QED BY <2>2, <2>4, <2>5
<1> QED BY <1>1, <1>2, <1>3 DEF Holds, Within

-----------------------------------------------------------------------------
(* Reading                                                                 *)

LEMMA DiskHolds ==
  ASSUME NEW d \in [Sector -> [1 .. BlockSize -> Byte]]
  PROVE  Holds(FlattenSeq([i \in 1 .. Blocks |-> d[i - 1]]), d, 0, Blocks)
<1>1. \A i \in 0 .. Blocks - 1 : d[0 + i] \in [1 .. BlockSize -> Byte]
  BY DEF Sector
<1> DEFINE ss == [i \in 1 .. Blocks |-> d[i - 1]]
<1>2. ss = [i \in 1 .. Blocks |-> d[0 + i - 1]]
  <2>1. \A i \in 1 .. Blocks : 0 + i - 1 = i - 1
    OBVIOUS
  <2> QED BY <2>1
<1>3. Blocks \in Nat /\ 0 \in Nat
  BY Sizes
<1> HIDE DEF ss
<1>4. Holds(FlattenSeq(ss), d, 0, Blocks)
  BY <1>1, <1>2, <1>3, FlatHolds, Zenon
<1> QED BY <1>4 DEF ss

LEMMA DeviceHolds ==
  ASSUME TypeOK
  PROVE  Holds(DeviceBytes, disk, 0, Blocks)
BY DiskHolds, Zenon DEF TypeOK, DeviceBytes

(* The sectors f to l - 1 are those that n bytes at pos touch.             *)
Cover(pos, n, f, l, o, r) ==
  /\ f = FirstBlock(pos) /\ l = LastBlock(pos, n) /\ o = pos % BlockSize /\ r = (n + pos) % BlockSize
  /\ f < l /\ f * BlockSize \in Nat /\ l * BlockSize \in Nat
  /\ pos = f * BlockSize + o
  /\ r = 0 => l * BlockSize = pos + n
  /\ r # 0 => /\ l * BlockSize = pos + n + (BlockSize - r)
              /\ (n + pos) \div BlockSize = l - 1
  /\ \A k \in Nat : l <= k <=> pos + n <= k * BlockSize

LEMMA Covered ==
  ASSUME NEW pos \in Nat, NEW n \in Nat \ {0}
  PROVE  \E f \in Nat, l \in Nat, o \in 0 .. BlockSize - 1, r \in 0 .. BlockSize - 1 : Cover(pos, n, f, l, o, r)
<1>0. BlockSize \in Nat \ {0} /\ pos \in Int /\ n + pos \in Int /\ n \in Int
  BY Sizes
<1>1. PICK f \in Int, o \in 0 .. BlockSize - 1 : f = pos \div BlockSize /\ o = pos % BlockSize /\ pos = f * BlockSize + o
  BY <1>0, Division, Zenon
<1>2. PICK q \in Int, r \in 0 .. BlockSize - 1 :
        q = (n + pos) \div BlockSize /\ r = (n + pos) % BlockSize /\ n + pos = q * BlockSize + r
  BY <1>0, Division, Zenon
<1> DEFINE l == q + (IF r # 0 THEN 1 ELSE 0)
<1>3. l \in Int /\ l * BlockSize = q * BlockSize + (IF r # 0 THEN BlockSize ELSE 0)
  BY <1>0
<1>4. f * BlockSize \in Int /\ q * BlockSize \in Int /\ l * BlockSize \in Int
  BY <1>0, <1>3
<1>5. l = LastBlock(pos, n) /\ f = FirstBlock(pos)
  BY <1>1, <1>2 DEF LastBlock, FirstBlock
<1>6. r = 0 => l * BlockSize = pos + n
  BY <1>2, <1>3, <1>4
<1>7. r # 0 => l * BlockSize = pos + n + (BlockSize - r) /\ q = l - 1
  BY <1>0, <1>2, <1>3, <1>4
<1> HIDE DEF l
<1>8. f >= 0
  <2>1. ASSUME f < 0 PROVE FALSE
    <3>1. f * BlockSize + BlockSize <= 0 * BlockSize
      BY <2>1, <1>0, Below
    <3> QED BY <3>1, <1>0, <1>1, <1>4
  <2> QED BY <2>1
<1>9. f < l
  <2>1. ASSUME l <= f PROVE FALSE
    <3>1. l < f => l * BlockSize + BlockSize <= f * BlockSize
      BY <1>0, <1>3, Below
    <3>2. l * BlockSize <= f * BlockSize
      BY <3>1, <2>1, <1>0, <1>3, <1>4
    <3> QED BY <3>2, <1>0, <1>1, <1>4, <1>6, <1>7
  <2> QED BY <2>1, <1>3
<1>10. ASSUME NEW k \in Nat
       PROVE  l <= k <=> pos + n <= k * BlockSize
  <2>0. k * BlockSize \in Int
    BY <1>0
  <2>1. l <= k => pos + n <= k * BlockSize
    <3>1. l < k => l * BlockSize + BlockSize <= k * BlockSize
      BY <1>0, <1>3, Below
    <3> QED BY <3>1, <2>0, <1>0, <1>3, <1>4, <1>6, <1>7
  <2>2. k < l => k * BlockSize < pos + n
    <3>1. k < l => k * BlockSize + BlockSize <= l * BlockSize
      BY <1>0, <1>3, Below
    <3> QED BY <3>1, <2>0, <1>0, <1>4, <1>6, <1>7
  <2> QED BY <2>0, <2>1, <2>2, <1>0, <1>3
<1>11. f \in Nat /\ l \in Nat /\ f * BlockSize \in Nat /\ l * BlockSize \in Nat
  <2>1. f \in Nat /\ l \in Nat
    BY <1>3, <1>8, <1>9
  <2> QED BY <2>1, <1>0
<1>12. Cover(pos, n, f, l, o, r)
  BY <1>1, <1>2, <1>5, <1>6, <1>7, <1>9, <1>10, <1>11 DEF Cover
<1> QED BY <1>11, <1>12

IsSlice(t, s, a, b, X) ==
  /\ t \in Seq(X) /\ Len(t) = b - a
  /\ \A i \in 1 .. b - a : t[i] = s[a + i]

LEMMA SliceWithin ==
  ASSUME NEW X, NEW s \in Seq(X), NEW a \in Nat, NEW b \in Nat, a <= b, b <= Len(s)
  PROVE  IsSlice(Slice(s, a, b), s, a, b, X)
<1>1. Slice(s, a, b) = SubSeq(s, a + 1, b)
  BY DEF Slice
<1>2. SubSeq(s, a + 1, b) \in Seq(X) /\ Len(SubSeq(s, a + 1, b)) = b - a
  OBVIOUS
<1>3. ASSUME NEW i \in 1 .. b - a
      PROVE  SubSeq(s, a + 1, b)[i] = s[a + i]
  OBVIOUS
<1> QED BY <1>1, <1>2, <1>3 DEF IsSlice

LEMMA SameSequence ==
  ASSUME NEW X, NEW s \in Seq(X), NEW t \in Seq(X), Len(s) = Len(t), \A i \in 1 .. Len(s) : s[i] = t[i]
  PROVE  s = t
OBVIOUS

LEMMA FitsOnDisk ==
  ASSUME TypeOK, NEW pos \in Nat, NEW n \in Nat \ {0}
  PROVE  /\ ReadFits(pos, n) <=> LastBlock(pos, n) <= Blocks
         /\ ReadFits(pos, n) <=> pos + n <= Len(DeviceBytes)
<1>1. PICK f \in Nat, l \in Nat, o \in 0 .. BlockSize - 1, r \in 0 .. BlockSize - 1 : Cover(pos, n, f, l, o, r)
  BY Covered
<1>2. f + (l - f) = l
  OBVIOUS
<1>3. ReadFits(pos, n) <=> l <= Blocks
  BY <1>1, <1>2 DEF ReadFits, Fits, Cover
<1>4. l <= Blocks <=> pos + n <= Blocks * BlockSize
  BY <1>1, Sizes DEF Cover
<1> QED BY <1>1, <1>3, <1>4, DeviceHolds DEF Cover, Holds

LEMMA ReadSectorsHolds ==
  ASSUME TypeOK, NEW first \in Nat, NEW k \in Nat, first + k <= Blocks
  PROVE  Holds(ReadSectors(first, k), disk, first, k)
<1>1. \A i \in 0 .. k - 1 : disk[first + i] \in [1 .. BlockSize -> Byte]
  BY Sizes DEF TypeOK, Sector
<1> DEFINE ss == [i \in 1 .. k |-> disk[first + i - 1]]
<1>2. ReadSectors(first, k) = FlattenSeq(ss)
  BY DEF ReadSectors
<1>3. ss = [i \in 1 .. k |-> disk[first + i - 1]]
  OBVIOUS
<1> HIDE DEF ss
<1> QED BY <1>1, <1>2, <1>3, FlatHolds, Zenon

(* What a read finds in its sectors is what is at its position.            *)
LEMMA ReadBytesThere ==
  ASSUME TypeOK, NEW pos \in Nat, NEW n \in Nat \ {0}, ReadFits(pos, n)
  PROVE  /\ ReadBytes(pos, n) = SubSeq(DeviceBytes, pos + 1, pos + n)
         /\ Len(ReadBytes(pos, n)) = n
<1>1. PICK f \in Nat, l \in Nat, o \in 0 .. BlockSize - 1, r \in 0 .. BlockSize - 1 : Cover(pos, n, f, l, o, r)
  BY Covered
<1>2. l <= Blocks /\ l - f \in Nat /\ f + (l - f) = l /\ f + (l - f) <= Blocks
  <2>1. LastBlock(pos, n) <= Blocks
    BY FitsOnDisk
  <2>2. f < l /\ l <= Blocks /\ Blocks \in Nat
    BY <1>1, <2>1, Sizes DEF Cover
  <2> QED BY <2>2
<1>3. PICK c \in Nat : c = l - f
  BY <1>2
<1> DEFINE t == ReadSectors(f, c)
           D == DeviceBytes
<1>4. Holds(t, disk, f, c) /\ Holds(D, disk, 0, Blocks) /\ f + c <= Blocks /\ Blocks \in Nat
  BY <1>2, <1>3, ReadSectorsHolds, DeviceHolds, Sizes
<1>5. ReadBytes(pos, n) = IF o = 0 /\ r = 0 THEN t ELSE Slice(t, o, o + n)
  BY <1>1, <1>3 DEF ReadBytes, Cover
<1> HIDE DEF t, D
<1>6. PICK fb \in Nat, lb \in Nat : fb = f * BlockSize /\ lb = l * BlockSize
  BY <1>1 DEF Cover
<1>7. /\ t \in Seq(Byte) /\ D \in Seq(Byte)
      /\ Len(t) = lb - fb
  <2>1. c * BlockSize = l * BlockSize - f * BlockSize
    BY <1>3, Sizes
  <2> QED BY <1>4, <1>6, <2>1 DEF Holds
<1>8. /\ fb + Len(t) <= Len(D)
      /\ \A a \in 1 .. Len(t) : t[a] = D[fb + a]
  <2>1. Within(t, D, f * BlockSize)
    BY <1>4, HoldsWithin
  <2> QED BY <1>6, <2>1 DEF Within
<1>9. /\ pos = fb + o /\ BlockSize \in Nat
      /\ r = 0 => lb = pos + n
      /\ r # 0 => lb = pos + n + (BlockSize - r)
  BY <1>1, <1>6, Sizes DEF Cover
<1>10. o + n <= Len(t) /\ (o = 0 /\ r = 0 => Len(t) = n)
  BY <1>7, <1>9
<1>11. ASSUME NEW u \in Seq(Byte), Len(u) = n, \A i \in 1 .. n : u[i] = t[o + i]
       PROVE  u = SubSeq(D, pos + 1, pos + n)
  <2>1. pos + n <= Len(D)
    BY <1>7, <1>8, <1>9, <1>10
  <2>2. /\ SubSeq(D, pos + 1, pos + n) \in Seq(Byte) /\ Len(SubSeq(D, pos + 1, pos + n)) = n
        /\ \A i \in 1 .. n : SubSeq(D, pos + 1, pos + n)[i] = D[pos + i]
    BY <1>7, <2>1
  <2>3. ASSUME NEW i \in 1 .. n
        PROVE  u[i] = D[pos + i]
    <3>1. o + i \in 1 .. Len(t) /\ fb + (o + i) = pos + i
      BY <1>7, <1>9, <1>10
    <3> QED BY <3>1, <1>8, <1>11
  <2> QED BY <1>11, <2>2, <2>3, SameSequence
<1>12. CASE o = 0 /\ r = 0
  <2>1. \A i \in 1 .. n : 0 + i = i
    OBVIOUS
  <2> QED BY <2>1, <1>5, <1>7, <1>10, <1>11, <1>12 DEF D
<1>13. CASE ~(o = 0 /\ r = 0)
  <2>1. o \in Nat /\ o + n \in Nat /\ o <= o + n /\ (o + n) - o = n
    OBVIOUS
  <2>2. /\ Slice(t, o, o + n) \in Seq(Byte) /\ Len(Slice(t, o, o + n)) = (o + n) - o
        /\ \A i \in 1 .. (o + n) - o : Slice(t, o, o + n)[i] = t[o + i]
    <3>1. IsSlice(Slice(t, o, o + n), t, o, o + n, Byte)
      BY <2>1, <1>7, <1>10, SliceWithin
    <3> QED BY <3>1 DEF IsSlice
  <2> QED BY <2>1, <2>2, <1>5, <1>11, <1>13 DEF D
<1> QED BY <1>12, <1>13

LEMMA OpenFile ==
  ASSUME TypeOK, NEW fd \in Fds, File(fd) # None
  PROVE  File(fd) \in [node : Nodes, pos : Nat, mode : Modes]
BY DEF TypeOK, File

LEMMA TypesRead == TypeOK => ReadsWhatIsThere
<1> SUFFICES ASSUME TypeOK, NEW fd \in Fds, NEW n \in 1 .. MaxLen, In(fd, "device"), File(fd).mode # "WRONLY"
             PROVE  /\ Readable(fd, n) <=> File(fd).pos + n <= Len(DeviceBytes)
                    /\ Readable(fd, n) => Reply(fd, n) = SubSeq(DeviceBytes, File(fd).pos + 1, File(fd).pos + n)
  BY DEF ReadsWhatIsThere
<1>1. File(fd) # None /\ File(fd).node = "device" /\ File(fd).pos \in Nat /\ n \in Nat \ {0}
  BY OpenFile, FilesAssumption DEF In
<1>2. Readable(fd, n) <=> ReadFits(File(fd).pos, n)
  BY <1>1 DEF Readable
<1>3. Reply(fd, n) = ReadBytes(File(fd).pos, n)
  BY <1>1 DEF Reply
<1> QED BY <1>1, <1>2, <1>3, FitsOnDisk, ReadBytesThere

-----------------------------------------------------------------------------
(* Writing                                                                 *)

InThree(u, s, b, t, X) ==
  /\ u \in Seq(X) /\ Len(u) = Len(s) + Len(b) + Len(t)
  /\ \A a \in 1 .. Len(s) + Len(b) + Len(t) :
       u[a] = IF a <= Len(s) THEN s[a]
              ELSE IF a <= Len(s) + Len(b) THEN b[a - Len(s)]
              ELSE t[a - (Len(s) + Len(b))]

LEMMA ThreeParts ==
  ASSUME NEW X, NEW s \in Seq(X), NEW b \in Seq(X), NEW t \in Seq(X)
  PROVE  InThree(s \o b \o t, s, b, t, X)
<1>1. s \o b \in Seq(X) /\ Len(s \o b) = Len(s) + Len(b)
  OBVIOUS
<1>2. PICK u \in Seq(X) : u = s \o b /\ Len(u) = Len(s) + Len(b)
  BY <1>1
<1>3. u \o t \in Seq(X) /\ Len(u \o t) = Len(u) + Len(t)
  OBVIOUS
<1>4. ASSUME NEW a \in 1 .. Len(s) + Len(b) + Len(t)
      PROVE  (u \o t)[a] = IF a <= Len(s) THEN s[a]
                           ELSE IF a <= Len(s) + Len(b) THEN b[a - Len(s)]
                           ELSE t[a - (Len(s) + Len(b))]
  <2>1. (u \o t)[a] = IF a <= Len(u) THEN u[a] ELSE t[a - Len(u)]
    BY <1>2
  <2>2. a <= Len(u) => u[a] = IF a <= Len(s) THEN s[a] ELSE b[a - Len(s)]
    BY <1>2
  <2>3. Len(s) \in Nat /\ Len(b) \in Nat
    OBVIOUS
  <2> QED BY <1>2, <2>1, <2>2, <2>3
<1> QED BY <1>2, <1>3, <1>4 DEF InThree

(* The bytes that the sectors around n bytes are to hold.                  *)
Overlaid(p, D, o, fb, n, bytes) ==
  \A a \in 1 .. Len(p) : p[a] = IF a - o \in 1 .. n THEN bytes[a - o] ELSE D[fb + a]

LEMMA PaddedThere ==
  ASSUME TypeOK, NEW pos \in Nat, NEW n \in Nat \ {0}, NEW bytes \in [1 .. n -> Byte],
         NEW f \in Nat, NEW l \in Nat, NEW o \in 0 .. BlockSize - 1, NEW r \in 0 .. BlockSize - 1,
         Cover(pos, n, f, l, o, r), l <= Blocks
  PROVE  /\ Padded(pos, bytes) \in Seq(Byte)
         /\ Len(Padded(pos, bytes)) = l * BlockSize - f * BlockSize
         /\ Overlaid(Padded(pos, bytes), DeviceBytes, o, f * BlockSize, n, bytes)
<1>1. bytes \in Seq(Byte) /\ Len(bytes) = n
  OBVIOUS
<1>2. f \in Sector /\ l - 1 \in Sector /\ BlockSize \in Nat \ {0}
  <2>1. f < l
    BY DEF Cover
  <2> QED BY <2>1, Sizes DEF Sector
<1>3. /\ disk[f] \in Seq(Byte) /\ Len(disk[f]) = BlockSize
      /\ disk[l - 1] \in Seq(Byte) /\ Len(disk[l - 1]) = BlockSize
  BY <1>2 DEF TypeOK
<1> DEFINE lead == IF o = 0 THEN <<>> ELSE Slice(disk[f], 0, o)
           trail == IF r = 0 THEN <<>> ELSE Slice(disk[l - 1], r, BlockSize)
           D == DeviceBytes
<1>4. Padded(pos, bytes) = lead \o bytes \o trail
  <2>1. Padded(pos, bytes) = (IF o = 0 THEN <<>> ELSE Slice(disk[f], 0, o)) \o bytes
           \o (IF r = 0 THEN <<>> ELSE Slice(disk[(n + pos) \div BlockSize], r, BlockSize))
    BY <1>1 DEF Padded, Cover
  <2>2. r # 0 => (n + pos) \div BlockSize = l - 1
    BY DEF Cover
  <2> QED BY <2>1, <2>2
<1>5. /\ lead \in Seq(Byte) /\ Len(lead) = o
      /\ \A i \in 1 .. o : lead[i] = disk[f][i]
  <2>1. CASE o = 0
    BY <2>1
  <2>2. CASE o # 0
    <3>1. 0 \in Nat /\ o \in Nat /\ 0 <= o /\ o <= Len(disk[f]) /\ o - 0 = o
      BY <1>2, <1>3
    <3>2. /\ Slice(disk[f], 0, o) \in Seq(Byte) /\ Len(Slice(disk[f], 0, o)) = o - 0
          /\ \A i \in 1 .. o - 0 : Slice(disk[f], 0, o)[i] = disk[f][0 + i]
      <4>1. IsSlice(Slice(disk[f], 0, o), disk[f], 0, o, Byte)
        BY <3>1, <1>3, SliceWithin
      <4> QED BY <4>1 DEF IsSlice
    <3>3. \A i \in 1 .. o : 0 + i = i
      OBVIOUS
    <3> QED BY <2>2, <3>1, <3>2, <3>3
  <2> QED BY <2>1, <2>2
<1>6. /\ trail \in Seq(Byte) /\ Len(trail) = IF r = 0 THEN 0 ELSE BlockSize - r
      /\ \A i \in 1 .. Len(trail) : trail[i] = disk[l - 1][r + i]
  <2>1. CASE r = 0
    BY <2>1
  <2>2. CASE r # 0
    <3>1. r \in Nat /\ BlockSize \in Nat /\ r <= BlockSize /\ BlockSize <= Len(disk[l - 1])
      BY <1>2, <1>3
    <3>2. /\ Slice(disk[l - 1], r, BlockSize) \in Seq(Byte) /\ Len(Slice(disk[l - 1], r, BlockSize)) = BlockSize - r
          /\ \A i \in 1 .. BlockSize - r : Slice(disk[l - 1], r, BlockSize)[i] = disk[l - 1][r + i]
      <4>1. IsSlice(Slice(disk[l - 1], r, BlockSize), disk[l - 1], r, BlockSize, Byte)
        BY <3>1, <1>3, SliceWithin
      <4> QED BY <4>1 DEF IsSlice
    <3> QED BY <2>2, <3>2
  <2> QED BY <2>1, <2>2
<1>7. Holds(D, disk, 0, Blocks)
  BY DeviceHolds
<1> HIDE DEF lead, trail, D
<1>8. PICK p \in Seq(Byte) : p = lead \o bytes \o trail /\ InThree(p, lead, bytes, trail, Byte)
  <2>1. InThree(lead \o bytes \o trail, lead, bytes, trail, Byte)
    BY <1>1, <1>5, <1>6, ThreeParts
  <2> QED BY <2>1 DEF InThree
<1>9. PICK fb \in Nat, lb \in Nat : fb = f * BlockSize /\ lb = l * BlockSize
  BY DEF Cover
<1>10. /\ pos = fb + o
       /\ r = 0 => lb = pos + n
       /\ r # 0 => lb = pos + n + (BlockSize - r)
  BY <1>9 DEF Cover
<1>11. Len(p) = o + n + Len(trail) /\ Len(p) = lb - fb
  <2>1. Len(p) = o + n + Len(trail)
    BY <1>1, <1>5, <1>6, <1>8 DEF InThree
  <2>2. PICK m \in Nat : m = Len(trail)
    BY <1>6
  <2>3. lb = pos + n + m
    <3>1. CASE r = 0
      <4>1. m = 0
        BY <3>1, <2>2, <1>6
      <4> QED BY <4>1, <3>1, <1>10
    <3>2. CASE r # 0
      <4>1. m = BlockSize - r
        BY <3>2, <2>2, <1>6
      <4> QED BY <4>1, <3>2, <1>10
    <3> QED BY <3>1, <3>2
  <2>4. o + n + m = lb - fb
    BY <2>3, <1>2, <1>10
  <2> QED BY <2>1, <2>2, <2>4
<1>12. ASSUME NEW a \in 1 .. Len(p)
       PROVE  p[a] = IF a - o \in 1 .. n THEN bytes[a - o] ELSE D[fb + a]
  <2>1. p[a] = IF a <= o THEN lead[a] ELSE IF a <= o + n THEN bytes[a - o] ELSE trail[a - (o + n)]
    BY <1>1, <1>5, <1>6, <1>8, <1>11 DEF InThree
  <2>2. CASE a <= o
    <3>1. a \in 1 .. BlockSize /\ a \in 1 .. o /\ a - o \notin 1 .. n
      BY <1>2, <2>2
    <3>2. D[fb + a] = disk[f][a]
      <4>1. f \in 0 .. Blocks - 1 /\ 0 + f = f
        BY <1>2 DEF Sector
      <4> QED BY <4>1, <3>1, <1>7, <1>9 DEF Holds
    <3> QED BY <2>1, <2>2, <3>1, <3>2, <1>5
  <2>3. CASE o < a /\ a <= o + n
    BY <2>1, <2>3
  <2>4. CASE o + n < a
    <3>1. PICK j \in 1 .. Len(trail) : j = a - (o + n)
      BY <2>4, <1>6, <1>11
    <3>2. r # 0 /\ a - o \notin 1 .. n /\ a = o + n + j
      <4>1. r # 0
        <5>1. Len(trail) # 0
          BY <3>1
        <5> QED BY <5>1, <1>6
      <4>2. a \in Int /\ o \in Int /\ n \in Int /\ j \in Int
        BY <1>2
      <4>3. a - o \notin 1 .. n
        BY <2>4, <4>2
      <4>4. a = o + n + j
        BY <3>1, <4>2
      <4> QED BY <4>1, <4>3, <4>4
    <3>3. p[a] = disk[l - 1][r + j]
      <4>1. p[a] = trail[j]
        BY <2>1, <2>4, <3>1
      <4> QED BY <4>1, <3>1, <1>6
    <3>4. r + j \in 1 .. BlockSize
      <4>1. j \in 1 .. BlockSize - r
        BY <3>1, <3>2, <1>6
      <4> QED BY <4>1, <1>2
    <3>5. D[(l - 1) * BlockSize + (r + j)] = disk[l - 1][r + j]
      <4>1. l - 1 \in 0 .. Blocks - 1 /\ 0 + (l - 1) = l - 1
        BY <1>2 DEF Sector
      <4> QED BY <4>1, <3>4, <1>7 DEF Holds
    <3>6. (l - 1) * BlockSize = lb - BlockSize
      BY <1>2, <1>9
    <3>7. (l - 1) * BlockSize + (r + j) = fb + a
      BY <3>2, <3>6, <1>2, <1>10
    <3> QED BY <3>2, <3>3, <3>5, <3>7
  <2> QED BY <2>2, <2>3, <2>4
<1> QED BY <1>4, <1>8, <1>9, <1>11, <1>12 DEF Overlaid, D

(* Put, where the sequence does not grow.                                  *)
IsPut(t, s, pos, d, K) ==
  /\ t \in Seq(Byte) /\ Len(t) = Len(s)
  /\ \A a \in 1 .. Len(s) : t[a] = IF a - pos \in K THEN d[a - pos] ELSE s[a]

LEMMA PutWithin ==
  ASSUME NEW s \in Seq(Byte), NEW pos \in Nat, NEW n \in Nat, NEW d \in [1 .. n -> Byte],
         NEW K \in SUBSET (1 .. n), \A k \in K : pos + k <= Len(s)
  PROVE  IsPut(Bytes!Put(s, pos, d, K), s, pos, d, K)
<1>1. ~\E k \in K : pos + k > Len(s)
  <2> SUFFICES ASSUME NEW k \in K, pos + k > Len(s) PROVE FALSE
    OBVIOUS
  <2>1. k \in Nat /\ pos + k <= Len(s)
    OBVIOUS
  <2> QED BY <2>1
<1>2. Bytes!Put(s, pos, d, K) =
        [i \in 1 .. Len(s) |-> IF i - pos \in K THEN d[i - pos] ELSE IF i <= Len(s) THEN s[i] ELSE Zero]
  BY <1>1 DEF Bytes!Put
<1> DEFINE t == [i \in 1 .. Len(s) |-> IF i - pos \in K THEN d[i - pos] ELSE IF i <= Len(s) THEN s[i] ELSE Zero]
<1>3. ASSUME NEW i \in 1 .. Len(s)
      PROVE  t[i] = (IF i - pos \in K THEN d[i - pos] ELSE s[i]) /\ t[i] \in Byte
  <2>1. i - pos \in K => d[i - pos] \in Byte
    OBVIOUS
  <2> QED BY <2>1
<1>4. t \in Seq(Byte) /\ Len(t) = Len(s)
  <2>1. t \in [1 .. Len(s) -> Byte] /\ Len(s) \in Nat
    BY <1>3
  <2> QED BY <2>1
<1> QED BY <1>2, <1>3, <1>4 DEF IsPut

LEMMA HeldOnce ==
  ASSUME NEW x, NEW y, NEW d, NEW k \in Nat, Holds(x, d, 0, k),
         y \in Seq(Byte), Len(y) = k * BlockSize,
         \A i \in 0 .. k - 1, j \in 1 .. BlockSize : y[i * BlockSize + j] = d[i][j]
  PROVE  x = y
<1>1. ASSUME NEW a \in 1 .. k * BlockSize
      PROVE  x[a] = y[a]
  <2>1. PICK i \in 0 .. k - 1, j \in 1 .. BlockSize : a = i * BlockSize + j
    BY PositionOf, Sizes, Zenon
  <2>2. 0 + i = i
    OBVIOUS
  <2> QED BY <2>1, <2>2 DEF Holds
<1> QED BY <1>1, SameSequence DEF Holds

(* One sector of what a write writes.                                      *)
Carries(t, s, pos, n, bytes, D) ==
  /\ t \in [1 .. BlockSize -> Byte]
  /\ \A j \in 1 .. BlockSize :
       t[j] = IF (s * BlockSize + j) - pos \in 1 .. n THEN bytes[(s * BlockSize + j) - pos] ELSE D[s * BlockSize + j]

LEMMA SectorWritten ==
  ASSUME NEW p \in Seq(Byte), NEW D, NEW f \in Nat, NEW l \in Nat, NEW o \in Nat, NEW n \in Nat, NEW bytes,
         Len(p) = l * BlockSize - f * BlockSize, Overlaid(p, D, o, f * BlockSize, n, bytes),
         NEW s \in f .. l - 1,
         NEW t, t = Slice(p, (s - f) * BlockSize, (s - f + 1) * BlockSize)
  PROVE  Carries(t, s, f * BlockSize + o, n, bytes, D)
<1>1. BlockSize \in Nat \ {0} /\ s - f \in Nat /\ l - f \in Nat /\ s - f < l - f
  BY Sizes
<1>2. PICK fb \in Nat, lb \in Nat, sb \in Nat : fb = f * BlockSize /\ lb = l * BlockSize /\ sb = s * BlockSize
  BY <1>1
<1>3. PICK a \in Nat, b \in Nat : /\ a = (s - f) * BlockSize /\ b = (s - f + 1) * BlockSize
                                 /\ a = sb - fb /\ b = a + BlockSize
  <2>1. (s - f) * BlockSize \in Nat /\ (s - f + 1) * BlockSize = (s - f) * BlockSize + BlockSize
    BY <1>1
  <2>2. (s - f) * BlockSize = s * BlockSize - f * BlockSize
    BY <1>1
  <2> QED BY <1>1, <1>2, <2>1, <2>2
<1>4. b <= Len(p)
  <2>1. (s - f) * BlockSize + BlockSize <= (l - f) * BlockSize
    BY <1>1, Below
  <2>2. (l - f) * BlockSize = l * BlockSize - f * BlockSize
    BY <1>1
  <2> QED BY <1>1, <1>2, <1>3, <2>1, <2>2
<1>5. IsSlice(t, p, a, b, Byte)
  BY <1>1, <1>3, <1>4, SliceWithin
<1>6. t \in Seq(Byte) /\ Len(t) = BlockSize /\ \A j \in 1 .. BlockSize : t[j] = p[a + j]
  BY <1>1, <1>3, <1>5 DEF IsSlice
<1>7. ASSUME NEW j \in 1 .. BlockSize
      PROVE  t[j] = IF (sb + j) - (fb + o) \in 1 .. n THEN bytes[(sb + j) - (fb + o)] ELSE D[sb + j]
  <2>1. a + j \in 1 .. Len(p) /\ (a + j) - o = (sb + j) - (fb + o) /\ fb + (a + j) = sb + j
    BY <1>1, <1>3, <1>4
  <2>2. Overlaid(p, D, o, fb, n, bytes)
    BY <1>2
  <2>3. PICK k \in 1 .. Len(p) : k = a + j
    BY <2>1
  <2>4. p[k] = IF k - o \in 1 .. n THEN bytes[k - o] ELSE D[fb + k]
    BY <2>2, <2>3 DEF Overlaid
  <2>5. t[j] = p[k]
    BY <1>6, <2>3
  <2>6. k - o = (sb + j) - (fb + o) /\ fb + k = sb + j
    BY <2>1, <2>3
  <2> QED BY <2>4, <2>5, <2>6, Zenon
<1>8. t \in [1 .. BlockSize -> Byte]
  BY <1>6
<1>9. sb = s * BlockSize /\ fb = f * BlockSize
  BY <1>2
<1> HIDE <1>2
<1> QED BY <1>7, <1>8, <1>9, Zenon DEF Carries

(* A write, of all its sectors or of some.                                 *)
WritesPut(pos, n, S, e, d) ==
  /\ e \in [Sector -> [1 .. BlockSize -> Byte]]
  /\ \E K \in SUBSET (1 .. n) :
       /\ S = FirstBlock(pos) .. LastBlock(pos, n) - 1 => K = 1 .. n
       /\ \A x : Holds(x, e, 0, Blocks) => x = Bytes!Put(DeviceBytes, pos, d, K)

LEMMA WriteIsPut ==
  ASSUME TypeOK, NEW pos \in Nat, NEW n \in Nat \ {0}, NEW bytes \in [1 .. n -> Byte], ReadFits(pos, n),
         NEW S \in SUBSET (FirstBlock(pos) .. LastBlock(pos, n) - 1),
         NEW e, e = Written(pos, Padded(pos, bytes), S),
         NEW m \in Nat, n <= m, NEW d \in [1 .. m -> Byte], \A k \in 1 .. n : d[k] = bytes[k]
  PROVE  WritesPut(pos, n, S, e, d)
<1>1. PICK f \in Nat, l \in Nat, o \in 0 .. BlockSize - 1, r \in 0 .. BlockSize - 1 : Cover(pos, n, f, l, o, r)
  BY Covered
<1>2. f = FirstBlock(pos) /\ l = LastBlock(pos, n) /\ f < l /\ pos = f * BlockSize + o /\ l <= Blocks
  BY <1>1, FitsOnDisk DEF Cover
<1> DEFINE p == Padded(pos, bytes)
           D == DeviceBytes
<1>3. /\ p \in Seq(Byte) /\ Len(p) = l * BlockSize - f * BlockSize
      /\ Overlaid(p, D, o, f * BlockSize, n, bytes)
  BY <1>1, <1>2, PaddedThere
<1>4. Holds(D, disk, 0, Blocks)
  BY DeviceHolds
<1>5. e = [s \in Sector |-> IF s \in S THEN Slice(p, (s - f) * BlockSize, (s - f + 1) * BlockSize) ELSE disk[s]]
  BY <1>2 DEF Written
<1> HIDE DEF p, D
<1>6. ASSUME NEW s \in S
      PROVE  /\ e[s] \in [1 .. BlockSize -> Byte]
             /\ \A j \in 1 .. BlockSize :
                  e[s][j] = IF (s * BlockSize + j) - pos \in 1 .. n THEN bytes[(s * BlockSize + j) - pos] ELSE D[s * BlockSize + j]
  <2>1. s \in f .. l - 1 /\ s \in Sector /\ o \in Nat /\ n \in Nat
    BY <1>2, Sizes DEF Sector
  <2>2. e[s] = Slice(p, (s - f) * BlockSize, (s - f + 1) * BlockSize)
    BY <1>5, <2>1
  <2>3. Carries(e[s], s, f * BlockSize + o, n, bytes, D)
    BY <1>3, <2>1, <2>2, SectorWritten
  <2> QED BY <2>3, <1>2 DEF Carries
<1>7. e \in [Sector -> [1 .. BlockSize -> Byte]]
  <2>1. ASSUME NEW s \in Sector
        PROVE  e[s] \in [1 .. BlockSize -> Byte]
    <3>1. s \notin S => e[s] = disk[s]
      BY <1>5
    <3> QED BY <3>1, <1>6 DEF TypeOK
  <2> QED BY <2>1, <1>5
<1> DEFINE K == {k \in 1 .. n : \E s \in S, j \in 1 .. BlockSize : pos + k = s * BlockSize + j}
<1>8. S = FirstBlock(pos) .. LastBlock(pos, n) - 1 => K = 1 .. n
  <2> SUFFICES ASSUME S = f .. l - 1, NEW k \in 1 .. n
               PROVE  \E s \in S, j \in 1 .. BlockSize : pos + k = s * BlockSize + j
    BY <1>2
  <2>1. pos + k \in 1 .. l * BlockSize
    <3>1. pos + n <= l * BlockSize /\ l * BlockSize \in Nat
      BY <1>1 DEF Cover
    <3> QED BY <3>1
  <2>2. PICK s \in 0 .. l - 1, j \in 1 .. BlockSize : pos + k = s * BlockSize + j
    BY <2>1, Sizes, PositionOf, Zenon
  <2>3. ASSUME s < f PROVE FALSE
    <3>1. s * BlockSize + BlockSize <= f * BlockSize
      BY <2>3, Sizes, Below
    <3>2. PICK sb \in Int, fb \in Int : sb = s * BlockSize /\ fb = f * BlockSize
      BY Sizes
    <3>3. pos + k = sb + j /\ pos = fb + o /\ sb + BlockSize <= fb /\ BlockSize \in Nat
      BY <3>1, <3>2, <2>2, <1>2, Sizes
    <3> QED BY <3>2, <3>3
  <2>4. s \in f .. l - 1
    BY <2>3
  <2> QED BY <2>2, <2>4
<1>9. ASSUME NEW k \in K
      PROVE  pos + k <= Len(D)
  <2>1. pos + n <= Len(D) /\ Len(D) \in Nat
    BY <1>4, FitsOnDisk, Sizes DEF D, Holds
  <2> QED BY <2>1
<1>10. IsPut(Bytes!Put(D, pos, d, K), D, pos, d, K)
  <2>1. D \in Seq(Byte) /\ K \in SUBSET (1 .. m)
    BY <1>4 DEF Holds
  <2> QED BY <1>9, <2>1, PutWithin
<1>11. ASSUME NEW i \in 0 .. Blocks - 1, NEW j \in 1 .. BlockSize
       PROVE  Bytes!Put(D, pos, d, K)[i * BlockSize + j] = e[i][j]
  <2>1. D[i * BlockSize + j] = disk[i][j] /\ i \in Sector
    <3>1. 0 + i = i
      OBVIOUS
    <3> QED BY <3>1, <1>4 DEF Holds, Sector
  <2>2. PICK a \in 1 .. Len(D) : a = i * BlockSize + j
    BY <1>4, Sizes, PositionIn DEF Holds
  <2>3. Bytes!Put(D, pos, d, K)[a] = IF a - pos \in K THEN d[a - pos] ELSE D[a]
    BY <1>10 DEF IsPut
  <2>4. CASE i \in S
    <3>1. e[i][j] = IF a - pos \in 1 .. n THEN bytes[a - pos] ELSE D[a]
      <4>1. e[i][j] = IF (i * BlockSize + j) - pos \in 1 .. n THEN bytes[(i * BlockSize + j) - pos] ELSE D[i * BlockSize + j]
        BY <1>6, <2>4
      <4> QED BY <4>1, <2>2, Zenon
    <3>2. a - pos \in 1 .. n => a - pos \in K
      <4>1. pos + (a - pos) = i * BlockSize + j
        BY <2>2
      <4> QED BY <4>1, <2>4
    <3> QED BY <3>1, <3>2, <2>2, <2>3
  <2>5. CASE i \notin S
    <3>1. a - pos \notin K
      <4> SUFFICES ASSUME a - pos \in K PROVE FALSE
        OBVIOUS
      <4>1. PICK s \in S, k \in 1 .. BlockSize : pos + (a - pos) = s * BlockSize + k
        OBVIOUS
      <4>2. i * BlockSize + j = s * BlockSize + k /\ s \in Int
        <5>1. pos + (a - pos) = a
          BY <2>2
        <5> QED BY <4>1, <5>1, <2>2
      <4>3. i = s
        BY <4>2, Sizes, OnePosition
      <4> QED BY <4>3, <2>5
    <3>2. e[i] = disk[i]
      BY <1>5, <2>1, <2>5
    <3> QED BY <3>1, <3>2, <2>1, <2>2, <2>3
  <2> QED BY <2>4, <2>5
<1>12. ASSUME NEW x, Holds(x, e, 0, Blocks)
       PROVE  x = Bytes!Put(D, pos, d, K)
  <2>1. Bytes!Put(D, pos, d, K) \in Seq(Byte) /\ Len(Bytes!Put(D, pos, d, K)) = Blocks * BlockSize
    BY <1>4, <1>10 DEF IsPut, Holds
  <2> HIDE DEF K
  <2> QED BY <2>1, <1>11, <1>12, Sizes, HeldOnce
<1>13. K \in SUBSET (1 .. n)
  OBVIOUS
<1> HIDE DEF K
<1> QED BY <1>7, <1>8, <1>12, <1>13 DEF D, WritesPut

(* What ramfs makes of its data.                                           *)
LEMMA RamIsPut ==
  ASSUME NEW s \in Seq(Byte), NEW pos \in Nat, NEW n \in Nat \ {0}, NEW b \in [1 .. n -> Byte],
         NEW t, t = Slice(s, 0, pos) \o Zeros(pos - Len(s)) \o b \o Slice(s, pos + n, Len(s))
  PROVE  t \in Seq(Byte) /\ t = Bytes!Put(s, pos, b, 1 .. n)
<1>0. Zero \in Byte /\ b \in Seq(Byte) /\ Len(b) = n /\ Len(s) \in Nat
  BY FilesAssumption
<1> DEFINE low == Slice(s, 0, pos) \o Zeros(pos - Len(s))
           high == Slice(s, pos + n, Len(s))
           end == IF pos + n > Len(s) THEN pos + n ELSE Len(s)
<1>1. /\ low \in Seq(Byte) /\ Len(low) = pos
      /\ \A i \in 1 .. pos : low[i] = IF i <= Len(s) THEN s[i] ELSE Zero
  <2>1. CASE pos <= Len(s)
    <3>1. IsSlice(Slice(s, 0, pos), s, 0, pos, Byte)
      BY <1>0, <2>1, SliceWithin
    <3>2. Zeros(pos - Len(s)) = <<>>
      <4>1. 1 .. pos - Len(s) = {}
        BY <1>0, <2>1
      <4>2. Zeros(pos - Len(s)) = [i \in {} |-> Zero]
        BY <4>1, Zenon DEF Zeros
      <4> QED BY <4>2
    <3>3. low = Slice(s, 0, pos)
      BY <3>1, <3>2 DEF IsSlice
    <3>4. pos - 0 = pos /\ \A i \in 1 .. pos : 0 + i = i /\ i <= Len(s)
      BY <1>0, <2>1
    <3> HIDE DEF low
    <3> QED BY <3>1, <3>3, <3>4 DEF IsSlice
  <2>2. CASE Len(s) < pos
    <3>1. Slice(s, 0, pos) = s
      <4>1. Slice(s, 0, pos) = SubSeq(s, 1, Len(s))
        BY <1>0, <2>2 DEF Slice
      <4> QED BY <4>1
    <3>2. PICK k \in Nat : k = pos - Len(s)
      <4>1. pos - Len(s) \in Nat
        BY <1>0, <2>2
      <4> QED BY <4>1
    <3>3. Zeros(k) \in Seq(Byte) /\ Len(Zeros(k)) = k /\ \A i \in 1 .. k : Zeros(k)[i] = Zero
      BY <1>0 DEF Zeros
    <3>4. low = s \o Zeros(k)
      BY <3>1, <3>2
    <3> HIDE DEF low
    <3>5. low \in Seq(Byte) /\ Len(low) = pos
      BY <3>2, <3>3, <3>4, <1>0
    <3>6. ASSUME NEW i \in 1 .. pos
          PROVE  low[i] = IF i <= Len(s) THEN s[i] ELSE Zero
      <4>1. low[i] = IF i <= Len(s) THEN s[i] ELSE Zeros(k)[i - Len(s)]
        BY <3>2, <3>3, <3>4, <1>0
      <4>2. ~(i <= Len(s)) => i - Len(s) \in 1 .. k
        BY <3>2, <1>0
      <4> QED BY <4>1, <4>2, <3>3
    <3> QED BY <3>5, <3>6
  <2> QED BY <2>1, <2>2, <1>0
<1>2. /\ high \in Seq(Byte) /\ pos + n + Len(high) = end
      /\ \A i \in 1 .. Len(high) : high[i] = s[pos + n + i]
  <2>1. CASE pos + n <= Len(s)
    <3>1. IsSlice(high, s, pos + n, Len(s), Byte)
      BY <1>0, <2>1, SliceWithin
    <3> HIDE DEF high
    <3> QED BY <3>1, <2>1, <1>0 DEF IsSlice
  <2>2. CASE pos + n > Len(s)
    <3>1. high = SubSeq(s, pos + n + 1, Len(s))
      BY <1>0 DEF Slice
    <3>2. SubSeq(s, pos + n + 1, Len(s)) = <<>>
      BY <1>0, <2>2
    <3>3. high = <<>>
      BY <3>1, <3>2
    <3> HIDE DEF high
    <3>4. high \in Seq(Byte) /\ Len(high) = 0 /\ 1 .. Len(high) = {}
      BY <3>3
    <3>5. pos + n + 0 = end
      BY <2>2
    <3> QED BY <3>4, <3>5
  <2> QED BY <2>1, <2>2, <1>0
<1>3. t = low \o b \o high
  OBVIOUS
<1> HIDE DEF low, high
<1>4. InThree(t, low, b, high, Byte)
  BY <1>0, <1>1, <1>2, <1>3, ThreeParts
<1>5. t \in Seq(Byte) /\ Len(t) = end
  BY <1>0, <1>1, <1>2, <1>4 DEF InThree
<1>6. ASSUME NEW i \in 1 .. end
      PROVE  t[i] = IF i - pos \in 1 .. n THEN b[i - pos] ELSE IF i <= Len(s) THEN s[i] ELSE Zero
  <2>1. t[i] = IF i <= pos THEN low[i] ELSE IF i <= pos + n THEN b[i - pos] ELSE high[i - (pos + n)]
    BY <1>0, <1>1, <1>2, <1>4 DEF InThree
  <2>2. CASE i <= pos
    <3>1. i \in 1 .. pos /\ i - pos \notin 1 .. n
      BY <2>2, <1>0
    <3> QED BY <3>1, <2>1, <2>2, <1>1
  <2>3. CASE pos < i /\ i <= pos + n
    <3>1. i - pos \in 1 .. n /\ ~(i <= pos)
      BY <2>3, <1>0
    <3> QED BY <3>1, <2>1, <2>3
  <2>4. CASE pos + n < i
    <3>1. PICK k \in 1 .. Len(high) : k = i - (pos + n)
      BY <2>4, <1>0, <1>2
    <3>2. i - pos \notin 1 .. n /\ i <= Len(s) /\ ~(i <= pos) /\ ~(i <= pos + n) /\ pos + n + k = i
      BY <2>4, <3>1, <1>0
    <3>3. t[i] = high[k] /\ high[k] = s[i]
      BY <3>1, <3>2, <2>1, <1>2
    <3> QED BY <3>2, <3>3
  <2>5. i <= pos \/ (pos < i /\ i <= pos + n) \/ pos + n < i
    <3>1. i \in Int /\ pos \in Int /\ pos + n \in Int
      BY <1>0
    <3> QED BY <3>1
  <2> QED BY <2>2, <2>3, <2>4, <2>5
<1>7. Bytes!Put(s, pos, b, 1 .. n) =
        [i \in 1 .. end |-> IF i - pos \in 1 .. n THEN b[i - pos] ELSE IF i <= Len(s) THEN s[i] ELSE Zero]
  <2>1. (\E k \in 1 .. n : pos + k > Len(s)) <=> pos + n > Len(s)
    BY <1>0
  <2>2. (CHOOSE k \in 1 .. n : \A j \in 1 .. n : j <= k) = n
    <3>1. n \in 1 .. n /\ \A j \in 1 .. n : j <= n
      OBVIOUS
    <3>2. ASSUME NEW k \in 1 .. n, \A j \in 1 .. n : j <= k
          PROVE  k = n
      <4>1. n <= k
        BY <3>1, <3>2, Zenon
      <4>2. k \in Int /\ k <= n
        BY <3>2
      <4> QED BY <4>1, <4>2
    <3> QED BY <3>1, <3>2
  <2> QED BY <2>1, <2>2 DEF Bytes!Put
<1>8. t = [i \in 1 .. end |-> t[i]]
  <2>1. t = [i \in 1 .. Len(t) |-> t[i]]
    BY <1>5
  <2> QED BY <1>5, <2>1
<1> HIDE DEF end
<1> QED BY <1>5, <1>6, <1>7, <1>8

-----------------------------------------------------------------------------
(* Descriptors as positions                                                *)

Slots == [node : Nodes, pos : Nat, mode : Modes] \cup {None}

LEMMA PositionAt ==
  ASSUME TypeOK, NEW fd \in Fds, File(fd) # None
  PROVE  /\ Positions[fd] = [node |-> File(fd).node, pos |-> File(fd).pos] /\ Positions[fd] # None
         /\ File(fd).node \in Nodes /\ File(fd).pos \in Nat
<1>1. File(fd).node \in Nodes /\ File(fd).pos \in Nat
  BY OpenFile
<1>2. Positions[fd] = [node |-> File(fd).node, pos |-> File(fd).pos]
  BY DEF Positions
<1> QED BY <1>1, <1>2, FilesAssumption

LEMMA SlotSet ==
  ASSUME TypeOK, NEW fd \in Fds, NEW v \in Slots, memfs_fd' = [memfs_fd EXCEPT ![fd] = v]
  PROVE  /\ memfs_fd' \in [Fds -> Slots]
         /\ Positions' = [Positions EXCEPT ![fd] = IF v = None THEN None ELSE [node |-> v.node, pos |-> v.pos]]
<1>1. memfs_fd \in [Fds -> Slots]
  BY DEF TypeOK, Slots
<1> DEFINE P(g) == IF g = None THEN None ELSE [node |-> g.node, pos |-> g.pos]
<1>2. \A g \in Fds : memfs_fd'[g] = IF g = fd THEN v ELSE memfs_fd[g]
  BY <1>1
<1>3. Positions = [g \in Fds |-> P(memfs_fd[g])]
  BY DEF Positions, File
<1>4. Positions' = [g \in Fds |-> P(memfs_fd'[g])]
  BY DEF Positions, File
<1> HIDE DEF P
<1>5. Positions' = [Positions EXCEPT ![fd] = P(v)]
  BY <1>2, <1>3, <1>4
<1>6. memfs_fd' \in [Fds -> Slots]
  BY <1>1
<1> QED BY <1>5, <1>6 DEF P

LEMMA SlotMoved ==
  ASSUME TypeOK, NEW fd \in Fds, File(fd) # None, NEW q \in Nat, memfs_fd' = [memfs_fd EXCEPT ![fd].pos = q]
  PROVE  /\ memfs_fd' \in [Fds -> Slots]
         /\ Positions' = [Positions EXCEPT ![fd].pos = q]
<1>1. memfs_fd[fd] \in [node : Nodes, pos : Nat, mode : Modes]
  BY OpenFile DEF File
<1> DEFINE v == [memfs_fd[fd] EXCEPT !.pos = q]
<1>2. v \in [node : Nodes, pos : Nat, mode : Modes] /\ v.node = File(fd).node /\ v.pos = q
  BY <1>1 DEF File
<1>3. v \in Slots /\ v # None
  BY <1>2, FilesAssumption DEF Slots
<1>4. memfs_fd' = [memfs_fd EXCEPT ![fd] = v]
  OBVIOUS
<1>5. Positions[fd] = [node |-> File(fd).node, pos |-> File(fd).pos]
  BY PositionAt
<1>6. [Positions[fd] EXCEPT !.pos = q] = [node |-> File(fd).node, pos |-> q]
  BY <1>5
<1> HIDE DEF v
<1>7. memfs_fd' \in [Fds -> Slots] /\ Positions' = [Positions EXCEPT ![fd] = [node |-> v.node, pos |-> v.pos]]
  BY <1>3, <1>4, SlotSet
<1> QED BY <1>2, <1>6, <1>7

(* What a read may move a descriptor by.                                   *)
LEMMA ReplyLength ==
  ASSUME TypeOK, NEW fd \in Fds, NEW n \in 1 .. MaxLen, Readable(fd, n)
  PROVE  /\ Len(Reply(fd, n)) \in 0 .. n
         /\ Len(Reply(fd, n)) > 0 => File(fd).pos + Len(Reply(fd, n)) <= Len(FileBytes[File(fd).node])
<1>1. File(fd) # None /\ File(fd).pos \in Nat /\ File(fd).node \in Nodes /\ n \in Nat \ {0}
  <2>1. File(fd) # None
    BY DEF Readable
  <2>2. n \in Nat \ {0}
    BY FilesAssumption
  <2> QED BY <2>1, <2>2, PositionAt
<1>2. PICK pos \in Nat : pos = File(fd).pos
  BY <1>1
<1>3. CASE File(fd).node = "device"
  <2>1. ReadFits(pos, n) /\ Reply(fd, n) = ReadBytes(pos, n)
    BY <1>2, <1>3 DEF Readable, Reply
  <2>2. Len(Reply(fd, n)) = n /\ pos + n <= Len(DeviceBytes)
    BY <2>1, <1>1, ReadBytesThere, FitsOnDisk
  <2>3. FileBytes[File(fd).node] = DeviceBytes
    BY <1>3, <1>1 DEF FileBytes
  <2> QED BY <2>2, <2>3, <1>1, <1>2
<1>4. CASE File(fd).node # "device"
  <2>1. Reply(fd, n) = Slice(data, pos, pos + n)
    BY <1>2, <1>4 DEF Reply
  <2>2. FileBytes[File(fd).node] = data
    BY <1>4, <1>1 DEF FileBytes
  <2>3. data \in Seq(Byte) /\ Len(data) \in Nat
    BY DEF TypeOK
  <2>4. CASE pos + n <= Len(data)
    <3>1. IsSlice(Reply(fd, n), data, pos, pos + n, Byte)
      BY <2>1, <2>3, <2>4, <1>1, SliceWithin
    <3> QED BY <3>1, <2>2, <2>4, <1>1, <1>2 DEF IsSlice
  <2>5. CASE pos <= Len(data) /\ Len(data) < pos + n
    <3>1. Slice(data, pos, pos + n) = Slice(data, pos, Len(data))
      BY <2>3, <2>5, <1>1 DEF Slice
    <3>2. IsSlice(Reply(fd, n), data, pos, Len(data), Byte)
      BY <3>1, <2>1, <2>3, <2>5, SliceWithin
    <3>3. Len(Reply(fd, n)) = Len(data) - pos
      BY <3>2 DEF IsSlice
    <3> QED BY <3>3, <2>2, <2>3, <2>5, <1>1, <1>2
  <2>6. CASE Len(data) < pos
    <3>1. Reply(fd, n) = SubSeq(data, pos + 1, Len(data))
      BY <2>1, <2>3, <2>6, <1>1 DEF Slice
    <3>2. Reply(fd, n) = <<>>
      BY <3>1, <2>3, <2>6
    <3>3. Len(Reply(fd, n)) = 0
      BY <3>2
    <3> QED BY <3>3, <1>1
  <2> QED BY <2>3, <2>4, <2>5, <2>6, <1>1
<1> QED BY <1>3, <1>4

-----------------------------------------------------------------------------
(* The invariant                                                           *)

LEMMA TypeInit == Init => TypeOK
<1> SUFFICES ASSUME Init PROVE TypeOK
  OBVIOUS
<1>1. Zero \in Byte
  BY FilesAssumption
<1>2. disk \in [Sector -> [1 .. BlockSize -> Byte]]
  BY <1>1 DEF Init
<1>3. memfs_fd \in [Fds -> [node : Nodes, pos : Nat, mode : Modes] \cup {None}] /\ data \in Seq(Byte)
  BY DEF Init
<1> QED BY <1>2, <1>3 DEF TypeOK

LEMMA TruncatedType ==
  ASSUME TypeOK, NEW node \in Nodes, NEW truncate \in BOOLEAN, Truncated(node, truncate)
  PROVE  /\ data' \in Seq(Byte)
         /\ disk' = disk => FileBytes' \in {FileBytes, [FileBytes EXCEPT ![node] = <<>>]}
         /\ disk' = disk /\ FileBytes' # FileBytes => FileBytes' = [FileBytes EXCEPT ![node] = <<>>]
<1>1. data' = data \/ (data' = <<>> /\ node = "ram")
  BY DEF Truncated
<1>2. data \in Seq(Byte)
  BY DEF TypeOK
<1>3. disk' = disk => DeviceBytes' = DeviceBytes
  BY DEF DeviceBytes
<1>4. disk' = disk => FileBytes' = [m \in Nodes |-> IF m = "device" THEN DeviceBytes ELSE data']
  BY <1>3 DEF FileBytes
<1>5. FileBytes = [m \in Nodes |-> IF m = "device" THEN DeviceBytes ELSE data]
  BY DEF FileBytes
<1>6. disk' = disk /\ data' = data => FileBytes' = FileBytes
  BY <1>4, <1>5
<1>7. disk' = disk /\ data' = <<>> /\ node = "ram" => FileBytes' = [FileBytes EXCEPT ![node] = <<>>]
  BY <1>4, <1>5 DEF Nodes
<1>8. data' \in Seq(Byte)
  <2>1. <<>> \in Seq(Byte)
    OBVIOUS
  <2> QED BY <1>1, <1>2, <2>1, Zenon
<1>9. disk' = disk => FileBytes' = FileBytes \/ FileBytes' = [FileBytes EXCEPT ![node] = <<>>]
  BY <1>1, <1>6, <1>7
<1> QED BY <1>8, <1>9

(* What a call on the device writes.                                       *)
DevicePut(fd, n, S, d) ==
  /\ disk' \in [Sector -> [1 .. BlockSize -> Byte]]
  /\ \E K \in SUBSET (1 .. n) :
       /\ S = FirstBlock(File(fd).pos) .. LastBlock(File(fd).pos, n) - 1 => K = 1 .. n
       /\ FileBytes' = [FileBytes EXCEPT ![File(fd).node] = Bytes!Put(@, File(fd).pos, d, K)]

LEMMA DeviceWritten ==
  ASSUME TypeOK, NEW fd \in Fds, In(fd, "device"), NEW n \in 1 .. MaxLen, NEW bytes \in [1 .. n -> Byte],
         ReadFits(File(fd).pos, Len(bytes)),
         NEW S \in SUBSET (FirstBlock(File(fd).pos) .. LastBlock(File(fd).pos, Len(bytes)) - 1),
         disk' = Written(File(fd).pos, Padded(File(fd).pos, bytes), S), data' = data,
         NEW m \in Nat, n <= m, NEW d \in [1 .. m -> Byte], \A k \in 1 .. n : d[k] = bytes[k]
  PROVE  DevicePut(fd, n, S, d)
<1>1. n \in Nat \ {0} /\ Len(bytes) = n
  BY FilesAssumption
<1>2. File(fd) # None /\ File(fd).node = "device"
  BY DEF In
<1>3. PICK pos \in Nat : pos = File(fd).pos
  BY <1>2, PositionAt
<1>4. ReadFits(pos, n) /\ S \in SUBSET (FirstBlock(pos) .. LastBlock(pos, n) - 1)
  BY <1>1, <1>3
<1>5. PICK e : e = disk' /\ e = Written(pos, Padded(pos, bytes), S)
  BY <1>3
<1>6. WritesPut(pos, n, S, e, d)
  BY <1>1, <1>4, <1>5, WriteIsPut
<1>7. PICK K \in SUBSET (1 .. n) :
        /\ S = FirstBlock(pos) .. LastBlock(pos, n) - 1 => K = 1 .. n
        /\ \A x : Holds(x, e, 0, Blocks) => x = Bytes!Put(DeviceBytes, pos, d, K)
  BY <1>6 DEF WritesPut
<1>8. Holds(FlattenSeq([i \in 1 .. Blocks |-> e[i - 1]]), e, 0, Blocks)
  BY <1>6, DiskHolds, Zenon DEF WritesPut
<1>9. DeviceBytes' = Bytes!Put(DeviceBytes, pos, d, K)
  <2>1. DeviceBytes' = FlattenSeq([i \in 1 .. Blocks |-> e[i - 1]])
    BY <1>5, Zenon DEF DeviceBytes
  <2> QED BY <1>7, <1>8, <2>1, Zenon
<1>10. FileBytes' = [FileBytes EXCEPT !["device"] = DeviceBytes']
  BY DEF FileBytes, Nodes
<1>11. FileBytes["device"] = DeviceBytes
  BY DEF FileBytes, Nodes
<1>12. FileBytes' = [FileBytes EXCEPT ![File(fd).node] = Bytes!Put(@, File(fd).pos, d, K)]
  BY <1>2, <1>3, <1>9, <1>10, <1>11
<1>13. disk' \in [Sector -> [1 .. BlockSize -> Byte]]
  BY <1>5, <1>6, Zenon DEF WritesPut
<1> QED BY <1>3, <1>7, <1>12, <1>13 DEF DevicePut

(* What a call on the file in memory writes.                               *)
LEMMA RamWritten ==
  ASSUME TypeOK, NEW fd \in Fds, NEW n \in 1 .. MaxLen, NEW bytes \in [1 .. n -> Byte], WriteRam(fd, bytes)
  PROVE  /\ data' \in Seq(Byte)
         /\ FileBytes' = [FileBytes EXCEPT ![File(fd).node] = Bytes!Put(@, File(fd).pos, bytes, 1 .. n)]
<1>1. n \in Nat \ {0} /\ Len(bytes) = n
  BY FilesAssumption
<1>2. File(fd) # None /\ File(fd).node = "ram" /\ disk' = disk
  BY DEF WriteRam, In
<1>3. PICK pos \in Nat : pos = File(fd).pos
  BY <1>2, PositionAt
<1>4. data' = Slice(data, 0, pos) \o Zeros(pos - Len(data)) \o bytes \o Slice(data, pos + n, Len(data))
  BY <1>1, <1>3 DEF WriteRam
<1>5. data \in Seq(Byte)
  BY DEF TypeOK
<1>6. data' \in Seq(Byte) /\ data' = Bytes!Put(data, pos, bytes, 1 .. n)
  BY <1>1, <1>4, <1>5, RamIsPut
<1>7. DeviceBytes' = DeviceBytes
  BY <1>2 DEF DeviceBytes
<1>8. FileBytes' = [FileBytes EXCEPT !["ram"] = data']
  BY <1>7 DEF FileBytes, Nodes
<1>9. FileBytes["ram"] = data
  BY DEF FileBytes, Nodes
<1> QED BY <1>2, <1>3, <1>6, <1>8, <1>9

(* Each call keeps the types and is a call of ByteFiles.                   *)
Correct == TypeOK' /\ [Bytes!Next]_(Bytes!vars)

LEMMA SameBytes == disk' = disk /\ data' = data => FileBytes' = FileBytes
BY Zenon DEF FileBytes, DeviceBytes

LEMMA TypesNext ==
  ASSUME TypeOK, memfs_fd' \in [Fds -> Slots], disk' \in [Sector -> [1 .. BlockSize -> Byte]], data' \in Seq(Byte)
  PROVE  TypeOK'
BY DEF TypeOK, Slots

LEMMA OpenStep ==
  ASSUME TypeOK, NEW node \in Nodes, NEW mode \in Modes, NEW truncate \in BOOLEAN, Open(node, mode, truncate)
  PROVE  Correct
<1>1. PICK fd \in Fds : /\ File(fd) = None
                        /\ memfs_fd' = [memfs_fd EXCEPT ![fd] = [node |-> node, pos |-> 0, mode |-> mode]]
  BY DEF Open
<1> DEFINE v == [node |-> node, pos |-> 0, mode |-> mode]
<1>2. v \in [node : Nodes, pos : Nat, mode : Modes] /\ v.node = node /\ v.pos = 0
  OBVIOUS
<1>3. v \in Slots /\ v # None
  BY <1>2, FilesAssumption DEF Slots
<1>4. memfs_fd' = [memfs_fd EXCEPT ![fd] = v]
  BY <1>1
<1> HIDE DEF v
<1>5. memfs_fd' \in [Fds -> Slots] /\ Positions' = [Positions EXCEPT ![fd] = [node |-> node, pos |-> 0]]
  BY <1>2, <1>3, <1>4, SlotSet
<1>6. disk' = disk /\ Truncated(node, truncate)
  BY DEF Open
<1>7. data' \in Seq(Byte) /\ FileBytes' \in {FileBytes, [FileBytes EXCEPT ![node] = <<>>]}
  BY <1>6, TruncatedType
<1>8. Positions[fd] = None
  BY <1>1 DEF Positions
<1>9. Bytes!Open(fd, node)
  BY <1>5, <1>7, <1>8 DEF Bytes!Open
<1>10. disk \in [Sector -> [1 .. BlockSize -> Byte]]
  BY DEF TypeOK
<1> QED BY <1>5, <1>6, <1>7, <1>9, <1>10, TypesNext DEF Correct, Bytes!Next

LEMMA OpenFullStep ==
  ASSUME TypeOK, NEW node \in Nodes, NEW truncate \in BOOLEAN, OpenFull(node, truncate)
  PROVE  Correct
<1>1. memfs_fd' = memfs_fd /\ disk' = disk /\ Truncated(node, truncate)
  BY DEF OpenFull
<1>2. data' \in Seq(Byte) /\ FileBytes' \in {FileBytes, [FileBytes EXCEPT ![node] = <<>>]}
  BY <1>1, TruncatedType
<1>3. Positions' = Positions
  BY <1>1 DEF Positions, File
<1>4. Bytes!OpenFails(node) \/ UNCHANGED <<FileBytes, Positions>>
  BY <1>2, <1>3 DEF Bytes!OpenFails
<1>5. TypeOK'
  BY <1>1, <1>2 DEF TypeOK
<1> QED BY <1>4, <1>5 DEF Correct, Bytes!Next, Bytes!vars

LEMMA CloseStep ==
  ASSUME TypeOK, NEW fd \in Fds, Close(fd)
  PROVE  Correct
<1>1. File(fd) # None /\ memfs_fd' = [memfs_fd EXCEPT ![fd] = None] /\ disk' = disk /\ data' = data
  BY DEF Close
<1>2. None \in Slots
  BY DEF Slots
<1>3. memfs_fd' \in [Fds -> Slots] /\ Positions' = [Positions EXCEPT ![fd] = None]
  BY <1>1, <1>2, SlotSet
<1>4. FileBytes' = FileBytes /\ Positions[fd] # None
  BY <1>1, SameBytes, PositionAt
<1>5. Bytes!Close(fd)
  BY <1>3, <1>4 DEF Bytes!Close
<1>6. TypeOK'
  BY <1>1, <1>3 DEF TypeOK, Slots
<1> QED BY <1>5, <1>6 DEF Correct, Bytes!Next

LEMMA LseekStep ==
  ASSUME TypeOK, NEW fd \in Fds, NEW pos \in 0 .. MaxSize, Lseek(fd, pos)
  PROVE  Correct
<1>1. File(fd) # None /\ memfs_fd' = [memfs_fd EXCEPT ![fd].pos = pos] /\ disk' = disk /\ data' = data
  BY DEF Lseek
<1>2. pos \in Nat
  BY FilesAssumption
<1>3. memfs_fd' \in [Fds -> Slots] /\ Positions' = [Positions EXCEPT ![fd].pos = pos]
  BY <1>1, <1>2, SlotMoved
<1>4. FileBytes' = FileBytes /\ Positions[fd] # None /\ Positions[fd] = [node |-> File(fd).node, pos |-> File(fd).pos]
  BY <1>1, SameBytes, PositionAt
<1>5. Positions'[fd] = [node |-> File(fd).node, pos |-> pos]
  <2>1. Positions'[fd] = [Positions[fd] EXCEPT !.pos = pos]
    BY <1>3 DEF Positions
  <2> QED BY <2>1, <1>4
<1>6. Positions'[fd] # None /\ Positions'[fd].pos = pos
  <2>1. File(fd).node \in Nodes
    BY <1>1, PositionAt
  <2>2. Positions'[fd] \in [node : Nodes, pos : Nat]
    BY <1>2, <1>5, <2>1
  <2> QED BY <1>5, <2>2, FilesAssumption
<1>7. Bytes!Seek(fd)
  BY <1>2, <1>3, <1>4, <1>6 DEF Bytes!Seek, Bytes!Moves
<1>8. TypeOK'
  BY <1>1, <1>3 DEF TypeOK, Slots
<1> QED BY <1>7, <1>8 DEF Correct, Bytes!Next

LEMMA ReadStep ==
  ASSUME TypeOK, NEW fd \in Fds, NEW n \in 1 .. MaxLen, Read(fd, n)
  PROVE  Correct
<1>1. Readable(fd, n) /\ Moved(fd, Len(Reply(fd, n))) /\ disk' = disk /\ data' = data /\ File(fd) # None
  BY DEF Read, Readable
<1>2. PICK k \in 0 .. n : k = Len(Reply(fd, n)) /\ (k > 0 => File(fd).pos + k <= Len(FileBytes[File(fd).node]))
  BY <1>1, ReplyLength
<1>3. PICK q \in Nat : q = File(fd).pos + k
  <2>1. File(fd).pos \in Nat
    BY <1>1, PositionAt
  <2> QED BY <2>1
<1>4. memfs_fd' = [memfs_fd EXCEPT ![fd].pos = q]
  BY <1>1, <1>2, <1>3 DEF Moved, File
<1>5. memfs_fd' \in [Fds -> Slots] /\ Positions' = [Positions EXCEPT ![fd].pos = q]
  BY <1>1, <1>4, SlotMoved
<1>6. FileBytes' = FileBytes /\ Positions[fd] # None /\ Positions[fd] = [node |-> File(fd).node, pos |-> File(fd).pos]
  BY <1>1, SameBytes, PositionAt
<1>7. TypeOK'
  BY <1>1, <1>5 DEF TypeOK, Slots
<1>8. CASE k = 0
  <2>1. q = Positions[fd].pos
    BY <1>1, <1>3, <1>6, <1>8, PositionAt
  <2>2. [Positions[fd] EXCEPT !.pos = q] = Positions[fd]
    BY <1>6, <2>1
  <2>3. Positions' = Positions
    BY <1>5, <2>2 DEF Positions
  <2> QED BY <2>3, <1>6, <1>7 DEF Correct, Bytes!vars
<1>9. CASE k # 0
  <2>1. k \in 1 .. MaxLen
    BY <1>9, FilesAssumption
  <2>2. Bytes!Moves(fd, Positions[fd].pos + k)
    BY <1>3, <1>5, <1>6 DEF Bytes!Moves
  <2>3. Positions[fd].pos + k <= Len(FileBytes[Positions[fd].node])
    BY <1>2, <1>6, <2>1
  <2>4. Bytes!Read(fd)
    BY <1>6, <2>1, <2>2, <2>3 DEF Bytes!Read
  <2> QED BY <2>4, <1>7 DEF Correct, Bytes!Next
<1> QED BY <1>8, <1>9

(* A call that has written all its bytes.                                  *)
LEMMA WriteStep ==
  ASSUME TypeOK, NEW fd \in Fds, File(fd) # None, NEW n \in 1 .. MaxLen, NEW bytes \in [1 .. n -> Byte],
         Moved(fd, Len(bytes)), disk' \in [Sector -> [1 .. BlockSize -> Byte]], data' \in Seq(Byte),
         FileBytes' = [FileBytes EXCEPT ![File(fd).node] = Bytes!Put(@, File(fd).pos, bytes, 1 .. n)]
  PROVE  Correct
<1>1. n \in Nat \ {0} /\ Len(bytes) = n
  BY FilesAssumption
<1>2. PICK q \in Nat : q = File(fd).pos + n
  <2>1. File(fd).pos \in Nat
    BY PositionAt
  <2> QED BY <1>1, <2>1
<1>3. memfs_fd' = [memfs_fd EXCEPT ![fd].pos = q]
  BY <1>1, <1>2 DEF Moved, File
<1>4. memfs_fd' \in [Fds -> Slots] /\ Positions' = [Positions EXCEPT ![fd].pos = q]
  BY <1>3, SlotMoved
<1>5. Positions[fd] # None /\ Positions[fd] = [node |-> File(fd).node, pos |-> File(fd).pos]
  BY PositionAt
<1>6. Bytes!Moves(fd, Positions[fd].pos + n)
  BY <1>2, <1>4, <1>5 DEF Bytes!Moves
<1>7. FileBytes' = [FileBytes EXCEPT ![Positions[fd].node] = Bytes!Put(@, Positions[fd].pos, bytes, 1 .. n)]
  BY <1>5
<1>8. Bytes!Write(fd)
  BY <1>5, <1>6, <1>7 DEF Bytes!Write
<1>9. TypeOK'
  BY <1>4, TypesNext
<1> QED BY <1>8, <1>9 DEF Correct, Bytes!Next

LEMMA WriteRamStep ==
  ASSUME TypeOK, NEW fd \in Fds, NEW n \in 1 .. MaxLen, NEW bytes \in [1 .. n -> Byte], WriteRam(fd, bytes)
  PROVE  Correct
<1>1. File(fd) # None /\ Moved(fd, Len(bytes)) /\ disk' = disk
  BY DEF WriteRam, In
<1>2. disk' \in [Sector -> [1 .. BlockSize -> Byte]]
  BY <1>1 DEF TypeOK
<1> QED BY <1>1, <1>2, RamWritten, WriteStep, Zenon

LEMMA WriteDeviceStep ==
  ASSUME TypeOK, NEW fd \in Fds, NEW n \in 1 .. MaxLen, NEW bytes \in [1 .. n -> Byte], WriteDevice(fd, bytes)
  PROVE  Correct
<1> DEFINE S == FirstBlock(File(fd).pos) .. LastBlock(File(fd).pos, Len(bytes)) - 1
<1>1. /\ In(fd, "device") /\ File(fd) # None /\ Moved(fd, Len(bytes)) /\ data' = data
      /\ ReadFits(File(fd).pos, Len(bytes)) /\ disk' = Written(File(fd).pos, Padded(File(fd).pos, bytes), S)
  BY DEF WriteDevice, In
<1>2. n \in Nat /\ n <= n /\ \A k \in 1 .. n : bytes[k] = bytes[k]
  BY FilesAssumption
<1>3. DevicePut(fd, n, S, bytes)
  BY <1>1, <1>2, DeviceWritten
<1>4. data' \in Seq(Byte)
  BY <1>1 DEF TypeOK
<1>5. FileBytes' = [FileBytes EXCEPT ![File(fd).node] = Bytes!Put(@, File(fd).pos, bytes, 1 .. n)]
  <2>1. Len(bytes) = n
    BY <1>2
  <2> QED BY <1>3, <2>1, Zenon DEF DevicePut
<1>6. disk' \in [Sector -> [1 .. BlockSize -> Byte]]
  BY <1>3 DEF DevicePut
<1> QED BY <1>1, <1>4, <1>5, <1>6, WriteStep, Zenon

LEMMA WriteDeviceFailsStep ==
  ASSUME TypeOK, NEW fd \in Fds, NEW n \in 1 .. MaxLen, NEW bytes \in [1 .. n -> Byte], WriteDeviceFails(fd, bytes)
  PROVE  Correct
<1>1. /\ In(fd, "device") /\ File(fd) # None /\ data' = data /\ memfs_fd' = memfs_fd
      /\ ReadFits(File(fd).pos, Len(bytes))
  BY DEF WriteDeviceFails, In
<1>2. PICK S \in SUBSET (FirstBlock(File(fd).pos) .. LastBlock(File(fd).pos, Len(bytes)) - 1) :
        disk' = Written(File(fd).pos, Padded(File(fd).pos, bytes), S)
  BY DEF WriteDeviceFails
<1> DEFINE d == [k \in 1 .. MaxLen |-> IF k <= n THEN bytes[k] ELSE Zero]
<1>3. MaxLen \in Nat /\ n <= MaxLen /\ d \in [1 .. MaxLen -> Byte] /\ \A k \in 1 .. n : d[k] = bytes[k]
  BY FilesAssumption
<1> HIDE DEF d
<1>4. DevicePut(fd, n, S, d)
  BY <1>1, <1>2, <1>3, DeviceWritten
<1>5. PICK K \in SUBSET (1 .. n) :
        FileBytes' = [FileBytes EXCEPT ![File(fd).node] = Bytes!Put(@, File(fd).pos, d, K)]
  BY <1>4 DEF DevicePut
<1>6. Positions' = Positions
  BY <1>1 DEF Positions, File
<1>7. Positions[fd] # None /\ Positions[fd] = [node |-> File(fd).node, pos |-> File(fd).pos]
  BY <1>1, PositionAt
<1>8. FileBytes' = [FileBytes EXCEPT ![Positions[fd].node] = Bytes!Put(@, Positions[fd].pos, d, K)]
  BY <1>5, <1>7
<1>9. Bytes!WriteFails(fd)
  BY <1>3, <1>6, <1>7, <1>8 DEF Bytes!WriteFails
<1>10. TypeOK'
  BY <1>1, <1>4 DEF TypeOK, DevicePut
<1> QED BY <1>9, <1>10 DEF Correct, Bytes!Next

LEMMA CorrectNext == TypeOK /\ [Next]_vars => Correct
<1> SUFFICES ASSUME TypeOK, [Next]_vars PROVE Correct
  OBVIOUS
<1>1. ASSUME NEW node \in Nodes, NEW mode \in Modes, NEW truncate \in BOOLEAN, Open(node, mode, truncate)
      PROVE  Correct
  BY <1>1, OpenStep
<1>2. ASSUME NEW node \in Nodes, NEW truncate \in BOOLEAN, OpenFull(node, truncate)
      PROVE  Correct
  BY <1>2, OpenFullStep
<1>3. ASSUME NEW fd \in Fds, Close(fd)
      PROVE  Correct
  BY <1>3, CloseStep
<1>4. ASSUME NEW fd \in Fds, NEW n \in 1 .. MaxLen, Read(fd, n)
      PROVE  Correct
  BY <1>4, ReadStep
<1>5. ASSUME NEW fd \in Fds, NEW n \in 1 .. MaxLen, NEW bytes \in [1 .. n -> Byte],
             WriteRam(fd, bytes) \/ WriteDevice(fd, bytes) \/ WriteDeviceFails(fd, bytes)
      PROVE  Correct
  BY <1>5, WriteRamStep, WriteDeviceStep, WriteDeviceFailsStep
<1>6. ASSUME NEW fd \in Fds, NEW pos \in 0 .. MaxSize, Lseek(fd, pos)
      PROVE  Correct
  BY <1>6, LseekStep
<1>7. ASSUME UNCHANGED vars
      PROVE  Correct
  <2>1. TypeOK' /\ FileBytes' = FileBytes /\ Positions' = Positions
    BY <1>7, SameBytes, Zenon DEF vars, TypeOK, Positions, File
  <2> QED BY <2>1 DEF Correct, Bytes!vars
<1> QED BY <1>1, <1>2, <1>3, <1>4, <1>5, <1>6, <1>7, Zenon DEF Next

(* The table holds positions and modes, every sector is whole, and the     *)
(* file in memory is bytes: no write on either path leaves a sector short, *)
(* whatever it must put before and behind its bytes, and however many of   *)
(* its sectors a failing disk has taken.                                   *)
THEOREM TypesCorrect == Spec => []TypeOK
<1>1. TypeOK /\ [Next]_vars => TypeOK'
  BY CorrectNext DEF Correct
<1> QED BY <1>1, TypeInit, PTL DEF Spec

(* A read of a device returns the bytes at its position, for every size of *)
(* a sector and of a disk, and every position and length, and is refused   *)
(* only when they are not all there: the arithmetic of read_bytes is that  *)
(* of a sequence of bytes.                                                 *)
THEOREM ReadsAreTrue == Spec => []ReadsWhatIsThere
BY TypesCorrect, TypesRead, PTL

(* The descriptors, the sectors that a write pads, and the file in memory  *)
(* are files of bytes: every call is one of ByteFiles, a write of a device *)
(* that fails half way too.                                                *)
THEOREM FilesImplemented == Spec => ImplementsByteFiles
<1>1. Init => Bytes!Init
  <2> SUFFICES ASSUME Init PROVE Bytes!Init
    OBVIOUS
  <2>1. TypeOK
    BY TypeInit
  <2>2. DeviceBytes \in Seq(Byte) /\ data \in Seq(Byte)
    BY <2>1, DeviceHolds DEF Holds, TypeOK
  <2>3. FileBytes \in [Nodes -> Seq(Byte)]
    BY <2>2 DEF FileBytes
  <2>4. Positions = [fd \in Fds |-> None]
    BY DEF Init, Positions, File
  <2> QED BY <2>3, <2>4 DEF Bytes!Init
<1>2. TypeOK /\ [Next]_vars => [Bytes!Next]_(Bytes!vars)
  BY CorrectNext DEF Correct
<1> QED BY <1>1, <1>2, TypesCorrect, PTL DEF Spec, ImplementsByteFiles, Bytes!Spec

-----------------------------------------------------------------------------
(* What a path stands for in the directories c                             *)

StandsIn(c, path) ==
  LET nodes[i \in 0 .. Len(path)] ==
        IF i = 0 THEN {Root} ELSE UNION {ToSet(c[n][path[i]]) : n \in nodes[i - 1]}
  IN nodes[Len(path)]
LocateIn(c, path) ==
  LET nodes[i \in 0 .. Len(path)] ==
        IF i = 0 THEN <<Root>>
        ELSE LET parents == nodes[i - 1]
             IN FlattenSeq([j \in 1 .. Len(parents) |-> c[parents[j]][path[i]]])
  IN nodes[Len(path)]

LEMMA InChildren ==
  /\ \A path : StandsFor(path) = StandsIn(children, path) /\ Locate(path) = LocateIn(children, path)
  /\ \A path : StandsFor(path)' = StandsIn(children', path) /\ Locate(path)' = LocateIn(children', path)
BY Zenon DEF StandsFor, StandsIn, Locate, LocateIn

Directories(c, D) == Root \in D /\ c \in [D -> [Segments -> Seq(D)]]

(* The nodes of the first i segments of a path.                            *)
Steps(s, c, D, path, m) ==
  /\ s[0] = {Root}
  /\ \A i \in 0 .. m : s[i] \subseteq D
  /\ \A i \in 1 .. m : \A x : x \in s[i] <=> \E n \in s[i - 1] : x \in ToSet(c[n][path[i]])

StepsOf(s, c, D, path) == Steps(s, c, D, path, Len(path)) /\ StandsIn(c, path) = s[Len(path)]

LEMMA ToSetIn ==
  ASSUME NEW X, NEW s \in Seq(X)
  PROVE  ToSet(s) \subseteq X
BY DEF ToSet

LEMMA Stands ==
  ASSUME NEW c, NEW D, Directories(c, D), NEW path \in Seq(Segments)
  PROVE  \E s : StepsOf(s, c, D, path)
<1> DEFINE m == Len(path)
           Onto(S, i) == UNION {ToSet(c[n][path[i]]) : n \in S}
           Step == [i \in 1 .. m |-> [S \in SUBSET D |-> Onto(S, i)]]
           s == CHOOSE g : g = [i \in 0 .. Len(path) |-> IF i = 0 THEN {Root} ELSE Onto(g[i - 1], i)]
<1>1. m \in Nat /\ 0 \in 0 .. m /\ {Root} \in SUBSET D
  BY DEF Directories
<1>2. ASSUME NEW i \in 1 .. m, NEW S \in SUBSET D
      PROVE  Onto(S, i) \in SUBSET D
  <2>1. \A n \in S : c[n][path[i]] \in Seq(D)
    BY DEF Directories
  <2>2. \A n \in S : ToSet(c[n][path[i]]) \subseteq D
    BY <2>1, ToSetIn
  <2> QED BY <2>2
<1>3. ASSUME NEW i \in 1 .. m, NEW S \in SUBSET D
      PROVE  Step[i][S] = Onto(S, i)
  BY Zenon
<1>4. StandsIn(c, path) = s[Len(path)]
  BY DEF StandsIn
<1>5. ASSUME NEW S, NEW i, NEW x
      PROVE  x \in Onto(S, i) <=> \E n \in S : x \in ToSet(c[n][path[i]])
  OBVIOUS
<1> HIDE DEF Step, Onto
<1>6. PICK f : IsRecursion(f, m, {Root}, Step) /\ \A i \in 0 .. m : f[i] \in SUBSET D
  <2>1. \A i \in 1 .. m, S \in SUBSET D : Step[i][S] \in SUBSET D
    BY <1>2, <1>3
  <2> QED BY <1>1, <2>1, Recursion
<1>7. f = [i \in 0 .. Len(path) |-> IF i = 0 THEN {Root} ELSE Onto(f[i - 1], i)]
  <2>1. ASSUME NEW i \in 0 .. m
        PROVE  f[i] = IF i = 0 THEN {Root} ELSE Onto(f[i - 1], i)
    <3>1. f[i] = IF i = 0 THEN {Root} ELSE Step[i][f[i - 1]]
      BY <1>6 DEF IsRecursion
    <3>2. i # 0 => i \in 1 .. m /\ i - 1 \in 0 .. m
      BY <1>1
    <3> QED BY <3>1, <3>2, <1>3, <1>6
  <2>2. f = [i \in 0 .. m |-> f[i]]
    BY <1>6 DEF IsRecursion
  <2> QED BY <2>1, <2>2
<1>8. s = [i \in 0 .. Len(path) |-> IF i = 0 THEN {Root} ELSE Onto(s[i - 1], i)]
  BY <1>7
<1> HIDE DEF s
<1>9. ASSUME NEW i \in 0 .. m
      PROVE  s[i] = IF i = 0 THEN {Root} ELSE Onto(s[i - 1], i)
  BY <1>8, Zenon
<1>10. s[0] = {Root} /\ \A i \in 1 .. m : s[i] = Onto(s[i - 1], i)
  BY <1>1, <1>9
<1> DEFINE G == {i \in 0 .. m : s[i] \in SUBSET D}
<1>11. \A i \in 0 .. m : i \in G
  <2>1. 0 \in G
    BY <1>1, <1>10
  <2>2. ASSUME NEW i \in 1 .. m, i - 1 \in G
        PROVE  i \in G
    <3>1. s[i - 1] \in SUBSET D
      BY <2>2
    <3> QED BY <3>1, <1>2, <1>10
  <2> HIDE DEF G
  <2> QED BY <1>1, <2>1, <2>2, Upwards
<1>12. \A i \in 0 .. m : s[i] \subseteq D
  BY <1>11
<1>13. ASSUME NEW i \in 1 .. m, NEW x
       PROVE  x \in s[i] <=> \E n \in s[i - 1] : x \in ToSet(c[n][path[i]])
  BY <1>5, <1>10
<1> QED BY <1>4, <1>10, <1>12, <1>13 DEF StepsOf, Steps

(* A lookup finds what the path stands for.                                *)
LEMMA LocateStands ==
  ASSUME NEW c, NEW D, Directories(c, D), NEW path \in Seq(Segments)
  PROVE  LocateIn(c, path) \in Seq(D) /\ ToSet(LocateIn(c, path)) = StandsIn(c, path)
<1> DEFINE m == Len(path)
           Onto(q, i) == FlattenSeq([j \in 1 .. Len(q) |-> c[q[j]][path[i]]])
           Step == [i \in 1 .. m |-> [q \in Seq(D) |-> Onto(q, i)]]
           h == CHOOSE g : g = [i \in 0 .. Len(path) |-> IF i = 0 THEN <<Root>> ELSE Onto(g[i - 1], i)]
<1>1. m \in Nat /\ <<Root>> \in Seq(D)
  BY DEF Directories
<1>2. ASSUME NEW i \in 1 .. m, NEW q \in Seq(D)
      PROVE  /\ Onto(q, i) \in Seq(D)
             /\ \A x : x \in ToSet(Onto(q, i)) <=> \E n \in ToSet(q) : x \in ToSet(c[n][path[i]])
  <2> DEFINE ss == [j \in 1 .. Len(q) |-> c[q[j]][path[i]]]
  <2>1. Len(q) \in Nat /\ ss \in [1 .. Len(q) -> Seq(D)]
    BY DEF Directories
  <2>2. \A j \in 1 .. Len(q) : ss[j] = c[q[j]][path[i]]
    OBVIOUS
  <2>3. Onto(q, i) = FlattenSeq(ss)
    OBVIOUS
  <2> HIDE DEF ss, Onto
  <2>4. FlattenSeq(ss) \in Seq(D) /\ ToSet(FlattenSeq(ss)) = UNION {ToSet(ss[j]) : j \in 1 .. Len(q)}
    BY <2>1, FlatUnion
  <2>5. ToSet(q) = {q[j] : j \in 1 .. Len(q)}
    BY DEF ToSet
  <2>6. ASSUME NEW x
        PROVE  x \in ToSet(Onto(q, i)) <=> \E n \in ToSet(q) : x \in ToSet(c[n][path[i]])
    <3>1. ASSUME x \in ToSet(Onto(q, i))
          PROVE  \E n \in ToSet(q) : x \in ToSet(c[n][path[i]])
      <4>1. PICK j \in 1 .. Len(q) : x \in ToSet(ss[j])
        BY <3>1, <2>3, <2>4
      <4> QED BY <4>1, <2>2, <2>5
    <3>2. ASSUME NEW n \in ToSet(q), x \in ToSet(c[n][path[i]])
          PROVE  x \in ToSet(Onto(q, i))
      <4>1. PICK j \in 1 .. Len(q) : n = q[j]
        BY <2>5
      <4>2. x \in ToSet(ss[j])
        BY <3>2, <4>1, <2>2
      <4> QED BY <4>2, <2>3, <2>4
    <3> QED BY <3>1, <3>2
  <2> QED BY <2>3, <2>4, <2>6
<1>3. ASSUME NEW i \in 1 .. m, NEW q \in Seq(D)
      PROVE  Step[i][q] = Onto(q, i)
  BY Zenon
<1>4. LocateIn(c, path) = h[Len(path)]
  BY DEF LocateIn
<1> HIDE DEF Step, Onto
<1>5. PICK f : IsRecursion(f, m, <<Root>>, Step) /\ \A i \in 0 .. m : f[i] \in Seq(D)
  <2>1. \A i \in 1 .. m, q \in Seq(D) : Step[i][q] \in Seq(D)
    BY <1>2, <1>3
  <2> QED BY <1>1, <2>1, Recursion
<1>6. f = [i \in 0 .. Len(path) |-> IF i = 0 THEN <<Root>> ELSE Onto(f[i - 1], i)]
  <2>1. ASSUME NEW i \in 0 .. m
        PROVE  f[i] = IF i = 0 THEN <<Root>> ELSE Onto(f[i - 1], i)
    <3>1. f[i] = IF i = 0 THEN <<Root>> ELSE Step[i][f[i - 1]]
      BY <1>5 DEF IsRecursion
    <3>2. i # 0 => i \in 1 .. m /\ i - 1 \in 0 .. m
      BY <1>1
    <3> QED BY <3>1, <3>2, <1>3, <1>5
  <2>2. f = [i \in 0 .. m |-> f[i]]
    BY <1>5 DEF IsRecursion
  <2> QED BY <2>1, <2>2
<1>7. h = [i \in 0 .. Len(path) |-> IF i = 0 THEN <<Root>> ELSE Onto(h[i - 1], i)]
  BY <1>6
<1> HIDE DEF h
<1>8. ASSUME NEW i \in 0 .. m
      PROVE  h[i] = IF i = 0 THEN <<Root>> ELSE Onto(h[i - 1], i)
  BY <1>7, Zenon
<1>9. PICK s : StepsOf(s, c, D, path)
  BY Stands
<1> DEFINE G == {i \in 0 .. m : h[i] \in Seq(D) /\ ToSet(h[i]) = s[i]}
<1>10. 0 \in G
  <2>1. h[0] = <<Root>>
    BY <1>1, <1>8
  <2>2. ToSet(<<Root>>) = {Root}
    BY DEF ToSet
  <2>3. s[0] = {Root} /\ 0 \in 0 .. m
    BY <1>1, <1>9 DEF StepsOf, Steps
  <2> QED BY <2>1, <2>2, <2>3, <1>1
<1>11. ASSUME NEW i \in 1 .. m, i - 1 \in G
       PROVE  i \in G
  <2>1. h[i] = Onto(h[i - 1], i)
    BY <1>8
  <2>2. h[i - 1] \in Seq(D) /\ ToSet(h[i - 1]) = s[i - 1]
    BY <1>11
  <2>3. h[i] \in Seq(D) /\ \A x : x \in ToSet(h[i]) <=> \E n \in s[i - 1] : x \in ToSet(c[n][path[i]])
    BY <2>1, <2>2, <1>2
  <2>4. \A x : x \in s[i] <=> \E n \in s[i - 1] : x \in ToSet(c[n][path[i]])
    BY <1>9 DEF StepsOf, Steps
  <2>5. ToSet(h[i]) = s[i]
    BY <2>3, <2>4
  <2> QED BY <2>3, <2>5
<1>12. \A i \in 0 .. m : i \in G
  <2> HIDE DEF G
  <2> QED BY <1>1, <1>10, <1>11, Upwards
<1>13. h[m] \in Seq(D) /\ ToSet(h[m]) = s[m]
  BY <1>1, <1>12
<1> QED BY <1>4, <1>9, <1>13 DEF StepsOf

(* Directories that have grown stand for more.                             *)
Grown(c, C, d, D) ==
  /\ Directories(c, C) /\ Directories(d, D) /\ C \subseteq D
  /\ \A n \in C, segment \in Segments : ToSet(c[n][segment]) \subseteq ToSet(d[n][segment])

LEMMA StandsMore ==
  ASSUME NEW c, NEW C, NEW d, NEW D, Grown(c, C, d, D), NEW path \in Seq(Segments)
  PROVE  StandsIn(c, path) \subseteq StandsIn(d, path)
<1>1. PICK s : StepsOf(s, c, C, path)
  BY Stands DEF Grown
<1>2. PICK u : StepsOf(u, d, D, path)
  BY Stands DEF Grown
<1> DEFINE m == Len(path)
           G == {i \in 0 .. m : s[i] \subseteq u[i]}
<1>3. m \in Nat /\ 0 \in 0 .. m /\ m \in 0 .. m
  OBVIOUS
<1>4. 0 \in G
  BY <1>1, <1>2, <1>3 DEF StepsOf, Steps
<1>5. ASSUME NEW i \in 1 .. m, i - 1 \in G
      PROVE  i \in G
  <2>1. s[i - 1] \subseteq u[i - 1] /\ s[i - 1] \subseteq C
    <3>1. i - 1 \in 0 .. m
      OBVIOUS
    <3> QED BY <3>1, <1>5, <1>1 DEF StepsOf, Steps
  <2>2. path[i] \in Segments
    OBVIOUS
  <2>3. ASSUME NEW x \in s[i]
        PROVE  x \in u[i]
    <3>1. PICK n \in s[i - 1] : x \in ToSet(c[n][path[i]])
      BY <1>1 DEF StepsOf, Steps
    <3>2. n \in u[i - 1] /\ x \in ToSet(d[n][path[i]])
      BY <3>1, <2>1, <2>2 DEF Grown
    <3> QED BY <3>2, <1>2 DEF StepsOf, Steps
  <2> QED BY <2>3
<1>6. \A i \in 0 .. m : i \in G
  <2> HIDE DEF G
  <2> QED BY <1>3, <1>4, <1>5, Upwards
<1>7. s[m] \subseteq u[m]
  BY <1>3, <1>6
<1> QED BY <1>1, <1>2, <1>7 DEF StepsOf

IsBeginning(t, s, k, X) == t \in Seq(X) /\ Len(t) = k /\ \A i \in 1 .. k : t[i] = s[i]

LEMMA Beginning ==
  ASSUME NEW X, NEW s \in Seq(X), NEW k \in Nat, k <= Len(s)
  PROVE  IsBeginning(SubSeq(s, 1, k), s, k, X)
<1>1. SubSeq(s, 1, k) \in Seq(X) /\ Len(SubSeq(s, 1, k)) = k
  OBVIOUS
<1>2. ASSUME NEW i \in 1 .. k
      PROVE  SubSeq(s, 1, k)[i] = s[i]
  OBVIOUS
<1> QED BY <1>1, <1>2 DEF IsBeginning

LEMMA StandsWithin ==
  ASSUME NEW c, NEW D, Directories(c, D), NEW path \in Seq(Segments)
  PROVE  StandsIn(c, path) \subseteq D
<1>1. PICK s : StepsOf(s, c, D, path)
  BY Stands
<1>2. Len(path) \in 0 .. Len(path)
  OBVIOUS
<1> QED BY <1>1, <1>2 DEF StepsOf, Steps

(* A node with nothing in it adds itself alone.                            *)
Alone(new, c, C, d, D) ==
  /\ \A n \in D, segment \in Segments : \A x \in ToSet(d[n][segment]) :
       x = new \/ (n \in C /\ x \in ToSet(c[n][segment]))
  /\ \A segment \in Segments : d[new][segment] = <<>>

LEMMA NewAlone ==
  ASSUME NEW c, NEW C, NEW d, NEW D, Directories(c, C), Directories(d, D),
         NEW new, Alone(new, c, C, d, D), NEW path \in Seq(Segments)
  PROVE  StandsIn(d, path) \subseteq StandsIn(c, path) \cup {new}
<1>1. PICK s : StepsOf(s, c, C, path)
  BY Stands
<1>2. PICK u : StepsOf(u, d, D, path)
  BY Stands
<1> DEFINE m == Len(path)
           G == {i \in 0 .. m : u[i] \subseteq s[i] \cup {new}}
<1>3. m \in Nat /\ 0 \in 0 .. m /\ m \in 0 .. m
  OBVIOUS
<1>4. 0 \in G
  BY <1>1, <1>2, <1>3 DEF StepsOf, Steps
<1>5. ASSUME NEW i \in 1 .. m, i - 1 \in G
      PROVE  i \in G
  <2>1. u[i - 1] \subseteq s[i - 1] \cup {new} /\ u[i - 1] \subseteq D
    <3>1. i - 1 \in 0 .. m
      OBVIOUS
    <3> QED BY <3>1, <1>5, <1>2 DEF StepsOf, Steps
  <2>2. path[i] \in Segments
    OBVIOUS
  <2>3. ASSUME NEW x \in u[i], x # new
        PROVE  x \in s[i]
    <3>1. PICK n \in u[i - 1] : x \in ToSet(d[n][path[i]])
      BY <1>2 DEF StepsOf, Steps
    <3>2. n \in C /\ x \in ToSet(c[n][path[i]])
      BY <2>1, <2>2, <2>3, <3>1 DEF Alone
    <3>3. n # new
      <4>1. d[new][path[i]] = <<>> /\ ToSet(<<>>) = {}
        BY <2>2 DEF ToSet, Alone
      <4> QED BY <3>1, <4>1
    <3>4. n \in s[i - 1]
      BY <2>1, <3>3
    <3> QED BY <3>2, <3>4, <1>1 DEF StepsOf, Steps
  <2> QED BY <2>3
<1>6. \A i \in 0 .. m : i \in G
  <2> HIDE DEF G
  <2> QED BY <1>3, <1>4, <1>5, Upwards
<1>7. u[m] \subseteq s[m] \cup {new}
  BY <1>3, <1>6
<1> QED BY <1>1, <1>2, <1>7 DEF StepsOf

(* The steps of a path, but for the last.                                  *)
LEMMA StandsFront ==
  ASSUME NEW c, NEW D, Directories(c, D), NEW path \in Seq(Segments), Len(path) > 0,
         NEW s, StepsOf(s, c, D, path)
  PROVE  StandsIn(c, Front(path)) = s[Len(path) - 1]
<1> DEFINE front == Front(path)
           m == Len(path) - 1
<1>1. /\ front \in Seq(Segments) /\ Len(front) = m /\ m \in Nat /\ 0 \in 0 .. m /\ m \in 0 .. m
      /\ \A i \in 1 .. m : front[i] = path[i] /\ i \in 1 .. Len(path)
  <2>1. m \in Nat /\ 0 \in 0 .. m /\ m \in 0 .. m /\ \A i \in 1 .. m : i \in 1 .. Len(path)
    OBVIOUS
  <2>2. front = SubSeq(path, 1, m)
    BY DEF Front
  <2>3. IsBeginning(SubSeq(path, 1, m), path, m, Segments)
    BY <2>1, Beginning
  <2> QED BY <2>1, <2>2, <2>3 DEF IsBeginning
<1> HIDE DEF front, m
<1>2. PICK u : StepsOf(u, c, D, front)
  BY <1>1, Stands
<1> DEFINE G == {i \in 0 .. m : s[i] = u[i]}
<1>3. 0 \in G
  BY <1>1, <1>2 DEF StepsOf, Steps
<1>4. ASSUME NEW i \in 1 .. m, i - 1 \in G
      PROVE  i \in G
  <2>1. s[i - 1] = u[i - 1] /\ front[i] = path[i]
    BY <1>1, <1>4
  <2>2. \A x : x \in s[i] <=> \E n \in s[i - 1] : x \in ToSet(c[n][path[i]])
    BY <1>1 DEF StepsOf, Steps
  <2>3. \A x : x \in u[i] <=> \E n \in u[i - 1] : x \in ToSet(c[n][front[i]])
    BY <1>1, <1>2 DEF StepsOf, Steps
  <2>4. s[i] = u[i]
    BY <2>1, <2>2, <2>3
  <2> QED BY <2>4
<1>5. \A i \in 0 .. m : i \in G
  <2> HIDE DEF G
  <2> QED BY <1>1, <1>3, <1>4, Upwards
<1>6. s[m] = u[m]
  BY <1>1, <1>5
<1> QED BY <1>1, <1>2, <1>6 DEF StepsOf, m, front

LEMMA LastStep ==
  ASSUME NEW c, NEW D, Directories(c, D), NEW path \in Seq(Segments), Len(path) > 0, NEW x
  PROVE  x \in StandsIn(c, path) <=> \E n \in StandsIn(c, Front(path)) : x \in ToSet(c[n][Last(path)])
<1>1. PICK s : StepsOf(s, c, D, path)
  BY Stands
<1>2. StandsIn(c, Front(path)) = s[Len(path) - 1]
  BY <1>1, StandsFront
<1>3. Len(path) \in 1 .. Len(path)
  OBVIOUS
<1>4. x \in s[Len(path)] <=> \E n \in s[Len(path) - 1] : x \in ToSet(c[n][path[Len(path)]])
  BY <1>1, <1>3 DEF StepsOf, Steps
<1> QED BY <1>1, <1>2, <1>4 DEF StepsOf, Last

-----------------------------------------------------------------------------
(* Trees                                                                   *)

Contents(k) == [NodesOf(k) -> [Segments -> Seq(NodesOf(k))]]

LEMMA NodesMore ==
  ASSUME NEW k \in Nat, NEW l \in Nat, k <= l
  PROVE  /\ NodesOf(k) \subseteq NodesOf(l) /\ Root \in NodesOf(k)
         /\ NodesOf(k + 1) = NodesOf(k) \cup {k + 1} /\ k + 1 \notin NodesOf(k)
<1>1. k + 1 \notin Given /\ k + 1 \in Nat
  BY VfsAssumption
<1>2. 0 .. k + 1 = (0 .. k) \cup {k + 1} /\ k + 1 \notin 0 .. k /\ 0 .. k \subseteq 0 .. l /\ 0 \in 0 .. k
  OBVIOUS
<1> QED BY <1>1, <1>2 DEF NodesOf, Root

LEMMA ContentsAre ==
  ASSUME NEW k \in Nat, NEW c \in Contents(k)
  PROVE  Directories(c, NodesOf(k))
BY NodesMore DEF Contents, Directories

IsChild(t, c, k, at, segment) ==
  /\ t \in Contents(k + 1)
  /\ \A n \in NodesOf(k), s \in Segments :
       t[n][s] = IF n = at /\ s = segment THEN Append(c[n][s], k + 1) ELSE c[n][s]
  /\ \A s \in Segments : t[k + 1][s] = <<>>

LEMMA ChildIs ==
  ASSUME NEW tree, NEW k \in Nat, k = Len(tree.made), tree.children \in Contents(k),
         NEW at \in NodesOf(k), NEW segment \in Segments, NEW kind
  PROVE  /\ IsChild(Child(tree, at, segment, kind).children, tree.children, k, at, segment)
         /\ Child(tree, at, segment, kind).made = Append(tree.made, kind)
         /\ Child(tree, at, segment, kind).at = k + 1
<1> DEFINE c == tree.children
           t == [n \in NodesOf(k + 1) |->
                   IF n = k + 1 THEN Empty
                   ELSE IF n = at THEN [c[n] EXCEPT ![segment] = Append(@, k + 1)] ELSE c[n]]
<1>1. DOMAIN c = NodesOf(k) /\ NodesOf(k + 1) = NodesOf(k) \cup {k + 1} /\ k + 1 \notin NodesOf(k)
  <2>1. DOMAIN c = NodesOf(k)
    BY DEF Contents
  <2>2. k <= k
    OBVIOUS
  <2>3. NodesOf(k + 1) = NodesOf(k) \cup {k + 1} /\ k + 1 \notin NodesOf(k)
    BY <2>2, NodesMore
  <2> QED BY <2>1, <2>3
<1>2. Child(tree, at, segment, kind) = [children |-> t, made |-> Append(tree.made, kind), at |-> k + 1]
  BY <1>1 DEF Child
<1>3. ASSUME NEW n \in NodesOf(k), NEW s \in Segments
      PROVE  /\ c[n][s] \in Seq(NodesOf(k + 1)) /\ Append(c[n][s], k + 1) \in Seq(NodesOf(k + 1))
             /\ t[n][s] = IF n = at /\ s = segment THEN Append(c[n][s], k + 1) ELSE c[n][s]
  <2>1. c[n] \in [Segments -> Seq(NodesOf(k))] /\ n # k + 1 /\ n \in NodesOf(k + 1)
    BY <1>1 DEF Contents
  <2>2. c[n][s] \in Seq(NodesOf(k + 1))
    BY <2>1, <1>1
  <2>3. k + 1 \in NodesOf(k + 1)
    BY <1>1
  <2>4. t[n] = IF n = at THEN [c[n] EXCEPT ![segment] = Append(@, k + 1)] ELSE c[n]
    BY <2>1
  <2>5. t[n][s] = IF n = at /\ s = segment THEN Append(c[n][s], k + 1) ELSE c[n][s]
    <3> HIDE DEF t, c
    <3> QED BY <2>1, <2>4
  <2> HIDE DEF t, c
  <2> QED BY <2>2, <2>3, <2>5
<1>4. t[k + 1] = Empty
  BY <1>1
<1>5. \A s \in Segments : t[k + 1][s] = <<>>
  <2> HIDE DEF t
  <2> QED BY <1>4 DEF Empty
<1>6. t \in Contents(k + 1)
  <2>1. ASSUME NEW n \in NodesOf(k + 1)
        PROVE  t[n] \in [Segments -> Seq(NodesOf(k + 1))]
    <3>1. CASE n = k + 1
      BY <3>1, <1>4 DEF Empty
    <3>2. CASE n # k + 1
      <4>1. n \in NodesOf(k)
        BY <3>2, <1>1
      <4>2. t[n] = IF n = at THEN [c[n] EXCEPT ![segment] = Append(@, k + 1)] ELSE c[n]
        BY <3>2
      <4>3. c[n] \in [Segments -> Seq(NodesOf(k))]
        BY <4>1 DEF Contents
      <4>4. DOMAIN t[n] = Segments /\ t[n] = [s \in Segments |-> t[n][s]]
        <5> HIDE DEF t, c
        <5> QED BY <4>2, <4>3
      <4>5. \A s \in Segments : t[n][s] \in Seq(NodesOf(k + 1))
        <5> HIDE DEF t, c
        <5> QED BY <4>1, <1>3
      <4> HIDE DEF t
      <4> QED BY <4>4, <4>5
    <3> QED BY <3>1, <3>2
  <2> QED BY <2>1 DEF Contents
<1> HIDE DEF t, c
<1>7. IsChild(t, c, k, at, segment)
  BY <1>3, <1>5, <1>6 DEF IsChild
<1> QED BY <1>2, <1>7 DEF c

LEMMA ChildGrows ==
  ASSUME NEW k \in Nat, NEW c \in Contents(k), NEW at \in NodesOf(k), NEW segment \in Segments, NEW t,
         IsChild(t, c, k, at, segment)
  PROVE  Grown(c, NodesOf(k), t, NodesOf(k + 1)) /\ k + 1 \in ToSet(t[at][segment])
<1>1. /\ Directories(c, NodesOf(k)) /\ Directories(t, NodesOf(k + 1)) /\ NodesOf(k) \subseteq NodesOf(k + 1)
  BY ContentsAre, NodesMore DEF IsChild
<1>2. ASSUME NEW n \in NodesOf(k), NEW s \in Segments
      PROVE  /\ ToSet(c[n][s]) \subseteq ToSet(t[n][s])
             /\ n = at /\ s = segment => k + 1 \in ToSet(t[n][s])
  <2>1. c[n][s] \in Seq(NodesOf(k))
    BY DEF Contents
  <2>2. t[n][s] = IF n = at /\ s = segment THEN Append(c[n][s], k + 1) ELSE c[n][s]
    BY DEF IsChild
  <2>3. PICK q \in Seq(NodesOf(k)) : q = c[n][s]
    BY <2>1
  <2>4. ToSet(q) \subseteq ToSet(Append(q, k + 1)) /\ k + 1 \in ToSet(Append(q, k + 1))
    <3>1. DOMAIN q = 1 .. Len(q) /\ DOMAIN Append(q, k + 1) = 1 .. Len(q) + 1 /\ Len(q) \in Nat
      OBVIOUS
    <3>2. \A i \in 1 .. Len(q) : i \in 1 .. Len(q) + 1 /\ Append(q, k + 1)[i] = q[i]
      OBVIOUS
    <3>3. Len(q) + 1 \in 1 .. Len(q) + 1 /\ Append(q, k + 1)[Len(q) + 1] = k + 1
      OBVIOUS
    <3> QED BY <3>1, <3>2, <3>3 DEF ToSet
  <2> QED BY <2>2, <2>3, <2>4
<1> QED BY <1>1, <1>2 DEF Grown

Trees ==
  {t \in [children : UNION {Contents(k) : k \in Nat}, made : Seq(Kinds), at : Given \cup Nat] :
     t.children \in Contents(Len(t.made)) /\ t.at \in NodesOf(Len(t.made))}

LEMMA InTrees ==
  ASSUME NEW t \in Trees
  PROVE  /\ t.made \in Seq(Kinds) /\ Len(t.made) \in Nat /\ t.children \in Contents(Len(t.made))
         /\ t.at \in NodesOf(Len(t.made))
         /\ t = [children |-> t.children, made |-> t.made, at |-> t.at]
BY DEF Trees

LEMMA TreeOf ==
  ASSUME NEW m \in Seq(Kinds), NEW c \in Contents(Len(m)), NEW a \in NodesOf(Len(m))
  PROVE  [children |-> c, made |-> m, at |-> a] \in Trees
<1>1. Len(m) \in Nat /\ c \in UNION {Contents(k) : k \in Nat}
  OBVIOUS
<1>2. a \in Given \cup Nat
  BY <1>1 DEF NodesOf
<1> QED BY <1>1, <1>2 DEF Trees

(* The tree u comes of t, by the step to `segment`.                        *)
Onwards(t, u) ==
  /\ Grown(t.children, NodesOf(Len(t.made)), u.children, NodesOf(Len(u.made)))
  /\ u.made = t.made \/ Last(u.made) = "root"
Reaches(t, u, segment) == u \in Trees /\ Onwards(t, u) /\ u.at \in ToSet(u.children[t.at][segment])

LEMMA GetNodeReaches ==
  ASSUME NEW t \in Trees, NEW segment \in Segments
  PROVE  Reaches(t, GetNode(t, segment), segment)
<1> DEFINE there == t.children[t.at][segment]
           ours == {i \in DOMAIN there : there[i] \in DOMAIN t.made /\ t.made[there[i]] = "root"}
           u == GetNode(t, segment)
<1>1. PICK k \in Nat : k = Len(t.made)
  BY InTrees
<1>2. t.made \in Seq(Kinds) /\ t.children \in Contents(k) /\ t.at \in NodesOf(k)
  BY <1>1, InTrees
<1>3. there \in Seq(NodesOf(k))
  BY <1>2 DEF Contents
<1>4. CASE ours # {}
  <2>1. Min(ours) \in ours
    <3>1. ours \subseteq Nat
      BY <1>3
    <3>2. \E x \in ours : \A y \in ours : x <= y
      BY <1>4, <3>1, LeastOf
    <3> HIDE DEF ours
    <3> QED BY <3>2 DEF Min
  <2>2. u = [t EXCEPT !.at = there[Min(ours)]]
    BY <1>4 DEF GetNode
  <2>3. Min(ours) \in DOMAIN there
    BY <2>1
  <2>4. there[Min(ours)] \in ToSet(there) /\ there[Min(ours)] \in NodesOf(k)
    <3> HIDE DEF there, ours
    <3> QED BY <2>3, <1>3 DEF ToSet
  <2> HIDE DEF ours, u
  <2>5. u.children = t.children /\ u.made = t.made /\ u.at = there[Min(ours)]
    BY <2>2, InTrees
  <2>6. u = [children |-> t.children, made |-> t.made, at |-> there[Min(ours)]]
    BY <2>2, InTrees
  <2>7. u \in Trees
    BY <2>4, <2>6, <1>1, <1>2, TreeOf
  <2>8. Onwards(t, u)
    BY <2>5, <1>1, <1>2, ContentsAre DEF Onwards, Grown
  <2>9. u.at \in ToSet(u.children[t.at][segment])
    BY <2>4, <2>5
  <2> QED BY <2>7, <2>8, <2>9 DEF Reaches, u
<1>5. CASE ours = {}
  <2>1. u = Child(t, t.at, segment, "root")
    BY <1>5 DEF GetNode
  <2> HIDE DEF u
  <2>2. IsChild(u.children, t.children, k, t.at, segment) /\ u.made = Append(t.made, "root") /\ u.at = k + 1
    BY <2>1, <1>1, <1>2, ChildIs
  <2>3. u = [children |-> u.children, made |-> Append(t.made, "root"), at |-> k + 1]
    <3>1. \E c, m, a : u = [children |-> c, made |-> m, at |-> a]
      BY <2>1, Zenon DEF Child
    <3> QED BY <2>2, <3>1
  <2>4. u.made \in Seq(Kinds) /\ Len(u.made) = k + 1 /\ Last(u.made) = "root"
    <3>1. "root" \in Kinds
      BY DEF Kinds
    <3>2. Append(t.made, "root") \in Seq(Kinds) /\ Len(Append(t.made, "root")) = k + 1
      BY <3>1, <1>1, <1>2
    <3>3. Append(t.made, "root")[k + 1] = "root"
      BY <1>1, <1>2
    <3> QED BY <2>2, <3>2, <3>3 DEF Last
  <2>5. Grown(t.children, NodesOf(k), u.children, NodesOf(k + 1)) /\ k + 1 \in ToSet(u.children[t.at][segment])
    BY <2>2, <1>2, ChildGrows
  <2>6. u.children \in Contents(k + 1) /\ k + 1 \in NodesOf(k + 1)
    <3>1. k <= k
      OBVIOUS
    <3> QED BY <2>2, <3>1, NodesMore DEF IsChild
  <2>7. u \in Trees
    BY <2>2, <2>3, <2>4, <2>6, TreeOf
  <2> QED BY <2>2, <2>4, <2>5, <2>7, <1>1 DEF Reaches, Onwards, u
<1> QED BY <1>4, <1>5

LEMMA OnwardsTwice ==
  ASSUME NEW t \in Trees, NEW u \in Trees, NEW v \in Trees, Onwards(t, u), Onwards(u, v)
  PROVE  Onwards(t, v)
<1>1. Grown(t.children, NodesOf(Len(t.made)), v.children, NodesOf(Len(v.made)))
  BY DEF Onwards, Grown
<1>2. v.made = t.made \/ Last(v.made) = "root"
  BY DEF Onwards
<1> QED BY <1>1, <1>2 DEF Onwards

LEMMA OnwardsSame ==
  ASSUME NEW t \in Trees
  PROVE  Onwards(t, t)
BY InTrees, ContentsAre DEF Onwards, Grown

-----------------------------------------------------------------------------
(* Binding                                                                 *)

Here == [children |-> children, made |-> made, at |-> Root]

LEMMA PathIs ==
  ASSUME NEW path \in Paths
  PROVE  path \in Seq(Segments) /\ Len(path) \in Nat /\ Len(path) > 0 /\ path[1] = RootPath
<1>1. PICK p \in Seq(Names) : path = <<RootPath>> \o p
  <2>1. PICK p \in BoundedSeq(Names, Depth) : path = <<RootPath>> \o p
    BY DEF Paths
  <2>2. p \in Seq(Names)
    BY VfsAssumption DEF BoundedSeq, SeqOf
  <2> QED BY <2>1, <2>2
<1>2. <<RootPath>> \in Seq(Segments) /\ p \in Seq(Segments)
  BY DEF Segments
<1>3. <<RootPath>> \o p \in Seq(Segments) /\ Len(<<RootPath>> \o p) = 1 + Len(p) /\ (<<RootPath>> \o p)[1] = RootPath
  BY <1>2
<1>4. Len(p) \in Nat
  OBVIOUS
<1> QED BY <1>1, <1>3, <1>4

LEMMA HereIsTree ==
  ASSUME VfsTypeOK
  PROVE  Here \in Trees /\ Len(made) \in Nat /\ children \in Contents(Len(made)) /\ made \in Seq(Kinds)
<1>1. made \in Seq(Kinds) /\ children \in Contents(Len(made)) /\ Len(made) \in Nat
  BY DEF VfsTypeOK, Contents
<1>2. Root \in NodesOf(Len(made))
  BY <1>1, NodesMore
<1> QED BY <1>1, <1>2, TreeOf DEF Here

(* The trees on the way to the directory of a path.                        *)
Way(f, path, m) ==
  /\ f[0] = Here
  /\ \A i \in 0 .. m : f[i] \in Trees
  /\ \A i \in 1 .. m : Reaches(f[i - 1], f[i], path[i])
  /\ DirectoryOf(path) = f[m]

LEMMA WayThere ==
  ASSUME VfsTypeOK, NEW path \in Paths, NEW m \in Nat, m = Len(path) - 1
  PROVE  \E f : Way(f, path, m)
<1> DEFINE Step == [i \in 1 .. m |-> [t \in Trees |-> GetNode(t, path[i])]]
           h == CHOOSE g : g = [i \in 0 .. Len(path) - 1 |->
                                 IF i = 0 THEN [children |-> children, made |-> made, at |-> Root] ELSE GetNode(g[i - 1], path[i])]
<1>1. Here \in Trees
  BY HereIsTree
<1>2. \A i \in 1 .. m : path[i] \in Segments
  BY PathIs
<1>3. ASSUME NEW i \in 1 .. m, NEW t \in Trees
      PROVE  Step[i][t] = GetNode(t, path[i]) /\ Step[i][t] \in Trees
  <2>1. Step[i][t] = GetNode(t, path[i])
    BY Zenon
  <2> HIDE DEF Step
  <2> QED BY <2>1, <1>2, GetNodeReaches DEF Reaches
<1>4. DirectoryOf(path) = h[Len(path) - 1]
  BY Zenon DEF DirectoryOf
<1> HIDE DEF Step
<1>5. PICK f : IsRecursion(f, m, Here, Step) /\ \A i \in 0 .. m : f[i] \in Trees
  <2>1. \A i \in 1 .. m, t \in Trees : Step[i][t] \in Trees
    BY <1>3
  <2> QED BY <1>1, <2>1, Recursion
<1>6. f = [i \in 0 .. Len(path) - 1 |->
            IF i = 0 THEN [children |-> children, made |-> made, at |-> Root] ELSE GetNode(f[i - 1], path[i])]
  <2>1. ASSUME NEW i \in 0 .. m
        PROVE  f[i] = IF i = 0 THEN Here ELSE GetNode(f[i - 1], path[i])
    <3>1. f[i] = IF i = 0 THEN Here ELSE Step[i][f[i - 1]]
      BY <1>5 DEF IsRecursion
    <3>2. i # 0 => i \in 1 .. m /\ i - 1 \in 0 .. m
      OBVIOUS
    <3>3. i # 0 => Step[i][f[i - 1]] = GetNode(f[i - 1], path[i])
      BY <3>2, <1>3, <1>5
    <3> QED BY <3>1, <3>3
  <2>2. f = [i \in 0 .. m |-> f[i]]
    BY <1>5 DEF IsRecursion
  <2>3. f = [i \in 0 .. m |-> IF i = 0 THEN Here ELSE GetNode(f[i - 1], path[i])]
    BY <2>1, <2>2
  <2> QED BY <2>3 DEF Here
<1>7. h = [i \in 0 .. Len(path) - 1 |->
            IF i = 0 THEN [children |-> children, made |-> made, at |-> Root] ELSE GetNode(h[i - 1], path[i])]
  BY <1>6, Zenon
<1> HIDE DEF h
<1>8. ASSUME NEW i \in 0 .. m
      PROVE  h[i] = IF i = 0 THEN Here ELSE GetNode(h[i - 1], path[i])
  <2>1. i \in 0 .. Len(path) - 1
    OBVIOUS
  <2> QED BY <2>1, <1>7, Zenon DEF Here
<1>9. 0 \in 0 .. m
  OBVIOUS
<1>10. h[0] = Here /\ \A i \in 1 .. m : h[i] = GetNode(h[i - 1], path[i])
  BY <1>8, <1>9
<1> DEFINE G == {i \in 0 .. m : h[i] \in Trees}
<1>11. \A i \in 0 .. m : i \in G
  <2>1. 0 \in G
    BY <1>1, <1>9, <1>10
  <2>2. ASSUME NEW i \in 1 .. m, i - 1 \in G
        PROVE  i \in G
    <3>1. h[i - 1] \in Trees /\ path[i] \in Segments
      BY <2>2, <1>2
    <3>2. h[i] = GetNode(h[i - 1], path[i])
      BY <1>10
    <3>3. h[i] \in Trees
      BY <3>1, <3>2, GetNodeReaches DEF Reaches
    <3> QED BY <3>3
  <2> HIDE DEF G
  <2> QED BY <2>1, <2>2, Upwards
<1>12. \A i \in 0 .. m : h[i] \in Trees
  BY <1>11
<1>13. ASSUME NEW i \in 1 .. m
       PROVE  Reaches(h[i - 1], h[i], path[i])
  <2>1. h[i - 1] \in Trees
    BY <1>12
  <2> QED BY <2>1, <1>2, <1>10, GetNodeReaches
<1>14. DirectoryOf(path) = h[m]
  BY <1>4
<1> QED BY <1>10, <1>12, <1>13, <1>14 DEF Way

(* Each tree of the way goes onwards to the last.                          *)
LEMMA WayOnwards ==
  ASSUME NEW f, NEW path, NEW m \in Nat, Way(f, path, m)
  PROVE  \A i \in 0 .. m : Onwards(f[i], f[m])
<1> DEFINE G == {i \in 0 .. m : \A j \in 0 .. i : Onwards(f[j], f[i])}
<1>1. \A i \in 0 .. m : f[i] \in Trees
  BY DEF Way
<1>2. 0 \in G
  BY <1>1, OnwardsSame
<1>3. ASSUME NEW i \in 1 .. m, i - 1 \in G
      PROVE  i \in G
  <2>1. f[i - 1] \in Trees /\ f[i] \in Trees /\ Onwards(f[i - 1], f[i])
    BY <1>1 DEF Way, Reaches
  <2>2. ASSUME NEW j \in 0 .. i
        PROVE  Onwards(f[j], f[i])
    <3>1. CASE j = i
      BY <3>1, <2>1, OnwardsSame
    <3>2. CASE j # i
      <4>1. j \in 0 .. i - 1 /\ j \in 0 .. m
        BY <3>2
      <4>2. Onwards(f[j], f[i - 1]) /\ f[j] \in Trees
        BY <4>1, <1>1, <1>3
      <4> QED BY <4>2, <2>1, OnwardsTwice
    <3> QED BY <3>1, <3>2
  <2> QED BY <2>2
<1>4. \A i \in 0 .. m : i \in G
  <2> HIDE DEF G
  <2> QED BY <1>2, <1>3, Upwards
<1>5. m \in G
  BY <1>4
<1> QED BY <1>5

(* What is linked into the directory at the end of the way is what the     *)
(* path stands for, besides what it stood for.                             *)
LEMMA WayStands ==
  ASSUME NEW f, NEW path \in Paths, NEW m \in Nat, m = Len(path) - 1, Way(f, path, m),
         NEW d, NEW D, Grown(f[m].children, NodesOf(Len(f[m].made)), d, D)
  PROVE  f[m].at \in StandsIn(d, Front(path))
<1>1. path \in Seq(Segments) /\ Len(path) > 0 /\ m + 1 = Len(path)
  BY PathIs
<1>2. PICK u : StepsOf(u, d, D, path)
  BY <1>1, Stands DEF Grown
<1>3. StandsIn(d, Front(path)) = u[m]
  BY <1>1, <1>2, StandsFront DEF Grown
<1> DEFINE G == {i \in 0 .. m : f[i].at \in u[i]}
<1>4. 0 \in G
  BY <1>2 DEF StepsOf, Steps, Way, Here
<1>5. ASSUME NEW i \in 1 .. m, i - 1 \in G
      PROVE  i \in G
  <2>1. f[i - 1].at \in u[i - 1] /\ f[i].at \in ToSet(f[i].children[f[i - 1].at][path[i]])
    BY <1>5 DEF Way, Reaches
  <2>2. Onwards(f[i], f[m]) /\ Onwards(f[i - 1], f[i])
    <3>1. \A j \in 0 .. m : Onwards(f[j], f[m])
      BY WayOnwards
    <3>2. i \in 0 .. m
      OBVIOUS
    <3> QED BY <3>1, <3>2 DEF Way, Reaches
  <2>3. f[i - 1].at \in NodesOf(Len(f[i - 1].made))
    <3>1. f[i - 1] \in Trees
      BY DEF Way
    <3> QED BY <3>1, InTrees
  <2>4. f[i - 1].at \in NodesOf(Len(f[i].made)) /\ f[i - 1].at \in NodesOf(Len(f[m].made))
    BY <2>2, <2>3 DEF Onwards, Grown
  <2>5. path[i] \in Segments /\ i \in 1 .. Len(path)
    BY <1>1
  <2>6. f[i].at \in ToSet(f[m].children[f[i - 1].at][path[i]])
    BY <2>1, <2>2, <2>4, <2>5 DEF Onwards, Grown
  <2>7. f[i].at \in ToSet(d[f[i - 1].at][path[i]])
    BY <2>4, <2>5, <2>6 DEF Grown
  <2>8. f[i].at \in u[i]
    BY <2>1, <2>5, <2>7, <1>2 DEF StepsOf, Steps
  <2> QED BY <2>8
<1>6. \A i \in 0 .. m : i \in G
  <2> HIDE DEF G
  <2> QED BY <1>4, <1>5, Upwards
<1>7. f[m].at \in u[m]
  BY <1>6
<1> QED BY <1>3, <1>7

LEMMA LinkIs ==
  ASSUME NEW t \in Trees, NEW nodes \in Seq(NodesOf(Len(t.made))), NEW segment \in Segments,
         NEW d, d = Link(t, nodes, segment)
  PROVE  /\ d \in Contents(Len(t.made))
         /\ Grown(t.children, NodesOf(Len(t.made)), d, NodesOf(Len(t.made)))
         /\ ToSet(nodes) \subseteq ToSet(d[t.at][segment])
<1>1. PICK k \in Nat : k = Len(t.made)
  BY InTrees
<1>2. PICK c, at : c = t.children /\ at = t.at
  OBVIOUS
<1>3. c \in Contents(k) /\ at \in NodesOf(k) /\ nodes \in Seq(NodesOf(k))
  BY <1>1, <1>2, InTrees
<1>4. d = [c EXCEPT ![at][segment] = @ \o nodes]
  BY <1>2 DEF Link
<1>5. ASSUME NEW n \in NodesOf(k), NEW s \in Segments
      PROVE  /\ c[n][s] \in Seq(NodesOf(k))
             /\ d[n][s] = IF n = at /\ s = segment THEN c[n][s] \o nodes ELSE c[n][s]
  BY <1>3, <1>4 DEF Contents
<1>6. d \in Contents(k)
  <2>1. c[at][segment] \o nodes \in Seq(NodesOf(k))
    BY <1>3, <1>5
  <2> QED BY <2>1, <1>3, <1>4 DEF Contents
<1>7. ASSUME NEW n \in NodesOf(k), NEW s \in Segments
      PROVE  ToSet(c[n][s]) \subseteq ToSet(d[n][s]) /\ (n = at /\ s = segment => ToSet(nodes) \subseteq ToSet(d[n][s]))
  <2>1. ToSet(c[n][s] \o nodes) = ToSet(c[n][s]) \cup ToSet(nodes)
    BY <1>3, <1>5, JoinedSet
  <2> QED BY <2>1, <1>5
<1>8. Grown(c, NodesOf(k), d, NodesOf(k))
  BY <1>3, <1>6, <1>7, ContentsAre DEF Grown
<1> QED BY <1>1, <1>2, <1>3, <1>6, <1>7, <1>8

(* What a call adds stands under the path.                                 *)
Added(nodes, path) ==
  /\ made' \in Seq(Kinds) /\ children' \in Contents(Len(made'))
  /\ Grown(children, NodesOf(Len(made)), children', NodesOf(Len(made')))
  /\ ToSet(nodes) \subseteq StandsIn(children', path)

LEMMA BindAdds ==
  ASSUME VfsTypeOK, NEW nodes \in Seq(NodesOf(Len(made))), NEW path \in Paths, Bind(nodes, path)
  PROVE  Added(nodes, path) /\ (made' = made \/ Last(made') = "root")
<1>1. PICK m \in Nat : m = Len(path) - 1
  BY PathIs
<1>2. PICK f : Way(f, path, m)
  BY <1>1, WayThere
<1>3. Here \in Trees
  BY HereIsTree
<1>4. Onwards(Here, f[m]) /\ f[m] \in Trees
  <2>1. 0 \in 0 .. m /\ m \in 0 .. m /\ f[0] = Here
    BY <1>2 DEF Way
  <2>2. \A i \in 0 .. m : Onwards(f[i], f[m])
    BY <1>2, WayOnwards
  <2> QED BY <2>1, <2>2, <1>2 DEF Way
<1>5. Here.children = children /\ Here.made = made
  BY DEF Here
<1>6. PICK t \in Trees : t = f[m]
  BY <1>4
<1>7. Last(path) \in Segments /\ path \in Seq(Segments) /\ Len(path) > 0
  BY PathIs DEF Last
<1>8. children' = Link(t, nodes, Last(path)) /\ made' = t.made
  BY <1>2, <1>6 DEF Bind, Way
<1>9. PICK D : D = NodesOf(Len(t.made))
  OBVIOUS
<1>10. Grown(children, NodesOf(Len(made)), t.children, D) /\ (made' = made \/ Last(made') = "root")
  BY <1>4, <1>5, <1>6, <1>8, <1>9 DEF Onwards
<1>11. nodes \in Seq(NodesOf(Len(t.made)))
  BY <1>9, <1>10 DEF Grown
<1>12. PICK d : d = children' /\ d = Link(t, nodes, Last(path))
  BY <1>8
<1>13. /\ d \in Contents(Len(t.made)) /\ Grown(t.children, D, d, D)
       /\ ToSet(nodes) \subseteq ToSet(d[t.at][Last(path)])
  BY <1>7, <1>9, <1>11, <1>12, LinkIs
<1>14. t.at \in StandsIn(d, Front(path))
  BY <1>1, <1>2, <1>6, <1>9, <1>13, WayStands
<1>15. ToSet(nodes) \subseteq StandsIn(d, path)
  <2>1. Directories(d, D)
    BY <1>13 DEF Grown
  <2> QED BY <2>1, <1>7, <1>13, <1>14, LastStep
<1>16. Grown(children, NodesOf(Len(made)), d, D)
  BY <1>10, <1>13 DEF Grown
<1>17. t.made \in Seq(Kinds)
  BY InTrees
<1> QED BY <1>8, <1>9, <1>10, <1>12, <1>13, <1>15, <1>16, <1>17 DEF Added

-----------------------------------------------------------------------------
(* Creating                                                                *)

(* The node that is made is all that its path stands for.                  *)
LEMMA CreateAdds ==
  ASSUME VfsTypeOK, NEW path \in Paths, Create(path)
  PROVE  /\ Added(<<Len(made) + 1>>, path)
         /\ put' = put \cup {<<path, Len(made) + 1>>}
         /\ StandsIn(children, path) = {} /\ StandsIn(children', path) = {Len(made) + 1}
         /\ StandsIn(children, Front(path)) # {}
<1>1. PICK k \in Nat : k = Len(made)
  BY HereIsTree
<1>2. PICK c : c = children
  OBVIOUS
<1> DEFINE C == NodesOf(k)
           D == NodesOf(k + 1)
           q == Locate(Front(path))
<1>3. made \in Seq(Kinds) /\ c \in Contents(k) /\ Directories(c, C)
  BY <1>1, <1>2, HereIsTree, ContentsAre
<1>4. PICK i \in DOMAIN q :
        /\ Creates(q[i])
        /\ LET tree == Child([children |-> children, made |-> made], q[i], Last(path), KindOf(q[i])) IN
           /\ children' = tree.children
           /\ made' = tree.made
           /\ put' = put \cup {<<path, tree.at>>}
  BY DEF Create
<1>5. path \in Seq(Segments) /\ Len(path) > 0 /\ Len(path) > 1 /\ Last(path) \in Segments /\ Locate(path) = <<>>
  BY PathIs DEF Create, Last
<1>6. Front(path) \in Seq(Segments)
  <2>1. PICK m \in Nat : m = Len(path) - 1 /\ m <= Len(path)
    <3>1. Len(path) - 1 \in Nat /\ Len(path) - 1 <= Len(path)
      BY PathIs
    <3> QED BY <3>1
  <2>2. Front(path) = SubSeq(path, 1, m)
    BY <2>1 DEF Front
  <2> QED BY <2>1, <2>2, <1>5, Beginning DEF IsBeginning
<1>7. q \in Seq(C) /\ ToSet(q) = StandsIn(c, Front(path))
  <2>1. q = LocateIn(c, Front(path))
    BY <1>2, InChildren
  <2> QED BY <2>1, <1>3, <1>6, LocateStands
<1>8. StandsIn(c, path) = {}
  <2>1. ToSet(Locate(path)) = {}
    BY <1>5 DEF ToSet
  <2>2. Locate(path) = LocateIn(c, path)
    BY <1>2, InChildren
  <2> QED BY <2>1, <2>2, <1>3, <1>5, LocateStands
<1>9. PICK at \in C : at = q[i] /\ at \in StandsIn(c, Front(path))
  <2> HIDE DEF q
  <2> QED BY <1>7 DEF ToSet
<1>10. PICK kind \in Kinds : kind = KindOf(at)
  <2>1. KindOf(at) \in Kinds
    BY <1>4, <1>9 DEF Creates, Kinds
  <2> QED BY <2>1
<1> DEFINE tree == [children |-> c, made |-> made]
<1>11. tree.children = c /\ tree.made = made
  OBVIOUS
<1>12. PICK d : d = children' /\ d = Child(tree, at, Last(path), kind).children
  BY <1>2, <1>4, <1>9, <1>10
<1>13. made' = Child(tree, at, Last(path), kind).made /\ put' = put \cup {<<path, Child(tree, at, Last(path), kind).at>>}
  BY <1>2, <1>4, <1>9, <1>10
<1> HIDE DEF tree, q
<1>14. IsChild(d, c, k, at, Last(path)) /\ made' = Append(made, kind) /\ put' = put \cup {<<path, k + 1>>}
  <2>1. /\ IsChild(Child(tree, at, Last(path), kind).children, tree.children, k, at, Last(path))
        /\ Child(tree, at, Last(path), kind).made = Append(tree.made, kind)
        /\ Child(tree, at, Last(path), kind).at = k + 1
    <3>1. k = Len(tree.made) /\ tree.children \in Contents(k)
      BY <1>1, <1>3, <1>11
    <3>2. Last(path) \in Segments
      BY <1>5
    <3> QED BY <3>1, <3>2, ChildIs
  <2> QED BY <2>1, <1>11, <1>12, <1>13
<1>15. made' \in Seq(Kinds) /\ Len(made') = k + 1
  BY <1>1, <1>3, <1>14
<1>16. d \in Contents(k + 1) /\ Grown(c, C, d, D) /\ k + 1 \in ToSet(d[at][Last(path)])
  BY <1>3, <1>5, <1>14, ChildGrows DEF IsChild
<1>17. Directories(d, D)
  BY <1>16 DEF Grown
<1>18. k + 1 \in StandsIn(d, path)
  <2>1. at \in StandsIn(d, Front(path))
    BY <1>6, <1>9, <1>16, StandsMore
  <2> QED BY <2>1, <1>5, <1>16, <1>17, LastStep
<1>19. ASSUME NEW n \in D, NEW s \in Segments, NEW x \in ToSet(d[n][s])
       PROVE  x = k + 1 \/ (n \in C /\ x \in ToSet(c[n][s]))
  <2>1. CASE n = k + 1
    <3>1. d[n][s] = <<>>
      BY <2>1, <1>14 DEF IsChild
    <3> QED BY <3>1 DEF ToSet
  <2>2. CASE n \in C
    <3>1. c[n][s] \in Seq(C)
      BY <2>2, <1>3 DEF Contents
    <3>2. d[n][s] = Append(c[n][s], k + 1) \/ d[n][s] = c[n][s]
      BY <2>2, <1>14 DEF IsChild
    <3>3. PICK g \in Seq(C) : g = c[n][s]
      BY <3>1
    <3>4. ASSUME x \in ToSet(Append(g, k + 1))
          PROVE  x = k + 1 \/ x \in ToSet(g)
      <4>1. DOMAIN g = 1 .. Len(g) /\ DOMAIN Append(g, k + 1) = 1 .. Len(g) + 1 /\ Len(g) \in Nat
        OBVIOUS
      <4>2. PICK j \in 1 .. Len(g) + 1 : x = Append(g, k + 1)[j]
        BY <3>4, <4>1 DEF ToSet
      <4>3. CASE j = Len(g) + 1
        BY <4>2, <4>3
      <4>4. CASE j # Len(g) + 1
        <5>1. j \in 1 .. Len(g) /\ x = g[j]
          BY <4>1, <4>2, <4>4
        <5> QED BY <5>1, <4>1 DEF ToSet
      <4> QED BY <4>3, <4>4
    <3> QED BY <2>2, <3>2, <3>3, <3>4
  <2>3. n = k + 1 \/ n \in C
    <3>1. k <= k
      OBVIOUS
    <3> QED BY <3>1, NodesMore
  <2> QED BY <2>1, <2>2, <2>3
<1>20. StandsIn(d, Front(path)) \subseteq StandsIn(c, Front(path)) \cup {k + 1}
  <2>1. \A s \in Segments : d[k + 1][s] = <<>>
    BY <1>14 DEF IsChild
  <2>2. \A n \in D, s \in Segments : \A x \in ToSet(d[n][s]) : x = k + 1 \/ (n \in C /\ x \in ToSet(c[n][s]))
    BY <1>19
  <2>3. Alone(k + 1, c, C, d, D)
    BY <2>1, <2>2 DEF Alone
  <2> HIDE DEF C, D
  <2> QED BY <1>3, <1>6, <1>17, <2>3, NewAlone
<1>21. ASSUME NEW x \in StandsIn(d, path)
       PROVE  x = k + 1
  <2>1. PICK n \in StandsIn(d, Front(path)) : x \in ToSet(d[n][Last(path)])
    BY <1>5, <1>17, LastStep
  <2>2. n \in D
    BY <2>1, <1>6, <1>17, StandsWithin
  <2>3. x = k + 1 \/ (n \in C /\ x \in ToSet(c[n][Last(path)]))
    BY <2>1, <2>2, <1>5, <1>19
  <2>4. n \in C => n \in StandsIn(c, Front(path))
    <3>1. k + 1 \notin C
      BY NodesMore
    <3> QED BY <3>1, <2>1, <1>20
  <2>5. x # k + 1 => x \in StandsIn(c, path)
    BY <2>3, <2>4, <1>3, <1>5, LastStep
  <2> QED BY <2>5, <1>8
<1>22. StandsIn(d, path) = {k + 1}
  BY <1>18, <1>21
<1>23. ToSet(<<k + 1>>) = {k + 1}
  BY DEF ToSet
<1>24. Added(<<k + 1>>, path)
  BY <1>1, <1>2, <1>12, <1>15, <1>16, <1>22, <1>23 DEF Added
<1> QED BY <1>1, <1>2, <1>8, <1>9, <1>12, <1>14, <1>22, <1>24

-----------------------------------------------------------------------------
(* The invariant: all that was put is found, and as long as nothing was,   *)
(* the root stands for nothing and is where one is.                        *)
VfsInv ==
  /\ VfsTypeOK
  /\ put = {} => children[Root][RootPath] = <<>> /\ cwd = <<RootPath>>
  /\ \A p \in put : p[2] \in StandsIn(children, p[1])
  /\ put # {} => StandsIn(children, cwd) # {}

LEMMA RootFirst ==
  ASSUME NEW c, NEW D, Directories(c, D), NEW path \in Paths, StandsIn(c, path) # {}
  PROVE  c[Root][RootPath] # <<>> /\ StandsIn(c, <<RootPath>>) # {}
<1>1. path \in Seq(Segments) /\ Len(path) \in Nat /\ Len(path) > 0 /\ path[1] = RootPath
  BY PathIs
<1>2. PICK s : StepsOf(s, c, D, path)
  BY <1>1, Stands
<1> DEFINE m == Len(path)
           G == {i \in 0 .. m : i > 0 /\ s[i] # {} => s[1] # {}}
<1>3. 0 \in G
  BY <1>1
<1>4. ASSUME NEW i \in 1 .. m, i - 1 \in G
      PROVE  i \in G
  <2>1. CASE i = 1
    BY <2>1, <1>1
  <2>2. CASE i # 1
    <3>1. i - 1 > 0 /\ i \in 0 .. m /\ i - 1 \in 0 .. m
      BY <2>2
    <3>2. ASSUME s[i] # {} PROVE s[1] # {}
      <4>1. PICK x : x \in s[i]
        BY <3>2
      <4>2. PICK n \in s[i - 1] : x \in ToSet(c[n][path[i]])
        BY <4>1, <1>2 DEF StepsOf, Steps
      <4>3. s[i - 1] # {}
        BY <4>2
      <4> QED BY <4>3, <3>1, <1>4
    <3> QED BY <3>1, <3>2
  <2> QED BY <2>1, <2>2
<1>5. \A i \in 0 .. m : i \in G
  <2> HIDE DEF G
  <2> QED BY <1>1, <1>3, <1>4, Upwards
<1>6. s[m] # {} /\ m \in 0 .. m /\ m > 0
  BY <1>1, <1>2 DEF StepsOf
<1>7. s[1] # {}
  BY <1>5, <1>6
<1>8. PICK x : x \in s[1]
  BY <1>7
<1>9. x \in ToSet(c[Root][RootPath])
  <2>1. 1 \in 1 .. m /\ 1 - 1 = 0
    BY <1>1
  <2>2. s[0] = {Root} /\ \E n \in s[1 - 1] : x \in ToSet(c[n][path[1]])
    BY <1>2, <1>8, <2>1 DEF StepsOf, Steps
  <2> QED BY <2>1, <2>2, <1>1
<1>10. <<RootPath>> \in Seq(Segments) /\ Len(<<RootPath>>) = 1 /\ <<RootPath>>[1] = RootPath
  BY DEF Segments
<1>11. PICK u : StepsOf(u, c, D, <<RootPath>>)
  BY <1>10, Stands
<1>12. x \in u[1]
  <2>1. 1 \in 1 .. 1 /\ 1 - 1 = 0
    OBVIOUS
  <2>2. u[0] = {Root} /\ (x \in u[1] <=> \E n \in u[1 - 1] : x \in ToSet(c[n][RootPath]))
    BY <1>10, <1>11, <2>1 DEF StepsOf, Steps
  <2> QED BY <2>1, <2>2, <1>9
<1>13. x \in StandsIn(c, <<RootPath>>)
  BY <1>10, <1>11, <1>12 DEF StepsOf
<1>14. c[Root][RootPath] # <<>>
  BY <1>9 DEF ToSet
<1> QED BY <1>13, <1>14

LEMMA VfsInitInv == VfsInit => VfsInv
<1> SUFFICES ASSUME VfsInit PROVE VfsInv
  OBVIOUS
<1>1. made = <<>> /\ cwd = <<RootPath>> /\ put = {} /\ Len(made) = 0 /\ made \in Seq(Kinds)
  BY DEF VfsInit
<1>2. NodesOf(0) = Given \cup {Root} /\ Root \notin Given
  BY VfsAssumption DEF NodesOf, Root
<1>3. \A n \in Given : Held[n] \in [Segments -> Seq(NodesOf(0))]
  <2>1. Inside \subseteq NodesOf(0)
    BY <1>2 DEF Given
  <2> QED BY <2>1, VfsAssumption
<1>4. Empty \in [Segments -> Seq(NodesOf(0))] /\ RootPath \in Segments /\ Empty[RootPath] = <<>>
  BY DEF Empty, Segments
<1>5. children = [n \in NodesOf(0) |-> IF n = Root THEN Empty ELSE Held[n]]
  BY <1>2 DEF VfsInit
<1>6. children \in [NodesOf(0) -> [Segments -> Seq(NodesOf(0))]]
  BY <1>2, <1>3, <1>4, <1>5
<1>7. children[Root] = Empty
  BY <1>2, <1>5
<1>8. <<RootPath>> \in Paths
  <2>1. <<>> \in BoundedSeq(Names, Depth)
    <3>1. <<>> \in [1 .. 0 -> Names] /\ 0 \in 0 .. Depth
      BY VfsAssumption
    <3> QED BY <3>1 DEF BoundedSeq, SeqOf
  <2>2. <<RootPath>> = <<RootPath>> \o <<>>
    OBVIOUS
  <2> QED BY <2>1, <2>2 DEF Paths
<1>9. VfsTypeOK
  BY <1>1, <1>6, <1>8 DEF VfsTypeOK
<1> QED BY <1>1, <1>4, <1>7, <1>9 DEF VfsInv

(* What a call keeps that adds nodes.                                      *)
LEMMA AddKeeps ==
  ASSUME VfsInv, NEW nodes, NEW path \in Paths, Added(nodes, path), NEW n \in ToSet(nodes),
         put' = put \cup {<<path, x>> : x \in ToSet(nodes)}, cwd' = cwd
  PROVE  VfsInv' /\ \A p \in Paths : StandsIn(children, p) \subseteq StandsIn(children', p)
<1> DEFINE C == NodesOf(Len(made))
           D == NodesOf(Len(made'))
<1>1. VfsTypeOK /\ Grown(children, C, children', D) /\ Directories(children', D)
  BY DEF VfsInv, Added, Grown
<1>2. \A p \in Paths : p \in Seq(Segments) /\ StandsIn(children, p) \subseteq StandsIn(children', p)
  BY <1>1, PathIs, StandsMore
<1>3. ToSet(nodes) \subseteq StandsIn(children', path) /\ StandsIn(children', path) \subseteq D
  BY <1>1, <1>2, StandsWithin DEF Added
<1>4. VfsTypeOK'
  <2>1. put \subseteq Paths \X C /\ cwd \in Paths /\ C \subseteq D
    BY <1>1 DEF VfsTypeOK, Grown
  <2>2. put' \subseteq Paths \X D
    BY <2>1, <1>3
  <2>3. made' \in Seq(Kinds) /\ children' \in [D -> [Segments -> Seq(D)]]
    BY DEF Added, Contents
  <2> QED BY <2>1, <2>2, <2>3 DEF VfsTypeOK
<1>5. put' # {}
  OBVIOUS
<1>6. ASSUME NEW p \in put'
      PROVE  p[2] \in StandsIn(children', p[1])
  <2>1. CASE p \in put
    <3>1. p[2] \in StandsIn(children, p[1]) /\ p[1] \in Paths
      BY <2>1, <1>1 DEF VfsInv, VfsTypeOK
    <3> QED BY <3>1, <1>2
  <2>2. CASE p \notin put
    <3>1. PICK x \in ToSet(nodes) : p = <<path, x>>
      BY <2>2
    <3> QED BY <3>1, <1>3
  <2> QED BY <2>1, <2>2
<1>7. StandsIn(children', cwd') # {}
  <2>1. CASE put # {}
    <3>1. StandsIn(children, cwd) # {} /\ cwd \in Paths
      BY <2>1, <1>1 DEF VfsInv, VfsTypeOK
    <3> QED BY <3>1, <1>2
  <2>2. CASE put = {}
    <3>1. cwd' = <<RootPath>>
      BY <2>2 DEF VfsInv
    <3>2. StandsIn(children', path) # {}
      BY <1>3
    <3> QED BY <3>1, <3>2, <1>1, RootFirst
  <2> QED BY <2>1, <2>2
<1> QED BY <1>2, <1>4, <1>5, <1>6, <1>7 DEF VfsInv

(* What no step does.                                                      *)
Hides ==
  ~(/\ \A path \in Paths : StandsFor(path) \subseteq StandsFor(path)'
    /\ made' # made /\ Last(made') # "root" =>
         \A p \in put' \ put : StandsFor(p[1]) = {} /\ StandsFor(p[1])' = {p[2]})

LEMMA BindKeeps ==
  ASSUME VfsInv, NEW nodes \in Seq(NodesOf(Len(made))), nodes # <<>>, NEW path \in Paths, Bind(nodes, path)
  PROVE  VfsInv' /\ ~Hides
<1>1. Added(nodes, path) /\ (made' = made \/ Last(made') = "root")
  BY BindAdds DEF VfsInv
<1>2. PICK n : n \in ToSet(nodes)
  <2>1. 1 \in DOMAIN nodes
    OBVIOUS
  <2> QED BY <2>1 DEF ToSet
<1>3. put' = put \cup {<<path, x>> : x \in ToSet(nodes)} /\ cwd' = cwd
  BY DEF Bind
<1>4. VfsInv' /\ \A p \in Paths : StandsIn(children, p) \subseteq StandsIn(children', p)
  BY <1>1, <1>2, <1>3, AddKeeps
<1> QED BY <1>1, <1>4, InChildren DEF Hides

LEMMA CreateKeeps ==
  ASSUME VfsInv, NEW path \in Paths, Create(path)
  PROVE  VfsInv' /\ ~Hides
<1>1. PICK n : n = Len(made) + 1
  OBVIOUS
<1>2. /\ Added(<<n>>, path) /\ put' = put \cup {<<path, n>>}
      /\ StandsIn(children, path) = {} /\ StandsIn(children', path) = {n}
  BY <1>1, CreateAdds DEF VfsInv
<1>3. ToSet(<<n>>) = {n} /\ cwd' = cwd
  BY DEF ToSet, Create
<1>4. VfsInv' /\ \A p \in Paths : StandsIn(children, p) \subseteq StandsIn(children', p)
  <2>1. put' = put \cup {<<path, x>> : x \in ToSet(<<n>>)} /\ n \in ToSet(<<n>>)
    BY <1>2, <1>3
  <2> QED BY <2>1, <1>2, <1>3, AddKeeps
<1>5. ASSUME NEW p \in put' \ put
      PROVE  StandsFor(p[1]) = {} /\ StandsFor(p[1])' = {p[2]}
  <2>1. p = <<path, n>>
    BY <1>2
  <2>2. StandsFor(path) = {} /\ StandsFor(path)' = {n}
    BY <1>2, InChildren
  <2> QED BY <2>1, <2>2
<1> QED BY <1>4, <1>5, InChildren DEF Hides

LEMMA SetCwdKeeps ==
  ASSUME VfsInv, NEW path, SetCwd(path)
  PROVE  VfsInv' /\ ~Hides
<1>1. PICK q \in Paths : q = Absolute(path)
  BY DEF SetCwd
<1>2. Locate(q) # <<>> /\ cwd' = q /\ children' = children /\ made' = made /\ put' = put
  BY <1>1 DEF SetCwd
<1>3. Directories(children, NodesOf(Len(made))) /\ q \in Seq(Segments)
  BY HereIsTree, ContentsAre, PathIs DEF VfsInv
<1>4. StandsIn(children, q) # {}
  <2>1. LocateIn(children, q) \in Seq(NodesOf(Len(made))) /\ ToSet(LocateIn(children, q)) = StandsIn(children, q)
    BY <1>3, LocateStands
  <2>2. PICK g \in Seq(NodesOf(Len(made))) : g = Locate(q)
    BY <2>1, InChildren
  <2>3. 1 \in DOMAIN g
    BY <2>2, <1>2
  <2>4. g[1] \in ToSet(g)
    BY <2>3 DEF ToSet
  <2> QED BY <2>1, <2>2, <2>4, InChildren
<1>5. put # {}
  BY <1>3, <1>4, RootFirst DEF VfsInv
<1>6. VfsTypeOK'
  BY <1>2 DEF VfsInv, VfsTypeOK
<1>7. VfsInv'
  BY <1>2, <1>4, <1>5, <1>6 DEF VfsInv
<1>8. \A p : StandsFor(p)' = StandsFor(p)
  BY <1>2, InChildren
<1> QED BY <1>2, <1>7, <1>8 DEF Hides

LEMMA VfsStep == VfsInv /\ [VfsNext]_vfs_vars => VfsInv' /\ ~Hides
<1> SUFFICES ASSUME VfsInv, [VfsNext]_vfs_vars PROVE VfsInv' /\ ~Hides
  OBVIOUS
<1>1. ASSUME NEW path \in Paths, NEW n \in Attached, Attach(n, path)
      PROVE  VfsInv' /\ ~Hides
  <2>1. n \in NodesOf(Len(made))
    BY DEF NodesOf, Given
  <2>2. <<n>> \in Seq(NodesOf(Len(made))) /\ <<n>> # <<>>
    BY <2>1
  <2> QED BY <1>1, <2>2, BindKeeps DEF Attach
<1>2. ASSUME NEW path \in Paths, NEW from \in Paths, BindAgain(from, path)
      PROVE  VfsInv' /\ ~Hides
  <2>1. Directories(children, NodesOf(Len(made))) /\ from \in Seq(Segments)
    BY HereIsTree, ContentsAre, PathIs DEF VfsInv
  <2>2. Locate(from) \in Seq(NodesOf(Len(made)))
    BY <2>1, LocateStands, InChildren
  <2> QED BY <1>2, <2>2, BindKeeps DEF BindAgain
<1>3. ASSUME NEW path \in Paths, Create(path)
      PROVE  VfsInv' /\ ~Hides
  BY <1>3, CreateKeeps
<1>4. ASSUME NEW path, SetCwd(path)
      PROVE  VfsInv' /\ ~Hides
  BY <1>4, SetCwdKeeps
<1>5. ASSUME UNCHANGED vfs_vars
      PROVE  VfsInv' /\ ~Hides
  <2>1. children' = children /\ made' = made /\ cwd' = cwd /\ put' = put
    BY <1>5 DEF vfs_vars
  <2>2. VfsInv'
    BY <2>1 DEF VfsInv, VfsTypeOK
  <2>3. \A p : StandsFor(p)' = StandsFor(p)
    BY <2>1, InChildren
  <2> QED BY <2>1, <2>2, <2>3 DEF Hides
<1> QED BY <1>1, <1>2, <1>3, <1>4, <1>5 DEF VfsNext

LEMMA VfsInvariant == VfsSpec => []VfsInv
BY VfsInitInv, VfsStep, PTL DEF VfsSpec

LEMMA InvFinds == VfsInv => PutIsFound
<1> SUFFICES ASSUME VfsInv PROVE PutIsFound
  OBVIOUS
<1>1. Directories(children, NodesOf(Len(made))) /\ VfsTypeOK
  BY HereIsTree, ContentsAre DEF VfsInv
<1>2. \A q \in Paths : ToSet(Locate(q)) = StandsIn(children, q)
  BY <1>1, LocateStands, PathIs, InChildren
<1>3. ASSUME NEW p \in put
      PROVE  p[2] \in ToSet(Locate(p[1]))
  <2>1. p[1] \in Paths /\ p[2] \in StandsIn(children, p[1])
    BY <1>1 DEF VfsInv, VfsTypeOK
  <2> QED BY <2>1, <1>2
<1>4. ASSUME put # {}, Locate(cwd) = <<>>
      PROVE  FALSE
  <2>1. ToSet(Locate(cwd)) = {}
    BY <1>4 DEF ToSet
  <2>2. cwd \in Paths /\ StandsIn(children, cwd) # {}
    BY <1>1, <1>4 DEF VfsInv, VfsTypeOK
  <2> QED BY <2>1, <2>2, <1>2
<1> QED BY <1>3, <1>4 DEF PutIsFound

(* For any nodes and names, paths of any length and directories that are   *)
(* bound over each other in any order: what was bound or created is found  *)
(* under its path from then on, and so is the current directory.           *)
THEOREM PutStaysFound == VfsSpec => []PutIsFound
BY VfsInvariant, InvFinds, PTL

(* No step takes away what a path stands for, and a file is created only   *)
(* where the path stood for nothing: bind's directories, the copies of     *)
(* lists that the shell binds, and the new node under a parent that is on  *)
(* its own path included.                                                  *)
THEOREM NothingIsHidden == VfsSpec => NothingHidden
<1>1. VfsInv /\ [VfsNext]_vfs_vars =>
        [/\ \A path \in Paths : StandsFor(path) \subseteq StandsFor(path)'
         /\ made' # made /\ Last(made') # "root" =>
              \A p \in put' \ put : StandsFor(p[1]) = {} /\ StandsFor(p[1])' = {p[2]}]_vfs_vars
  BY VfsStep DEF Hides
<1> QED BY <1>1, VfsInvariant, PTL DEF VfsSpec, NothingHidden

=============================================================================
