-------------------------- MODULE Scheduler_proofs --------------------------
(***************************************************************************)
(* Theorems about two parts of the scheduler.  The pools of threads, for   *)
(* any number of pools of any size: what a pool has free and what is held  *)
(* of it add up, although thread.release gives back another thread's bit.  *)
(* The clock, for words of any width and with the interrupt between any    *)
(* two stores of a thread: no tick is lost between the drift and the       *)
(* count, the count moves gently while the drift is positive and leaps     *)
(* when it is negative, and a new resolution is not forgotten.             *)
(***************************************************************************)
EXTENDS ThreadPools, PitClock, FiniteSetTheorems, TLAPS

-----------------------------------------------------------------------------
(* The pools of threads                                                    *)

Below == {ss \in Nat \X Nat : ss[1] < ss[2]}

(* A set of natural numbers has a least one, and Min finds it.             *)
LEMMA MinOfNats ==
  ASSUME NEW B, B \subseteq Nat, B # {}
  PROVE  Min(B) \in B /\ \A y \in B : Min(B) <= y
<1>1. IsWellFoundedOn(Below, Nat)
  BY NatLessThanWellFounded DEF OpToRel, Below
<1>2. PICK x \in B : \A y \in B : ~(<<y, x>> \in Below)
  BY <1>1, WFMin, Zenon
<1>3. ASSUME NEW y \in B
      PROVE  x <= y
  <2>1. x \in Nat /\ y \in Nat /\ <<y, x>> \in Nat \X Nat
    OBVIOUS
  <2>2. ~(<<y, x>>[1] < <<y, x>>[2])
    BY <1>2, <2>1, Zenon DEF Below
  <2> QED BY <2>1, <2>2
<1>4. Min(B) \in B /\ \A y \in B : Min(B) <= y
  BY <1>3, Zenon DEF Min
<1> QED BY <1>4

(* bsf finds a bit that is set.                                            *)
LEMMA LowestSetBit ==
  ASSUME NEW B, B \subseteq Slots, B # {}
  PROVE  Min(B) \in B
<1>1. B \subseteq Nat
  BY PoolsAssumption DEF Slots
<1> QED BY <1>1, MinOfNats, Zenon

LEMMA InRing ==
  ASSUME NEW s \in Seq(Pools)
  PROVE  ToSet(s) = {s[i] : i \in 1 .. Len(s)}
BY DEF ToSet

(* Adding a pool keeps the pools that were in the ring.                    *)
LEMMA AddedToRing ==
  ASSUME NEW s \in Seq(Pools), NEW p \in Pools
  PROVE  /\ <<p>> \o s \in Seq(Pools)
         /\ ToSet(<<p>> \o s) = {p} \cup ToSet(s)
<1>1. <<p>> \o s \in Seq(Pools) /\ Len(<<p>> \o s) = Len(s) + 1
  OBVIOUS
<1>2. \A i \in 1 .. Len(s) + 1 : (<<p>> \o s)[i] = IF i = 1 THEN p ELSE s[i - 1]
  OBVIOUS
<1>3. \A i \in 1 .. Len(s) : (<<p>> \o s)[i + 1] = s[i]
  BY <1>2
<1> DEFINE q == <<p>> \o s
<1>4. ToSet(q) = {q[i] : i \in 1 .. Len(s) + 1} /\ ToSet(s) = {s[i] : i \in 1 .. Len(s)}
  BY <1>1, InRing
<1>5. \A i \in 1 .. Len(s) : i + 1 \in 1 .. Len(s) + 1
  OBVIOUS
<1>6. \A i \in 1 .. Len(s) + 1 : i = 1 \/ i - 1 \in 1 .. Len(s)
  OBVIOUS
<1>7. q[1] = p /\ 1 \in 1 .. Len(s) + 1
  BY <1>2
<1> HIDE DEF q
<1>8. ToSet(q) = {p} \cup ToSet(s)
  <2>1. \A x : x \in ToSet(q) => x \in {p} \cup ToSet(s)
    <3>1. \A i \in 1 .. Len(s) + 1 : q[i] = p \/ \E j \in 1 .. Len(s) : q[i] = s[j]
      BY <1>2, <1>6 DEF q
    <3> QED BY <1>4, <3>1
  <2>2. \A j \in 1 .. Len(s) : \E i \in 1 .. Len(s) + 1 : s[j] = q[i]
    BY <1>3, <1>5 DEF q
  <2>3. \A x : x \in ToSet(s) => x \in ToSet(q)
    BY <1>4, <2>2
  <2>4. p \in ToSet(q)
    BY <1>4, <1>7
  <2> QED BY <2>1, <2>3, <2>4, Zenon
<1> QED BY <1>1, <1>8 DEF q

-----------------------------------------------------------------------------
(* Counting the free and the held threads                                  *)

CountOf(p) ==
  /\ IsFiniteSet(bitmap[p]) /\ IsFiniteSet(Holdings(p))
  /\ Cardinality(bitmap[p]) + Held(p) = N

(* A pool that nobody added has no free thread and none that is held.      *)
UnusedPools ==
  \A p \in Pools \ ToSet(ring) : bitmap[p] = {} /\ \A n \in Slots : holders[<<p, n>>] = 0

EmptyWhenOut == result = "out_of_thread" => \A p \in ToSet(ring) : bitmap[p] = {}

CountInv ==
  /\ TypeOK
  /\ \A p \in ToSet(ring) : CountOf(p)
  /\ UnusedPools
  /\ EmptyWhenOut

LEMMA PoolOfRing ==
  ASSUME TypeOK
  PROVE  \A p \in ToSet(ring) : p \in Pools
BY DEF TypeOK, ToSet

LEMMA ThreadIsPair ==
  ASSUME NEW t \in Threads
  PROVE  t = <<t[1], t[2]>> /\ t[1] \in Pools /\ t[2] \in Slots
BY DEF Threads

PairsOf(h, p) == UNION {{n} \X (1 .. h[<<p, n>>]) : n \in Slots}

LEMMA PairIn ==
  ASSUME NEW h, NEW p, NEW n, NEW k
  PROVE  <<n, k>> \in PairsOf(h, p) <=> n \in Slots /\ k \in 1 .. h[<<p, n>>]
<1>1. \A m, K : <<n, k>> \in {m} \X K <=> n = m /\ k \in K
  OBVIOUS
<1>2. <<n, k>> \in PairsOf(h, p) <=> \E m \in Slots : <<n, k>> \in {m} \X (1 .. h[<<p, m>>])
  BY Zenon DEF PairsOf
<1> QED BY <1>1, <1>2, Zenon

LEMMA OnlyPairs == \A h, p, x : x \in PairsOf(h, p) => x = <<x[1], x[2]>>
<1> SUFFICES ASSUME NEW h, NEW p, NEW x, x \in PairsOf(h, p)
             PROVE  x = <<x[1], x[2]>>
  OBVIOUS
<1>1. PICK m \in Slots : x \in {m} \X (1 .. h[<<p, m>>])
  BY Zenon DEF PairsOf
<1> QED BY <1>1

LEMMA HoldingsOf ==
  ASSUME NEW p
  PROVE  Holdings(p) = PairsOf(holders, p) /\ Holdings(p)' = PairsOf(holders', p)
BY DEF Holdings, PairsOf

(* One holder more.                                                        *)
HasOneMore(g, h, p, n, k) ==
  /\ g[<<p, n>>] = k /\ h[<<p, n>>] = k + 1
  /\ \A m \in Slots \ {n} : h[<<p, m>>] = g[<<p, m>>]

LEMMA OneMore ==
  \A g, h, p : \A n \in Slots, k \in Nat : HasOneMore(g, h, p, n, k) =>
    PairsOf(h, p) = PairsOf(g, p) \cup {<<n, k + 1>>} /\ <<n, k + 1>> \notin PairsOf(g, p)
<1> SUFFICES ASSUME NEW g, NEW h, NEW p, NEW n \in Slots, NEW k \in Nat,
                    HasOneMore(g, h, p, n, k)
             PROVE  /\ PairsOf(h, p) = PairsOf(g, p) \cup {<<n, k + 1>>}
                    /\ <<n, k + 1>> \notin PairsOf(g, p)
  OBVIOUS
<1>0. /\ g[<<p, n>>] = k /\ h[<<p, n>>] = k + 1
      /\ \A m \in Slots \ {n} : h[<<p, m>>] = g[<<p, m>>]
  BY DEF HasOneMore
<1>1. 1 .. k + 1 = (1 .. k) \cup {k + 1} /\ k + 1 \notin 1 .. k
  OBVIOUS
<1>2. <<n, k + 1>> \notin PairsOf(g, p)
  BY <1>0, <1>1, PairIn, Zenon
<1>3. ASSUME NEW m, NEW l
      PROVE  <<m, l>> \in PairsOf(h, p) <=> <<m, l>> \in PairsOf(g, p) \/ (m = n /\ l = k + 1)
  <2>1. CASE m = n
    BY <1>0, <1>1, <2>1, PairIn
  <2>2. CASE m # n
    BY <1>0, <2>2, PairIn
  <2> QED BY <2>1, <2>2
<1>4. \A m, l : <<m, l>> = <<n, k + 1>> <=> m = n /\ l = k + 1
  OBVIOUS
<1>5. \A x : x \in PairsOf(h, p) <=> x \in PairsOf(g, p) \cup {<<n, k + 1>>}
  <2>1. \A m, l : <<m, l>> \in PairsOf(h, p) <=> <<m, l>> \in PairsOf(g, p) \cup {<<n, k + 1>>}
    BY <1>3, <1>4, Zenon
  <2>2. ASSUME NEW x \in PairsOf(h, p)
        PROVE  x \in PairsOf(g, p) \cup {<<n, k + 1>>}
    <3>1. x = <<x[1], x[2]>>
      BY <2>2, OnlyPairs, Zenon
    <3>2. <<x[1], x[2]>> \in PairsOf(h, p)
      BY <2>2, <3>1, Zenon
    <3>3. <<x[1], x[2]>> \in PairsOf(g, p) \cup {<<n, k + 1>>}
      BY <2>1, <3>2, Zenon
    <3> QED BY <3>1, <3>3, Zenon
  <2>3. ASSUME NEW x \in PairsOf(g, p)
        PROVE  x \in PairsOf(h, p)
    <3>1. x = <<x[1], x[2]>>
      BY <2>3, OnlyPairs, Zenon
    <3>2. <<x[1], x[2]>> \in PairsOf(g, p) \cup {<<n, k + 1>>}
      BY <2>3, <3>1, Zenon
    <3>3. <<x[1], x[2]>> \in PairsOf(h, p)
      BY <2>1, <3>2, Zenon
    <3> QED BY <3>1, <3>3, Zenon
  <2>4. <<n, k + 1>> \in PairsOf(h, p)
    BY <2>1, Zenon
  <2> QED BY <2>2, <2>3, <2>4, Zenon
<1> QED BY <1>2, <1>5, Zenon

(* The pools whose bits and holders a step leaves alone keep their count.  *)
LEMMA CountKept ==
  ASSUME NEW p, CountOf(p), bitmap'[p] = bitmap[p],
         \A n \in Slots : holders'[<<p, n>>] = holders[<<p, n>>]
  PROVE  CountOf(p)'
<1>1. PairsOf(holders', p) = PairsOf(holders, p)
  BY DEF PairsOf
<1>2. Holdings(p)' = Holdings(p)
  BY <1>1, HoldingsOf
<1> QED BY <1>2 DEF CountOf, Held

LEMMA CountAcquired ==
  ASSUME CountInv, Acquire
  PROVE  CountInv'
<1>1. PICK i \in 1 .. Len(ring) :
        LET p == ring[i]  n == Min(bitmap[p])  t == <<p, n>> IN
        /\ bitmap[p] # {}
        /\ bitmap' = [bitmap EXCEPT ![p] = @ \ {n}]
        /\ magic' = magic \cup {t}
        /\ status' = status \ {t}
        /\ linked' = linked \ {t}
        /\ initialized' = initialized \ {t}
        /\ holders' = [holders EXCEPT ![t] = @ + 1]
        /\ result' = "acquired"
        /\ ring' = ring
  BY DEF Acquire
<1>2. PICK p \in Pools : p = ring[i] /\ p \in ToSet(ring)
  BY DEF CountInv, TypeOK, ToSet
<1>3. bitmap[p] \subseteq Slots
  BY DEF CountInv, TypeOK
<1>4. PICK n \in Slots : n = Min(bitmap[p]) /\ n \in bitmap[p]
  BY <1>1, <1>2, <1>3, LowestSetBit
<1>5. /\ bitmap' = [bitmap EXCEPT ![p] = @ \ {n}]
      /\ magic' = magic \cup {<<p, n>>} /\ status' = status \ {<<p, n>>}
      /\ linked' = linked \ {<<p, n>>} /\ initialized' = initialized \ {<<p, n>>}
      /\ holders' = [holders EXCEPT ![<<p, n>>] = @ + 1]
      /\ result' = "acquired" /\ ring' = ring
  BY <1>1, <1>2, <1>4
<1>6. <<p, n>> \in Threads /\ TypeOK /\ UnusedPools
  BY DEF Threads, CountInv
<1>7. holders' \in [Threads -> Nat] /\ bitmap' \in [Pools -> SUBSET Slots]
  BY <1>5, <1>6 DEF TypeOK
<1>8. TypeOK'
  BY <1>5, <1>6, <1>7 DEF TypeOK
<1>9. /\ bitmap'[p] = bitmap[p] \ {n} /\ holders'[<<p, n>>] = holders[<<p, n>>] + 1
      /\ \A m \in Slots \ {n} : holders'[<<p, m>>] = holders[<<p, m>>]
      /\ \A q \in Pools \ {p} : bitmap'[q] = bitmap[q]
                               /\ \A m \in Slots : holders'[<<q, m>>] = holders[<<q, m>>]
  BY <1>5, <1>6 DEF TypeOK, Threads
<1>10. CountOf(p)'
  <2>1. PICK h \in Nat : h = holders[<<p, n>>]
    BY <1>6 DEF TypeOK
  <2>0. holders[<<p, n>>] = h /\ holders'[<<p, n>>] = h + 1
    BY <1>9, <2>1
  <2>2. PairsOf(holders', p) = PairsOf(holders, p) \cup {<<n, h + 1>>} /\ <<n, h + 1>> \notin PairsOf(holders, p)
    <3>1. HasOneMore(holders, holders', p, n, h)
      BY <1>9, <2>0 DEF HasOneMore
    <3> QED BY <3>1, OneMore, Zenon
  <2>3. Holdings(p)' = Holdings(p) \cup {<<n, h + 1>>}
    BY <2>2, HoldingsOf
  <2>4. <<n, h + 1>> \notin Holdings(p)
    BY <2>2, HoldingsOf
  <2>5. CountOf(p)
    BY <1>2 DEF CountInv
  <2>6. /\ IsFiniteSet(Holdings(p)')
        /\ Cardinality(Holdings(p)') = Cardinality(Holdings(p)) + 1
    BY <2>3, <2>4, <2>5, FS_AddElement DEF CountOf
  <2>7. /\ IsFiniteSet(bitmap'[p])
        /\ Cardinality(bitmap'[p]) = Cardinality(bitmap[p]) - 1
    BY <1>4, <1>9, <2>5, FS_RemoveElement DEF CountOf
  <2>8. Cardinality(bitmap[p]) \in Nat /\ Cardinality(Holdings(p)) \in Nat
    BY <2>5, FS_CardinalityType DEF CountOf
  <2> QED BY <2>5, <2>6, <2>7, <2>8, PoolsAssumption DEF CountOf, Held
<1>11. \A q \in ToSet(ring') : CountOf(q)'
  BY <1>5, <1>6, <1>9, <1>10, CountKept, PoolOfRing DEF CountInv
<1>12. UnusedPools'
  BY <1>2, <1>5, <1>6, <1>9 DEF UnusedPools
<1>13. EmptyWhenOut'
  BY <1>5 DEF EmptyWhenOut
<1> QED BY <1>8, <1>11, <1>12, <1>13 DEF CountInv

LEMMA CountReleased ==
  ASSUME CountInv, NEW t \in Threads, Release(t)
  PROVE  CountInv'
<1>1. PICK p \in Pools, s \in Slots : t = <<p, s>>
  BY ThreadIsPair, Zenon
<1>2. TypeOK /\ UnusedPools /\ holders[t] > 0 /\ holders[t] \in Nat
  BY DEF CountInv, Release, TypeOK
<1>3. p \in ToSet(ring)
  BY <1>1, <1>2 DEF UnusedPools
<1>4. CASE t \notin magic \/ t \in status \/ t \in linked
  <2>1. result' = "in_use" /\ UNCHANGED <<ring, bitmap, magic, status, linked, initialized, holders>>
    BY <1>4 DEF Release
  <2>2. \A q \in ToSet(ring') : CountOf(q)'
    BY <2>1, CountKept DEF CountInv
  <2> QED BY <1>2, <2>1, <2>2 DEF CountInv, TypeOK, UnusedPools, EmptyWhenOut
<1>5. CASE /\ ~(t \notin magic \/ t \in status \/ t \in linked)
           /\ ReleasedSlot(t[2]) \notin Slots \/ ReleasedSlot(t[2]) \in bitmap[t[1]]
  <2>1. /\ result' = "sanity" /\ initialized' = initialized \ {t}
        /\ UNCHANGED <<ring, bitmap, magic, status, linked, holders>>
    BY <1>5 DEF Release
  <2>2. \A q \in ToSet(ring') : CountOf(q)'
    BY <2>1, CountKept DEF CountInv
  <2> QED BY <1>2, <2>1, <2>2 DEF CountInv, TypeOK, UnusedPools, EmptyWhenOut
<1>6. CASE /\ ~(t \notin magic \/ t \in status \/ t \in linked)
           /\ ~(ReleasedSlot(t[2]) \notin Slots \/ ReleasedSlot(t[2]) \in bitmap[t[1]])
  <2>1. PICK n \in Slots : n = ReleasedSlot(t[2]) /\ n \notin bitmap[p]
    BY <1>1, <1>6
  <2>2. /\ bitmap' = [bitmap EXCEPT ![p] = @ \cup {n}]
        /\ holders' = [holders EXCEPT ![<<p, s>>] = @ - 1]
        /\ result' = "released" /\ initialized' = initialized \ {t}
        /\ UNCHANGED <<ring, magic, status, linked>>
    BY <1>1, <1>6, <2>1 DEF Release
  <2>3. PICK k \in Nat : holders[<<p, s>>] = k + 1
    <3>1. holders[t] - 1 \in Nat /\ holders[t] = (holders[t] - 1) + 1
      BY <1>2
    <3> QED BY <1>1, <3>1
  <2>4. holders' \in [Threads -> Nat] /\ bitmap' \in [Pools -> SUBSET Slots]
    BY <1>1, <1>2, <2>2, <2>3 DEF TypeOK
  <2>5. TypeOK'
    BY <1>2, <2>2, <2>4 DEF TypeOK
  <2>6. /\ bitmap'[p] = bitmap[p] \cup {n}
        /\ holders'[<<p, s>>] = k
        /\ \A m \in Slots \ {s} : holders[<<p, m>>] = holders'[<<p, m>>]
        /\ \A q \in Pools \ {p} : bitmap'[q] = bitmap[q]
                                 /\ \A m \in Slots : holders'[<<q, m>>] = holders[<<q, m>>]
    BY <1>1, <1>2, <2>2, <2>3 DEF TypeOK, Threads
  <2>7. CountOf(p)'
    <3>1. PairsOf(holders, p) = PairsOf(holders', p) \cup {<<s, k + 1>>} /\ <<s, k + 1>> \notin PairsOf(holders', p)
      <4>1. HasOneMore(holders', holders, p, s, k)
        BY <2>3, <2>6 DEF HasOneMore
      <4> QED BY <4>1, OneMore, Zenon
    <3>2. Holdings(p)' = Holdings(p) \ {<<s, k + 1>>} /\ <<s, k + 1>> \in Holdings(p)
      BY <3>1, HoldingsOf
    <3>3. CountOf(p)
      BY <1>3 DEF CountInv
    <3>4. /\ IsFiniteSet(Holdings(p)')
          /\ Cardinality(Holdings(p)') = Cardinality(Holdings(p)) - 1
      BY <3>2, <3>3, FS_RemoveElement DEF CountOf
    <3>5. /\ IsFiniteSet(bitmap'[p])
          /\ Cardinality(bitmap'[p]) = Cardinality(bitmap[p]) + 1
      <4>1. IsFiniteSet(bitmap[p])
        BY <3>3 DEF CountOf
      <4>2. /\ IsFiniteSet(bitmap[p] \cup {n})
            /\ Cardinality(bitmap[p] \cup {n}) = Cardinality(bitmap[p]) + 1
        BY <2>1, <4>1, FS_AddElement
      <4> QED BY <2>6, <4>2
    <3>6. Cardinality(bitmap[p]) \in Nat /\ Cardinality(Holdings(p)) \in Nat
      BY <3>3, FS_CardinalityType DEF CountOf
    <3> QED BY <3>3, <3>4, <3>5, <3>6, PoolsAssumption DEF CountOf, Held
  <2>8. \A q \in ToSet(ring') : CountOf(q)'
    BY <1>2, <2>2, <2>6, <2>7, CountKept, PoolOfRing DEF CountInv
  <2>9. UnusedPools'
    BY <1>2, <1>3, <2>2, <2>6 DEF UnusedPools
  <2>10. EmptyWhenOut'
    BY <2>2 DEF EmptyWhenOut
  <2> QED BY <2>5, <2>8, <2>9, <2>10 DEF CountInv
<1> QED BY <1>4, <1>5, <1>6

(* A new pool has all its bits set and none of its threads held.           *)
LEMMA CountAdded ==
  ASSUME CountInv, NEW p \in Pools, AddPool(p)
  PROVE  CountInv'
<1>1. TypeOK /\ UnusedPools
  BY DEF CountInv
<1>2. CASE p \in ToSet(ring)
  <2>1. result' = "other" /\ UNCHANGED <<ring, bitmap, magic, status, linked, initialized, holders>>
    BY <1>2 DEF AddPool
  <2>2. \A q \in ToSet(ring') : CountOf(q)'
    BY <2>1, CountKept DEF CountInv
  <2> QED BY <1>1, <2>1, <2>2 DEF CountInv, TypeOK, UnusedPools, EmptyWhenOut
<1>3. CASE p \notin ToSet(ring)
  <2>1. /\ ring' = <<p>> \o ring
        /\ bitmap' = [bitmap EXCEPT ![p] = Slots]
        /\ result' = "added"
        /\ UNCHANGED <<magic, status, linked, initialized, holders>>
    BY <1>3 DEF AddPool
  <2>2. ring' \in Seq(Pools) /\ ToSet(ring') = {p} \cup ToSet(ring)
    BY <1>1, <2>1, AddedToRing DEF TypeOK
  <2>3. TypeOK'
    BY <1>1, <2>1, <2>2 DEF TypeOK
  <2>4. bitmap'[p] = Slots /\ \A q \in Pools \ {p} : bitmap'[q] = bitmap[q]
    BY <1>1, <2>1 DEF TypeOK
  <2>5. CountOf(p)'
    <3>1. \A n \in Slots : holders'[<<p, n>>] = 0
      BY <1>1, <1>3, <2>1 DEF UnusedPools
    <3>2. PairsOf(holders', p) = {}
      <4>1. 1 .. 0 = {}
        OBVIOUS
      <4>2. ASSUME NEW x \in PairsOf(holders', p)
            PROVE  FALSE
        <5>1. x = <<x[1], x[2]>>
          BY <4>2, OnlyPairs, Zenon
        <5>2. <<x[1], x[2]>> \in PairsOf(holders', p)
          BY <4>2, <5>1, Zenon
        <5>3. x[1] \in Slots /\ x[2] \in 1 .. holders'[<<p, x[1]>>]
          BY <5>2, PairIn, Zenon
        <5> QED BY <3>1, <4>1, <5>3
      <4> QED BY <4>2, Zenon
    <3>3. IsFiniteSet(Holdings(p)') /\ Cardinality(Holdings(p)') = 0
      BY <3>2, HoldingsOf, FS_EmptySet
    <3>4. IsFiniteSet(Slots) /\ Cardinality(Slots) = N
      <4>1. 0 \in Int /\ N - 1 \in Int
        BY PoolsAssumption
      <4>2. IsFiniteSet(0 .. N - 1) /\ Cardinality(0 .. N - 1) = IF 0 > N - 1 THEN 0 ELSE N - 1 - 0 + 1
        BY <4>1, FS_Interval
      <4> QED BY <4>2, PoolsAssumption DEF Slots
    <3> QED BY <2>4, <3>3, <3>4, PoolsAssumption DEF CountOf, Held
  <2>6. \A q \in ToSet(ring) : CountOf(q)'
    <3>1. ASSUME NEW q \in ToSet(ring)
          PROVE  CountOf(q)'
      <4>1. q \in Pools \ {p} /\ CountOf(q)
        BY <1>1, <1>3, PoolOfRing DEF CountInv
      <4> QED BY <2>1, <2>4, <4>1, CountKept
    <3> QED BY <3>1
  <2>7. \A q \in ToSet(ring') : CountOf(q)'
    BY <2>2, <2>5, <2>6
  <2>8. UnusedPools'
    BY <1>1, <2>1, <2>2, <2>4 DEF UnusedPools
  <2>9. EmptyWhenOut'
    BY <2>1 DEF EmptyWhenOut
  <2> QED BY <2>3, <2>7, <2>8, <2>9 DEF CountInv
<1> QED BY <1>2, <1>3

LEMMA InitCount == Init => CountInv
<1> SUFFICES ASSUME Init PROVE CountInv
  OBVIOUS
<1>1. TypeOK
  BY DEF Init, TypeOK
<1>2. ToSet(ring) = {}
  BY DEF Init, ToSet
<1>3. UnusedPools
  BY DEF Init, UnusedPools, Threads
<1>4. EmptyWhenOut
  BY DEF Init, EmptyWhenOut
<1> QED BY <1>1, <1>2, <1>3, <1>4 DEF CountInv

LEMMA NextCount == CountInv /\ [Next]_vars => CountInv'
<1> SUFFICES ASSUME CountInv, [Next]_vars PROVE CountInv'
  OBVIOUS
<1>1. ASSUME TypeOK', UNCHANGED <<ring, bitmap, holders>>, EmptyWhenOut'
      PROVE  CountInv'
  <2>1. \A p \in ToSet(ring') : CountOf(p)'
    BY <1>1, CountKept DEF CountInv
  <2>2. UnusedPools'
    BY <1>1 DEF CountInv, UnusedPools
  <2> QED BY <1>1, <2>1, <2>2 DEF CountInv
<1>2. CASE UNCHANGED vars
  BY <1>1, <1>2 DEF vars, CountInv, TypeOK, EmptyWhenOut
<1>3. ASSUME NEW p \in Pools, AddPool(p) PROVE CountInv'
  BY <1>3, CountAdded
<1>4. CASE Acquire
  BY <1>4, CountAcquired
<1>5. CASE OutOfThreads
  <2>1. TypeOK' /\ UNCHANGED <<ring, bitmap, holders>>
    BY <1>5 DEF OutOfThreads, CountInv, TypeOK
  <2>2. EmptyWhenOut'
    <3>1. ToSet(ring) = {ring[i] : i \in 1 .. Len(ring)} /\ ring' = ring /\ bitmap' = bitmap
      BY <1>5, InRing DEF OutOfThreads, CountInv, TypeOK
    <3>2. \A p \in ToSet(ring) : bitmap[p] = {}
      BY <1>5, <3>1 DEF OutOfThreads
    <3> QED BY <3>1, <3>2 DEF EmptyWhenOut
  <2> QED BY <1>1, <2>1, <2>2
<1>6. ASSUME NEW t \in Threads, Release(t) PROVE CountInv'
  BY <1>6, CountReleased
<1>7. ASSUME NEW t \in Threads, Initialize(t) \/ Schedule(t) \/ Expire(t)
      PROVE  CountInv'
  <2>1. TypeOK'
    BY <1>7 DEF Initialize, Schedule, Expire, CountInv, TypeOK
  <2>2. EmptyWhenOut'
    BY <1>7 DEF Initialize, Schedule, Expire, EmptyWhenOut
  <2> QED BY <1>1, <1>7, <2>1, <2>2 DEF Initialize, Schedule, Expire
<1> QED BY <1>2, <1>3, <1>4, <1>5, <1>6, <1>7 DEF Next

THEOREM CountInvariant == Spec => []CountInv
BY InitCount, NextCount, PTL DEF Spec

(* The headers and bitmaps stay those of the threads of the pools.         *)
THEOREM TypeCorrect == Spec => []TypeOK
<1>1. CountInv => TypeOK
  BY DEF CountInv
<1> QED BY <1>1, CountInvariant, PTL

(* thread.acquire takes one bit for one holder and thread.release gives    *)
(* one bit back for one, though never its own: a pool's free bits and its  *)
(* holders add up to its size.                                             *)
THEOREM CountIsConserved == Spec => []CountConserved
<1>1. CountInv => CountConserved
  BY DEF CountInv, CountOf, CountConserved
<1> QED BY <1>1, CountInvariant, PTL

(* When thread.acquire says it is out of threads, every pool has as many   *)
(* holders as it has threads.                                              *)
THEOREM ExhaustedIsHeld == Spec => []ExhaustedMeansHeld
<1>1. ASSUME CountInv PROVE ExhaustedMeansHeld
  <2>1. ASSUME result = "out_of_thread", NEW p \in ToSet(ring)
        PROVE  Held(p) = N
    <3>1. bitmap[p] = {} /\ CountOf(p)
      BY <1>1, <2>1 DEF CountInv, EmptyWhenOut
    <3>2. Cardinality(bitmap[p]) = 0
      BY <3>1, FS_EmptySet
    <3>3. Held(p) \in Nat
      BY <3>1, FS_CardinalityType DEF CountOf, Held
    <3> QED BY <3>1, <3>2, <3>3 DEF CountOf
  <2> QED BY <2>1 DEF ExhaustedMeansHeld
<1> QED BY <1>1, CountInvariant, PTL

-----------------------------------------------------------------------------
(* The clock                                                               *)

(* Words of the clock, as far as its arithmetic needs them.                *)
Types ==
  /\ ticks \in 0 .. Long - 1 /\ drift \in 0 .. Long - 1 /\ adjustment \in 0 .. Long - 1
  /\ rate \in 0 .. Word - 1 /\ cumulated \in 0 .. Frac - 1
  /\ perIrq \in 0 .. Word - 1 /\ newPerIrq \in 0 .. Word - 1
  /\ timers \in Seq(Int) /\ changeTime \in Int
  /\ call.at \in {"load", "store"} => call.loaded \in Seq(Int)
  /\ call.at = "drift" => call.value \in Drifts
  /\ call.at = "set" => call.low \in 0 .. Word - 1 /\ call.value \in Times

-----------------------------------------------------------------------------
(* Division                                                                *)

LEMMA Division ==
  ASSUME NEW m \in Nat \ {0}, NEW x \in Int
  PROVE  \E q \in Int, r \in 0 .. m - 1 : q = x \div m /\ r = x % m /\ x = q * m + r
<1>1. x \div m \in Int /\ x % m \in 0 .. m - 1 /\ x = (x \div m) * m + (x % m)
  OBVIOUS
<1> QED BY <1>1, Zenon

(* Quotient and remainder are the only ones there are.                     *)
LEMMA Divided ==
  ASSUME NEW m \in Nat \ {0}, NEW x \in Int, NEW k \in Int, NEW r \in 0 .. m - 1, x = k * m + r
  PROVE  x \div m = k /\ x % m = r
<1>1. PICK q \in Int, s \in 0 .. m - 1 : q = x \div m /\ s = x % m /\ x = q * m + s
  BY Division
<1>2. (q - k) * m = r - s
  BY <1>1
<1>3. CASE q - k >= 1
  <2>1. (q - k) * m >= m
    BY <1>3
  <2> QED BY <1>1, <1>2, <2>1
<1>4. CASE q - k <= -1
  <2>1. (q - k) * m <= -m
    BY <1>4
  <2> QED BY <1>1, <1>2, <2>1
<1>5. CASE q = k
  BY <1>1, <1>5
<1> QED BY <1>1, <1>3, <1>4, <1>5

(* Multiples do not show in a remainder.                                   *)
LEMMA Congruent ==
  ASSUME NEW m \in Nat \ {0}, NEW x \in Int, NEW y \in Int, NEW k \in Int, x = y + k * m
  PROVE  x % m = y % m
<1>1. PICK q \in Int, s \in 0 .. m - 1 : q = y \div m /\ s = y % m /\ y = q * m + s
  BY Division
<1>2. PICK j \in Int : x = j * m + s
  <2>1. x = (q + k) * m + s /\ q + k \in Int
    BY <1>1
  <2> QED BY <2>1
<1>3. s \in 0 .. m - 1 /\ s = y % m
  BY <1>1, Zenon
<1>4. x % m = s
  BY <1>2, <1>3, Divided, Zenon
<1> QED BY <1>3, <1>4, Zenon

LEMMA ModSum ==
  ASSUME NEW m \in Nat \ {0}, NEW x \in Int, NEW y \in Int
  PROVE  ((x % m) + (y % m)) % m = (x + y) % m
<1>1. PICK q \in Int, s \in 0 .. m - 1 : q = x \div m /\ s = x % m /\ x = q * m + s
  BY Division
<1>2. PICK p \in Int, t \in 0 .. m - 1 : p = y \div m /\ t = y % m /\ y = p * m + t
  BY Division
<1>3. x + y = (s + t) + (q + p) * m
  BY <1>1, <1>2
<1>4. (x + y) % m = (s + t) % m
  <2>1. x + y \in Int /\ s + t \in Int /\ q + p \in Int
    BY <1>1, <1>2
  <2> QED BY <1>3, <2>1, Congruent, Zenon
<1> QED BY <1>1, <1>2, <1>4

LEMMA ModSmall ==
  ASSUME NEW m \in Nat \ {0}, NEW x \in 0 .. m - 1
  PROVE  x % m = x
<1>1. x = 0 * m + x /\ 0 \in Int
  OBVIOUS
<1> QED BY <1>1, Divided

LEMMA WordIs ==
  Word \in Nat \ {0, 1, 2} /\ Long \in Nat \ {0} /\ Frac \in Nat \ {0} /\ Frac > 1 /\ Long >= Word
<1>1. Word \in Nat /\ Word >= 3 /\ Frac \in Nat \ {0, 1}
  BY ClockAssumption
<1>2. Word * Word >= Word
  BY <1>1
<1> QED BY <1>1, <1>2 DEF Long

LEMMA InWord ==
  ASSUME NEW x \in Int
  PROVE  Lo(x) \in 0 .. Word - 1 /\ Hi(x) \in Int /\ Hi(x) * Word + Lo(x) = x
BY Division, WordIs DEF Lo, Hi

(* Two words are a number, and each of them is a half of it.               *)
LEMMA InLong ==
  ASSUME NEW x \in 0 .. Long - 1
  PROVE  Hi(x) \in 0 .. Word - 1
<1>1. PICK h \in Int, l \in 0 .. Word - 1 : h = Hi(x) /\ l = Lo(x) /\ x = h * Word + l
  BY InWord
<1>2. CASE h <= -1
  <2>1. h * Word <= -Word
    BY <1>2, WordIs
  <2> QED BY <1>1, <2>1, WordIs
<1>3. CASE h >= Word
  <2>1. h * Word >= Word * Word
    BY <1>3, WordIs
  <2> QED BY <1>1, <2>1, WordIs DEF Long
<1> QED BY <1>1, <1>2, <1>3, WordIs

LEMMA Joined ==
  ASSUME NEW h \in 0 .. Word - 1, NEW l \in 0 .. Word - 1
  PROVE  /\ h * Word + l \in 0 .. Long - 1
         /\ Hi(h * Word + l) = h /\ Lo(h * Word + l) = l
<1>1. h * Word <= (Word - 1) * Word /\ h * Word >= 0
  BY WordIs
<1>2. (Word - 1) * Word = Long - Word
  BY WordIs DEF Long
<1>3. h * Word + l \in 0 .. Long - 1
  BY <1>1, <1>2, WordIs
<1>4. h * Word + l \in Int
  BY <1>3, WordIs
<1> QED BY <1>3, <1>4, WordIs, Divided DEF Hi, Lo

-----------------------------------------------------------------------------
(* The invariant                                                           *)

LEMMA QuotientSign ==
  ASSUME NEW m \in Nat \ {0}, NEW x \in Nat, NEW q \in Int, NEW r \in 0 .. m - 1, x = q * m + r
  PROVE  q \in Nat /\ q <= x /\ r <= x
<1>1. CASE q <= -1
  <2>1. q * m <= -m
    BY <1>1
  <2> QED BY <2>1
<1>2. CASE q >= 0
  <2>1. q * m >= q
    BY <1>2
  <2> QED BY <1>2, <2>1
<1> QED BY <1>1, <1>2

LEMMA QuotientSum ==
  ASSUME NEW m \in Nat \ {0}, NEW x \in Int, NEW c \in 0 .. m - 1, NEW b \in Int, b <= c + x,
         NEW p \in Int, NEW t \in 0 .. m - 1, x = p * m + t,
         NEW q \in Int, NEW s \in 0 .. m - 1, b = q * m + s
  PROVE  q <= p + 1
<1> SUFFICES ASSUME q >= p + 2 PROVE FALSE
  OBVIOUS
<1>1. q * m >= (p + 2) * m
  OBVIOUS
<1>2. (p + 2) * m = p * m + 2 * m
  OBVIOUS
<1> QED BY <1>1, <1>2

LEMMA WholeIs == ASSUME Types PROVE Whole \in 0 .. Word - 1 /\ Whole <= (rate \div Frac) + 1
<1>0. /\ Word \in Nat \ {0} /\ Frac \in Nat \ {0}
      /\ rate \in Int /\ cumulated \in 0 .. Frac - 1
      /\ cumulated + rate \in Nat /\ cumulated + rate \in Int
  BY WordIs DEF Types
<1>1. PICK a \in Int, b \in 0 .. Word - 1 :
        a = (cumulated + rate) \div Word /\ b = (cumulated + rate) % Word /\ cumulated + rate = a * Word + b
  BY <1>0, Division, Zenon
<1>2. b \in Nat /\ b \in Int /\ b <= cumulated + rate
  BY <1>0, <1>1, QuotientSign
<1>3. PICK q \in Int, s \in 0 .. Frac - 1 : q = b \div Frac /\ s = b % Frac /\ b = q * Frac + s
  BY <1>0, <1>2, Division, Zenon
<1>4. PICK p \in Int, t \in 0 .. Frac - 1 : p = rate \div Frac /\ t = rate % Frac /\ rate = p * Frac + t
  BY <1>0, Division, Zenon
<1>5. q = Whole
  BY <1>1, <1>3 DEF Whole
<1>6. q \in Nat /\ q <= b
  BY <1>0, <1>2, <1>3, QuotientSign
<1>7. q <= p + 1
  BY <1>0, <1>2, <1>3, <1>4, QuotientSum
<1>8. Whole \in 0 .. Word - 1
  BY <1>0, <1>1, <1>2, <1>5, <1>6
<1> QED BY <1>4, <1>5, <1>7, <1>8

LEMMA CorrectionIs == ASSUME Types PROVE Corrected \in 0 .. Word - 1
<1>1. Lo(drift) \in 0 .. Word - 1 /\ Whole \in 0 .. Word - 1 /\ (Word - Whole) % Word \in 0 .. Word - 1
  <2>1. Whole \in 0 .. Word - 1 /\ drift \in Int
    BY WholeIs, WordIs DEF Types
  <2>2. Word - Whole \in Int
    BY <2>1, WordIs
  <2>3. (Word - Whole) % Word \in 0 .. Word - 1
    BY <2>2, WordIs, Division
  <2> QED BY <2>1, <2>3, InWord
<1> QED BY <1>1, WordIs DEF Corrected, Correction

LEMMA UuuIsInt == ASSUME NEW t \in Int PROVE TicksToUuu(t) \in Int
<1>1. PICK u \in Int : u = (2 * t) % Long
  BY WordIs, Division
<1>2. Hi(u) \in Int /\ Lo(u) \in Int /\ Scale \in Int
  BY InWord, WordIs, ClockAssumption
<1>3. PICK v \in Int : v = Lo(u) * Scale
  BY <1>2
<1>4. Hi(v) \in Int
  BY InWord
<1>5. PICK w \in Int : w = Hi(u) * Scale + Hi(v)
  BY <1>2, <1>4
<1>6. TicksToUuu(t) = w % Long
  BY <1>1, <1>3, <1>5 DEF TicksToUuu
<1> QED BY <1>5, <1>6, WordIs, Division

(* How far a prefix goes that avoids a set of places.                      *)
LEMMA Prefix ==
  ASSUME NEW n \in Nat, NEW B, B \subseteq 1 .. n
  PROVE  \E k \in 0 .. n : (\A i \in 1 .. k : i \notin B) /\ (k < n => k + 1 \in B)
<1>1. CASE B = {}
  BY <1>1
<1>2. CASE B # {}
  <2>1. PICK m \in B : \A y \in B : m <= y
    <3>1. B \subseteq Nat
      OBVIOUS
    <3> QED BY <1>2, <3>1, MinOfNats, Zenon
  <2>2. m - 1 \in 0 .. n /\ m - 1 + 1 = m
    BY <2>1
  <2>3. \A i \in 1 .. m - 1 : i \notin B
    BY <2>1, <2>2
  <2> QED BY <2>1, <2>2, <2>3
<1> QED BY <1>1, <1>2

(* What stands in a ring of timers.                                        *)
LEMMA Standing ==
  ASSUME NEW s \in Seq(Int)
  PROVE  \A x : x \in ToSet(s) <=> \E i \in 1 .. Len(s) : s[i] = x
<1>1. ToSet(s) = {s[i] : i \in 1 .. Len(s)}
  BY DEF ToSet
<1> QED BY <1>1

(* The due timers are a prefix of the ring.                                *)
LEMMA DueIs ==
  ASSUME Types, NEW t \in Int
  PROVE  DueCount(t) \in 0 .. Len(timers)
<1> DEFINE B == {i \in 1 .. Len(timers) : ~(TimeOf(timers[i]) <= t)}
<1>1. Len(timers) \in Nat /\ B \subseteq 1 .. Len(timers)
  BY DEF Types
<1>2. PICK k \in 0 .. Len(timers) :
        (\A i \in 1 .. k : i \notin B) /\ (k < Len(timers) => k + 1 \in B)
  <2> HIDE DEF B
  <2>1. PICK n \in Nat : n = Len(timers)
    BY <1>1
  <2>2. B \subseteq 1 .. n
    BY <1>1, <2>1
  <2>3. \E k \in 0 .. n : (\A i \in 1 .. k : i \notin B) /\ (k < n => k + 1 \in B)
    BY <2>2, Prefix
  <2> QED BY <2>1, <2>3
<1>3. \A i \in 1 .. Len(timers) : TimeOf(timers[i]) \in Int
  BY DEF Types, TimeOf
<1>4. \A i \in 1 .. k : TimeOf(timers[i]) <= t
  BY <1>1, <1>2
<1>5. k < Len(timers) => TimeOf(timers[k + 1]) > t
  BY <1>1, <1>2, <1>3
<1>6. \E n \in 0 .. Len(timers) :
        /\ \A i \in 1 .. n : TimeOf(timers[i]) <= t
        /\ n < Len(timers) => TimeOf(timers[n + 1]) > t
  BY <1>2, <1>4, <1>5
<1> QED BY <1>6, Zenon DEF DueCount

(* What stands in a ring stays when the ring is cut after a place before   *)
(* it, or when a timer is put between two others.                          *)
LEMMA CutRing ==
  ASSUME NEW s \in Seq(Int), NEW k \in 0 .. Len(s)
  PROVE  /\ SubSeq(s, k + 1, Len(s)) \in Seq(Int)
         /\ \A x : x \in ToSet(s) => x \in ToSet(SubSeq(s, k + 1, Len(s))) \/ \E i \in 1 .. k : s[i] = x
<1>1. SubSeq(s, k + 1, Len(s)) \in Seq(Int) /\ Len(SubSeq(s, k + 1, Len(s))) = Len(s) - k
  OBVIOUS
<1>2. \A j \in 1 .. Len(s) - k : SubSeq(s, k + 1, Len(s))[j] = s[k + j]
  OBVIOUS
<1>3. PICK q \in Seq(Int) : q = SubSeq(s, k + 1, Len(s))
  BY <1>1
<1>4. ASSUME NEW i \in 1 .. Len(s), i > k
      PROVE  \E j \in 1 .. Len(q) : q[j] = s[i]
  <2>1. i - k \in 1 .. Len(s) - k /\ k + (i - k) = i
    BY <1>4
  <2>2. q[i - k] = s[i] /\ Len(q) = Len(s) - k
    BY <1>1, <1>2, <1>3, <2>1
  <2> QED BY <2>1, <2>2
<1>5. ASSUME NEW x, x \in ToSet(s), ~ \E i \in 1 .. k : s[i] = x
      PROVE  x \in ToSet(q)
  <2>1. PICK i \in 1 .. Len(s) : s[i] = x
    BY <1>5, Standing
  <2>2. i > k
    BY <1>5, <2>1
  <2>3. \E j \in 1 .. Len(q) : q[j] = x
    BY <1>4, <2>1, <2>2
  <2> QED BY <2>3, Standing
<1> QED BY <1>3, <1>5

LEMMA Joining ==
  ASSUME NEW c \in Seq(Int), NEW b \in Seq(Int)
  PROVE  /\ c \o b \in Seq(Int) /\ Len(c \o b) = Len(c) + Len(b)
         /\ \A j \in 1 .. Len(c) : (c \o b)[j] = c[j]
         /\ \A j \in 1 .. Len(b) : (c \o b)[Len(c) + j] = b[j]
OBVIOUS

LEMMA PutInRing ==
  ASSUME NEW s \in Seq(Int), NEW i \in 1 .. Len(s) + 1, NEW t \in Int
  PROVE  /\ InsertAt(s, i, t) \in Seq(Int)
         /\ \A x : x \in ToSet(s) => x \in ToSet(InsertAt(s, i, t))
<1>1. PICK a \in Seq(Int) : a = SubSeq(s, 1, i - 1) /\ Len(a) = i - 1 /\ \A j \in 1 .. i - 1 : a[j] = s[j]
  <2>1. SubSeq(s, 1, i - 1) \in Seq(Int) /\ Len(SubSeq(s, 1, i - 1)) = i - 1
    OBVIOUS
  <2>2. \A j \in 1 .. i - 1 : SubSeq(s, 1, i - 1)[j] = s[j]
    OBVIOUS
  <2> QED BY <2>1, <2>2, Zenon
<1>2. PICK b \in Seq(Int) : /\ b = SubSeq(s, i, Len(s)) /\ Len(b) = Len(s) - i + 1
                            /\ \A j \in 1 .. Len(s) - i + 1 : b[j] = s[i + j - 1]
  <2>1. SubSeq(s, i, Len(s)) \in Seq(Int) /\ Len(SubSeq(s, i, Len(s))) = Len(s) - i + 1
    OBVIOUS
  <2>2. \A j \in 1 .. Len(s) - i + 1 : SubSeq(s, i, Len(s))[j] = s[i + j - 1]
    OBVIOUS
  <2> QED BY <2>1, <2>2, Zenon
<1>3. PICK c \in Seq(Int) : c = a \o <<t>> /\ Len(c) = i /\ \A j \in 1 .. i - 1 : c[j] = a[j]
  <2>1. a \o <<t>> \in Seq(Int) /\ Len(a \o <<t>>) = i
    BY <1>1
  <2>2. \A j \in 1 .. i - 1 : (a \o <<t>>)[j] = a[j]
    BY <1>1
  <2> QED BY <2>1, <2>2, Zenon
<1>4. PICK q \in Seq(Int) : /\ q = c \o b /\ Len(q) = Len(s) + 1
                            /\ \A j \in 1 .. i : q[j] = c[j]
                            /\ \A j \in 1 .. Len(s) - i + 1 : q[i + j] = b[j]
  <2>0. b \in Seq(Int) /\ c \in Seq(Int) /\ Len(c) = i /\ Len(b) = Len(s) - i + 1
    BY <1>2, <1>3
  <2>1. /\ c \o b \in Seq(Int) /\ Len(c \o b) = Len(c) + Len(b)
        /\ \A j \in 1 .. Len(c) : (c \o b)[j] = c[j]
        /\ \A j \in 1 .. Len(b) : (c \o b)[Len(c) + j] = b[j]
    BY Joining
  <2>2. PICK q \in Seq(Int) : /\ q = c \o b /\ Len(q) = Len(c) + Len(b)
                              /\ \A j \in 1 .. Len(c) : q[j] = c[j]
                              /\ \A j \in 1 .. Len(b) : q[Len(c) + j] = b[j]
    BY <2>1, Zenon
  <2>3. Len(s) \in Nat /\ i \in Nat
    OBVIOUS
  <2>4. Len(q) = Len(s) + 1
    BY <2>0, <2>2, <2>3
  <2>5. \A j \in 1 .. i : q[j] = c[j]
    BY <2>0, <2>2
  <2>6. \A j \in 1 .. Len(s) - i + 1 : q[i + j] = b[j]
    BY <2>0, <2>2
  <2> QED BY <2>2, <2>4, <2>5, <2>6, Zenon
<1>5. ASSUME NEW j \in 1 .. Len(s) PROVE \E l \in 1 .. Len(q) : q[l] = s[j]
  <2>1. CASE j <= i - 1
    <3>1. j \in 1 .. i - 1 /\ j \in 1 .. i /\ j \in 1 .. Len(q)
      BY <1>4, <2>1
    <3>2. q[j] = s[j]
      BY <1>1, <1>3, <1>4, <3>1
    <3> QED BY <3>1, <3>2
  <2>2. CASE j >= i
    <3>1. PICK m \in 1 .. Len(s) - i + 1 : m = j - i + 1 /\ i + m = j + 1 /\ i + m - 1 = j
      BY <2>2
    <3>2. q[i + m] = b[m] /\ b[m] = s[i + m - 1]
      BY <1>2, <1>4
    <3>3. i + m \in 1 .. Len(q) /\ q[i + m] = s[j]
      BY <1>4, <3>1, <3>2
    <3> QED BY <3>3
  <2> QED BY <2>1, <2>2
<1>6. InsertAt(s, i, t) = q
  BY <1>1, <1>2, <1>3, <1>4 DEF InsertAt
<1>7. ASSUME NEW x, x \in ToSet(s) PROVE x \in ToSet(q)
  <2>1. PICK j \in 1 .. Len(s) : s[j] = x
    BY <1>7, Standing
  <2>2. \E l \in 1 .. Len(q) : q[l] = x
    BY <1>5, <2>1
  <2> QED BY <2>2, Standing
<1> QED BY <1>6, <1>7

LEMMA TimerPut ==
  ASSUME Types, NEW d \in Delays, SetThreadTimer(d)
  PROVE  timers' \in Seq(Int) /\ \A x : x \in ToSet(timers) => x \in ToSet(timers')
<1> DEFINE t == (ticks + d) % Long
           Before(i) == Hi(t) < Hi(TimeOf(timers[i])) \/ Lo(t) <= Lo(TimeOf(timers[i]))
           B == {i \in 1 .. Len(timers) : Before(i)}
           Place(i) == /\ \A j \in 1 .. i - 1 : ~Before(j)
                       /\ i <= Len(timers) => Before(i)
<1>1. Len(timers) \in Nat /\ B \subseteq 1 .. Len(timers) /\ timers \in Seq(Int)
  BY DEF Types
<1>2. PICK k \in 0 .. Len(timers) :
        (\A i \in 1 .. k : i \notin B) /\ (k < Len(timers) => k + 1 \in B)
  <2> HIDE DEF B
  <2>1. PICK n \in Nat : n = Len(timers)
    BY <1>1
  <2>2. B \subseteq 1 .. n
    BY <1>1, <2>1
  <2>3. \E k \in 0 .. n : (\A i \in 1 .. k : i \notin B) /\ (k < n => k + 1 \in B)
    BY <2>2, Prefix
  <2> QED BY <2>1, <2>3
<1>3. PICK p \in 1 .. Len(timers) + 1 : p = k + 1
  BY <1>1, <1>2
<1>4. \A j \in 1 .. p - 1 : ~Before(j)
  <2>1. \A j \in 1 .. p - 1 : j \in 1 .. k /\ j \in 1 .. Len(timers)
    BY <1>1, <1>2, <1>3
  <2> HIDE DEF Before
  <2> QED BY <1>2, <2>1
<1>5. p <= Len(timers) => Before(p)
  <2>1. p <= Len(timers) => p \in B
    BY <1>1, <1>2, <1>3
  <2> HIDE DEF Before
  <2> QED BY <2>1
<1>6. Place(p)
  BY <1>4, <1>5, Zenon
<1>7. timers' = InsertAt(timers, CHOOSE i \in 1 .. Len(timers) + 1 : Place(i), t)
  BY Zenon DEF SetThreadTimer
<1> HIDE DEF Place
<1>8. PICK i \in 1 .. Len(timers) + 1 : i = CHOOSE c \in 1 .. Len(timers) + 1 : Place(c)
  BY <1>3, <1>6, Zenon
<1>9. t \in Int
  <2>1. ticks + d \in Int /\ Long \in Nat \ {0}
    BY WordIs, ClockAssumption DEF Types
  <2> QED BY <2>1, Division
<1> HIDE DEF t
<1> QED BY <1>1, <1>7, <1>8, <1>9, PutInRing

LEMMA InitTypes == ClockInit => Types
<1>1. FirstResolution \in 0 .. Word - 1
  BY WordIs, ClockAssumption
<1>2. <<Change>> \in Seq(Int)
  BY DEF Change
<1> QED BY <1>1, <1>2, WordIs DEF ClockInit, Types, NoCall

LEMMA StepTypes == Types /\ [ClockNext]_clock_vars => Types'
<1> SUFFICES ASSUME Types, [ClockNext]_clock_vars PROVE Types'
  OBVIOUS
<1>0. /\ Word \in Nat \ {0, 1, 2} /\ Long \in Nat \ {0} /\ Frac \in Nat \ {0}
      /\ ticks \in Int /\ drift \in Int /\ adjustment \in Int /\ perIrq \in Int
  BY WordIs DEF Types
<1>1. CASE Pit
  <2>1. ticks' \in 0 .. Long - 1
    <3>1. ticks + Corrected + perIrq \in Int
      BY <1>0, CorrectionIs
    <3>2. (ticks + Corrected + perIrq) % Long \in 0 .. Long - 1
      BY <1>0, <3>1, Division
    <3> QED BY <1>1, <3>2 DEF Pit
  <2>2. drift' \in 0 .. Long - 1
    <3>1. CASE drift # 0 /\ Whole # 0
      <4>1. drift - Correction \in Int
        BY <1>0, <3>1, CorrectionIs DEF Corrected
      <4>2. (drift - Correction) % Long \in 0 .. Long - 1
        BY <1>0, <4>1, Division
      <4> QED BY <1>1, <3>1, <4>2 DEF Pit, CorrectDrift
    <3>2. CASE ~(drift # 0 /\ Whole # 0)
      BY <1>1, <3>2 DEF Pit, CorrectDrift, Types
    <3> QED BY <3>1, <3>2
  <2>3. cumulated' \in 0 .. Frac - 1
    <3>1. cumulated + rate \in Int
      BY <1>0 DEF Types
    <3>2. (cumulated + rate) % Word \in Int
      BY <1>0, <3>1, Division
    <3>3. ((cumulated + rate) % Word) % Frac \in 0 .. Frac - 1
      BY <1>0, <3>2, Division
    <3> QED BY <1>1, <3>3 DEF Pit, CorrectDrift, Types
  <2>4. perIrq' \in 0 .. Word - 1 /\ UNCHANGED <<rate, newPerIrq, adjustment, call>>
    BY <1>1 DEF Pit, Types
  <2>5. timers' \in Seq(Int) /\ UNCHANGED changeTime
    <3>0. PICK now \in Int : now = (ticks + Corrected + perIrq) % Long
      <4>1. ticks + Corrected + perIrq \in Int
        BY <1>0, CorrectionIs
      <4> QED BY <1>0, <4>1, Division
    <3>1. timers' = SubSeq(timers, DueCount(now) + 1, Len(timers))
      BY <1>1, <3>0 DEF Pit
    <3>2. DueCount(now) \in 0 .. Len(timers)
      BY DueIs
    <3>3. PICK k \in 0 .. Len(timers) : k = DueCount(now)
      BY <3>2
    <3>4. SubSeq(timers, k + 1, Len(timers)) \in Seq(Int)
      BY CutRing DEF Types
    <3> QED BY <1>1, <3>1, <3>3, <3>4 DEF Pit
  <2> QED BY <2>1, <2>2, <2>3, <2>4, <2>5 DEF Types
<1>2. ASSUME NEW d \in Drifts, CorrectTickDrift(d) PROVE Types'
  <2>1. d \in 0 .. Long - 1 /\ d \in Int
    BY <1>0, ClockAssumption DEF Long
  <2>2. drift' \in 0 .. Long - 1
    <3>1. Hi(drift) \in 0 .. Word - 1 /\ Lo(d) \in 0 .. Word - 1
      BY <2>1, InLong, InWord DEF Types
    <3> QED BY <1>2, <3>1, Joined DEF CorrectTickDrift
  <2>3. call' = [at |-> "drift", value |-> d]
    BY <1>2 DEF CorrectTickDrift, Enter
  <2> QED BY <1>2, <2>2, <2>3 DEF CorrectTickDrift, Types
<1>3. CASE StoreDriftHigh
  <2>1. call.value \in Drifts
    BY <1>3 DEF StoreDriftHigh, Types
  <2>2. call.value \in 0 .. Long - 1
    BY <2>1, ClockAssumption DEF Long
  <2>3. drift' \in 0 .. Long - 1
    <3>1. Hi(call.value) \in 0 .. Word - 1 /\ Lo(drift) \in 0 .. Word - 1
      BY <1>0, <2>2, InLong, InWord
    <3> QED BY <1>3, <3>1, Joined DEF StoreDriftHigh
  <2> QED BY <1>3, <2>3 DEF StoreDriftHigh, Leave, NoCall, Types
<1>4. ASSUME NEW r \in Rates, SetRate(r) PROVE Types'
  BY <1>4, ClockAssumption DEF SetRate, clock, Types
<1>5. ASSUME NEW n \in Resolutions, SetResolution(n) PROVE Types'
  <2>1. n \in 0 .. Word - 1
    BY <1>0, <1>5 DEF SetResolution
  <2>2. call' = [at |-> "load", loaded |-> <<>>]
    BY <1>5 DEF SetResolution, Enter
  <2> QED BY <1>5, <2>1, <2>2 DEF SetResolution, clock, Types
<1>10. CASE LoadTime
  <2>1. Lo(ticks) \in Int /\ call.loaded \in Seq(Int)
    BY <1>0, <1>10, InWord, WordIs DEF LoadTime, Types
  <2>2. PICK l \in Seq(Int) : l = Append(call.loaded, Lo(ticks))
    <3>1. PICK w \in Int, k \in Seq(Int) : w = Lo(ticks) /\ k = call.loaded
      BY <2>1
    <3>2. Append(k, w) \in Seq(Int)
      OBVIOUS
    <3> QED BY <3>1, <3>2
  <2>3. call' = [at |-> IF call.loaded = <<>> THEN "load" ELSE "store", loaded |-> l]
    BY <1>10, <2>2 DEF LoadTime
  <2>4. call'.loaded = l /\ call'.at = IF call.loaded = <<>> THEN "load" ELSE "store"
    BY <2>3
  <2>5. call'.at = "load" \/ call'.at = "store"
    BY <2>4
  <2> QED BY <1>10, <2>2, <2>4, <2>5 DEF LoadTime, clock, Types
<1>11. CASE StoreTime
  <2>1. PICK l \in Seq(Int) : l = call.loaded /\ l # <<>>
    BY <1>11 DEF StoreTime, Types
  <2>2. Head(l) \in Int /\ Tail(l) \in Seq(Int)
    <3>1. l \in Seq(Int) /\ l # <<>>
      BY <2>1
    <3> HIDE DEF Types
    <3>2. Len(l) \in Nat \ {0}
      BY <3>1
    <3>3. Tail(l) \in Seq(Int)
      BY <3>1
    <3>4. Head(l) = l[1] /\ l[1] \in Int
      BY <3>1, <3>2
    <3> QED BY <3>3, <3>4
  <2>3. changeTime' \in Int
    <3>1. changeTime' = Head(l) * Word /\ Word \in Int
      BY <1>0, <1>11, <2>1 DEF StoreTime
    <3> QED BY <2>2, <3>1
  <2>4. call' = [call EXCEPT !.loaded = Tail(l)] /\ call.at = "store"
    BY <1>11, <2>1 DEF StoreTime
  <2>5. call'.at = "store" \/ ~(call'.at = "load" \/ call'.at = "drift" \/ call'.at = "set")
    BY <2>4
  <2>6. call'.at \in {"load", "store"} => call'.loaded \in Seq(Int)
    BY <2>2, <2>4
  <2>7. ~(call'.at = "drift") /\ ~(call'.at = "set")
    BY <2>4
  <2> QED BY <1>11, <2>3, <2>6, <2>7 DEF StoreTime, clock, Types
<1>12. CASE LinkChange
  <2>1. timers' \in Seq(Int)
    BY <1>12 DEF LinkChange, Types, Change
  <2> QED BY <1>12, <2>1 DEF LinkChange, Leave, NoCall, clock, Types
<1>6. ASSUME NEW d \in Delays, SetThreadTimer(d) PROVE Types'
  <2>1. timers' \in Seq(Int)
    BY <1>6, TimerPut
  <2> QED BY <1>6, <2>1 DEF SetThreadTimer, clock, Types
<1>7. ASSUME NEW t \in Times, SetTime(t) PROVE Types'
  <2>1. call' = [at |-> "set", low |-> Lo(ticks), value |-> t]
    BY <1>7 DEF SetTime, Enter
  <2>2. Lo(ticks) \in 0 .. Word - 1
    BY <1>0, InWord
  <2> QED BY <1>7, <2>1, <2>2 DEF SetTime, clock, Types
<1>8. CASE Adjust
  <2>1. call.low \in 0 .. Word - 1 /\ call.value \in Times
    <3>1. call.at = "set"
      BY <1>8 DEF Adjust
    <3> QED BY <3>1 DEF Types
  <2>2. adjustment' \in 0 .. Long - 1
    <3>1. TimeGot(call.low) \in Int
      <4>1. Hi(ticks) \in Int /\ call.low \in Int
        BY <1>0, <2>1, InWord
      <4>2. Hi(ticks) * Word + call.low \in Int
        BY <1>0, <4>1
      <4>3. TicksToUuu(Hi(ticks) * Word + call.low) \in Int
        BY <4>2, UuuIsInt
      <4>4. PICK x \in Int : x = TicksToUuu(Hi(ticks) * Word + call.low) + adjustment
        BY <1>0, <4>3
      <4>5. TimeGot(call.low) = x % Long
        BY <4>4 DEF TimeGot
      <4> QED BY <1>0, <4>5, Division
    <3>2. call.value \in Int
      <4>1. Times \subseteq 0 .. Long - 1
        BY ClockAssumption DEF Long
      <4>2. PICK v \in 0 .. Long - 1 : v = call.value
        BY <2>1, <4>1
      <4>3. v \in Int
        BY <1>0
      <4> QED BY <4>2, <4>3
    <3>3. PICK x \in Int : x = adjustment + call.value - TimeGot(call.low)
      BY <1>0, <3>1, <3>2
    <3>4. adjustment' = x % Long
      BY <1>8, <3>3 DEF Adjust
    <3> QED BY <1>0, <3>3, <3>4, Division
  <2> QED BY <1>8, <2>2 DEF Adjust, Leave, NoCall, clock, Types
<1>9. CASE UNCHANGED clock_vars
  BY <1>9 DEF clock_vars, Types
<1> QED BY <1>1, <1>2, <1>3, <1>4, <1>5, <1>6, <1>7, <1>8, <1>9, <1>10, <1>11, <1>12 DEF ClockNext

LEMMA TypesHold == ClockSpec => []Types
BY InitTypes, StepTypes, PTL DEF ClockSpec

(* Only the interrupt moves the count.                                     *)
LEMMA OthersLeaveTicks == Types /\ [ClockNext]_clock_vars => Pit \/ UNCHANGED ticks
BY DEF ClockNext, CorrectTickDrift, StoreDriftHigh, SetRate, SetResolution, LoadTime, StoreTime, LinkChange, SetThreadTimer, SetTime, Adjust, clock, clock_vars

-----------------------------------------------------------------------------
(* Theorems                                                                *)

(* For every width of the words, every drift and every rate, negative and  *)
(* torn ones included: what an interrupt takes from the drift it adds to   *)
(* the count, so that no time is won or lost by correcting.                *)
THEOREM DriftIsConserved == ClockSpec => DriftConserved
<1>1. ASSUME Types, [ClockNext]_clock_vars, ticks' # ticks
      PROVE  (ticks' + drift') % Long = (ticks + drift + perIrq) % Long
  <2>0. /\ Long \in Nat \ {0} /\ ticks \in Int /\ drift \in 0 .. Long - 1 /\ drift \in Int
        /\ perIrq \in Int /\ Corrected \in Int
    BY <1>1, WordIs, CorrectionIs DEF Types
  <2>1. Pit
    BY <1>1, OthersLeaveTicks
  <2>2. PICK x \in Int : x = ticks + Corrected + perIrq
    BY <2>0
  <2>3. PICK y \in Int : y = drift - Corrected
    BY <2>0
  <2>4. ticks' = x % Long
    BY <2>1, <2>2 DEF Pit
  <2>5. drift' = y % Long
    <3>1. CASE drift # 0 /\ Whole # 0
      BY <2>1, <2>3, <3>1 DEF Pit, CorrectDrift, Corrected
    <3>2. CASE ~(drift # 0 /\ Whole # 0)
      <4>1. drift' = drift /\ y = drift
        BY <2>0, <2>1, <2>3, <3>2 DEF Pit, CorrectDrift, Corrected
      <4> QED BY <2>0, <4>1, ModSmall
    <3> QED BY <3>1, <3>2
  <2>6. x + y = ticks + drift + perIrq
    BY <2>0, <2>2, <2>3
  <2>7. (ticks' + drift') % Long = (x + y) % Long
    BY <2>0, <2>4, <2>5, ModSum, Zenon
  <2> QED BY <2>6, <2>7
<1>2. Types /\ [ClockNext]_clock_vars =>
        [ticks' # ticks => (ticks' + drift') % Long = (ticks + drift + perIrq) % Long]_clock_vars
  BY <1>1
<1> QED BY <1>2, TypesHold, PTL DEF ClockSpec, DriftConserved

LEMMA HalfIs == Word \div 2 \in Nat /\ 2 * (Word \div 2) = Word
<1>1. Word \in Int /\ Word % 2 = 0
  BY WordIs, ClockAssumption
<1>2. PICK q \in Int, r \in 0 .. 1 : q = Word \div 2 /\ r = Word % 2 /\ Word = q * 2 + r
  BY <1>1, Division
<1>3. Word = 2 * q
  BY <1>1, <1>2
<1> QED BY <1>2, <1>3, WordIs

LEMMA SmallWord ==
  ASSUME NEW x \in 0 .. Long - 1, x < Word \div 2
  PROVE  Hi(x) = 0 /\ Lo(x) = x /\ Signed(x) = x
<1>1. x \in 0 .. Word - 1 /\ x \in Int /\ x = 0 * Word + x
  BY HalfIs, WordIs
<1>2. x \div Word = 0 /\ x % Word = x
  BY <1>1, WordIs, Divided
<1>3. ~(x >= Word \div 2)
  BY <1>1, HalfIs
<1> QED BY <1>2, <1>3 DEF Hi, Lo, Signed

(* The whole ticks are a word below its sign, as its half is a fraction.   *)
LEMMA WholeIsSmall == ASSUME Types, Frac > 1 PROVE Whole < Word \div 2
<1>0. Word \in Nat \ {0} /\ Frac \in Nat \ {0} /\ cumulated + rate \in Int
  BY WordIs DEF Types
<1>1. PICK b \in 0 .. Word - 1 : b = (cumulated + rate) % Word
  BY <1>0, Division
<1>2. b \in Int /\ b \in Nat
  BY <1>0
<1>3. PICK q \in Int, s \in 0 .. Frac - 1 : q = b \div Frac /\ s = b % Frac /\ b = q * Frac + s
  BY <1>0, <1>2, Division, Zenon
<1>4. q = Whole
  BY <1>1, <1>3 DEF Whole
<1>5. b = q * Frac + s
  BY <1>3
<1>6. q \in Nat
  BY <1>0, <1>2, <1>5, QuotientSign
<1>7. q * Frac >= q * 2 /\ q * Frac \in Int
  BY <1>0, <1>6
<1>8. q * 2 <= b /\ b < Word
  BY <1>0, <1>2, <1>5, <1>7
<1> QED BY <1>0, <1>2, <1>4, <1>6, <1>8, HalfIs

(* A positive drift is corrected by the smaller of the whole ticks and     *)
(* itself, unless its low word alone has a sign.                           *)
LEMMA CorrectionIsSmall ==
  ASSUME Types, Positive, ~Sudden
  PROVE  Corrected <= Whole /\ Corrected <= drift
<1>0. /\ Word \in Nat \ {0, 1, 2} /\ Word \div 2 \in Nat /\ 2 * (Word \div 2) = Word
      /\ drift \in 0 .. Long - 1 /\ drift \in Int /\ Long \in Nat
  BY WordIs, HalfIs DEF Types
<1>1. Whole \in 0 .. Word - 1 /\ Whole < Word \div 2 /\ Whole \in 0 .. Long - 1
  BY WholeIs, WholeIsSmall, WordIs
<1>2. CASE Hi(drift) = 0
  <2>1. drift < Word \div 2
    BY <1>0, <1>2 DEF Sudden
  <2>2. Signed(Whole) = Whole
    BY <1>1, SmallWord
  <2>3. Lo(drift) = drift /\ Signed(drift) = drift
    BY <1>0, <2>1, SmallWord
  <2>4. ~(Hi(drift) >= Word \div 2)
    BY <1>0, <1>2
  <2>5. Correction = IF Whole < drift THEN Whole ELSE drift
    BY <1>2, <2>2, <2>3, <2>4 DEF Correction
  <2> QED BY <1>0, <1>1, <2>5 DEF Corrected
<1>3. CASE Hi(drift) # 0
  <2>1. PICK h \in 0 .. Word - 1, l \in 0 .. Word - 1 : h = Hi(drift) /\ l = Lo(drift) /\ h * Word + l = drift
    BY <1>0, InWord, InLong
  <2>2. h < Word \div 2
    <3>1. CASE h >= Word \div 2
      <4>1. PICK e \in Nat : e = Word \div 2 /\ Word = 2 * e
        BY <1>0
      <4>2. Long = 2 * (e * Word)
        BY <1>0, <4>1 DEF Long
      <4>3. e * Word \in Nat
        BY <1>0, <4>1
      <4>4. Long \div 2 = e * Word
        BY <4>2, <4>3
      <4>5. h * Word >= e * Word
        BY <1>0, <2>1, <3>1, <4>1
      <4>6. h * Word \in Int
        BY <1>0, <2>1
      <4> QED BY <2>1, <4>3, <4>4, <4>5, <4>6 DEF Positive
    <3> QED BY <1>0, <2>1, <3>1
  <2>3. Hi(drift) # 0 /\ Hi(drift) # Word - 1 /\ ~(Hi(drift) >= Word \div 2)
    BY <1>0, <1>3, <2>1, <2>2
  <2>4. Correction = Whole
    BY <2>3 DEF Correction
  <2>5. h * Word >= Word
    <3>1. h >= 1
      BY <1>3, <2>1
    <3> QED BY <1>0, <2>1, <3>1
  <2>6. drift >= Word
    <3>1. h * Word \in Int
      BY <1>0, <2>1
    <3> QED BY <1>0, <2>1, <2>5, <3>1
  <2> QED BY <1>0, <1>1, <2>4, <2>6 DEF Corrected
<1> QED BY <1>2, <1>3

(* What an interrupt adds beside the ticks of the PIT, as the count shows  *)
(* it, whether the count wraps or not.                                     *)
LEMMA CountMoves ==
  ASSUME Types, Pit
  PROVE  (ticks' - ticks - perIrq) % Long = Corrected
<1>0. /\ Long \in Nat \ {0} /\ ticks \in Int /\ perIrq \in Int
      /\ Corrected \in 0 .. Word - 1 /\ Corrected \in 0 .. Long - 1 /\ Corrected \in Int
  BY WordIs, CorrectionIs DEF Types
<1>2. PICK x \in Int : x = ticks + Corrected + perIrq
  BY <1>0
<1>3. PICK q \in Int, r \in 0 .. Long - 1 : q = x \div Long /\ r = x % Long /\ x = q * Long + r
  BY <1>0, Division, Zenon
<1>4. ticks' = r
  BY <1>2, <1>3 DEF Pit
<1>5. PICK z \in Int : z = ticks' - ticks - perIrq
  <2>1. r \in Int
    BY <1>0
  <2> QED BY <1>0, <1>4, <2>1
<1>6. z = Corrected + (-q) * Long /\ -q \in Int
  <2>1. x = q * Long + r
    BY <1>3
  <2>2. (-q) * Long = -(q * Long) /\ q * Long \in Int /\ -q \in Int
    BY <1>0
  <2>3. r \in Int
    BY <1>0
  <2> QED BY <1>0, <1>2, <1>4, <1>5, <2>1, <2>2, <2>3
<1>7. z % Long = Corrected % Long
  <2>1. PICK k \in Int : z = Corrected + k * Long
    BY <1>6
  <2>2. Corrected \in Int /\ Long \in Nat \ {0}
    BY <1>0
  <2> QED BY <2>1, <2>2, Congruent, Zenon
<1>8. Corrected % Long = Corrected
  BY <1>0, ModSmall
<1> QED BY <1>5, <1>7, <1>8

(* For every width of the words, every drift that was given, of either     *)
(* sign, half-written ones included, and every rate: while the drift in    *)
(* memory is positive and its low word alone has no sign, the count never  *)
(* leaps by more than the rate and the one tick that fractions have summed *)
(* up to, and the drift goes towards zero and never past it.               *)
THEOREM DriftGoesGently == ClockSpec => DriftIsProgressive
<1>1. ASSUME Types, Positive, ~Sudden, [ClockNext]_clock_vars, ticks' # ticks
      PROVE  (ticks' - ticks - perIrq) % Long <= rate \div Frac + 1 /\ drift' <= drift
  <2>1. Pit
    BY <1>1, OthersLeaveTicks
  <2>2. (ticks' - ticks - perIrq) % Long = Corrected
    BY <1>1, <2>1, CountMoves
  <2>3. Corrected <= Whole /\ Corrected <= drift /\ Whole <= (rate \div Frac) + 1
    BY <1>1, CorrectionIsSmall, WholeIs
  <2>4. Whole \in Int /\ rate \div Frac \in Int /\ Corrected \in 0 .. Word - 1
    BY <1>1, WholeIs, WordIs, Division, CorrectionIs DEF Types
  <2>5. drift' <= drift
    <3>0. drift \in 0 .. Long - 1 /\ Long \in Nat \ {0}
      BY <1>1, WordIs DEF Types
    <3>1. CASE drift # 0 /\ Whole # 0
      <4>1. Corrected = Correction
        BY <3>1 DEF Corrected
      <4>2. PICK y \in 0 .. Long - 1 : y = drift - Correction
        BY <2>3, <2>4, <3>0, <4>1, WordIs
      <4>3. drift' = y % Long
        BY <2>1, <3>1, <4>2 DEF Pit, CorrectDrift
      <4>4. drift' = y
        BY <3>0, <4>2, <4>3, ModSmall
      <4> QED BY <2>4, <3>0, <4>1, <4>2, <4>4, WordIs
    <3>2. CASE ~(drift # 0 /\ Whole # 0)
      BY <2>1, <3>0, <3>2 DEF Pit, CorrectDrift
    <3> QED BY <3>1, <3>2
  <2> QED BY <2>2, <2>3, <2>4, <2>5, WordIs
<1>2. Types /\ [ClockNext]_clock_vars =>
        [Positive /\ ~Sudden =>
           /\ (ticks' - ticks - perIrq) % Long <= rate \div Frac + 1
           /\ drift' <= drift]_<<ticks>>
  BY <1>1
<1> QED BY <1>2, TypesHold, PTL DEF ClockSpec, DriftIsProgressive

-----------------------------------------------------------------------------

(* A negative drift whose low word has the sign too when the high word is  *)
(* all ones.                                                               *)
Negative == Hi(drift) >= Word \div 2 /\ (Hi(drift) = Word - 1 => Lo(drift) >= Word \div 2)

(* The count leaps by half of the values of a word or more.                *)
NegativeDriftLeaps ==
  [][Negative /\ Whole # 0 => (ticks' - ticks - perIrq) % Long >= Word \div 2]_<<ticks>>

(* avalon.asm:1759 calls the drift a signed one.  For every width of the   *)
(* words, whatever the rate: the word that the interrupt takes from a      *)
(* negative drift is added to the count as it stands, without its sign, so *)
(* each correction is a leap forwards where a step back was asked for.     *)
THEOREM NegativeDriftsLeap == ClockSpec => NegativeDriftLeaps
<1>1. ASSUME Types, Negative, Whole # 0, [ClockNext]_clock_vars, ticks' # ticks
      PROVE  (ticks' - ticks - perIrq) % Long >= Word \div 2
  <2>0. /\ Word \in Nat \ {0, 1, 2} /\ Word \div 2 \in Nat /\ 2 * (Word \div 2) = Word
        /\ drift \in 0 .. Long - 1 /\ drift \in Int
    BY <1>1, WordIs, HalfIs DEF Types
  <2>1. Pit
    BY <1>1, OthersLeaveTicks
  <2>2. (ticks' - ticks - perIrq) % Long = Corrected
    BY <1>1, <2>1, CountMoves
  <2>3. Whole \in 1 .. Word - 1 /\ Whole < Word \div 2
    BY <1>1, WholeIs, WholeIsSmall, WordIs
  <2>4. PICK w \in 0 .. Word - 1 : w = Word - Whole /\ w > Word \div 2
    BY <2>0, <2>3
  <2>5. (Word - Whole) % Word = w
    BY <2>0, <2>4, ModSmall
  <2>6. Hi(drift) \in 0 .. Word - 1 /\ Hi(drift) # 0 /\ Hi(drift) >= Word \div 2
    BY <1>1, <2>0, InLong DEF Negative
  <2>7. Hi(drift) = Word - 1 => Correction = w \/ Correction = Lo(drift)
    BY <2>5, <2>6 DEF Correction
  <2>8. Hi(drift) # Word - 1 => Correction = w
    BY <2>5, <2>6 DEF Correction
  <2>9. Correction = w \/ (Correction = Lo(drift) /\ Lo(drift) >= Word \div 2)
    BY <1>1, <2>7, <2>8 DEF Negative
  <2>10. drift # 0
    <3>1. Hi(0) = 0
      BY <2>0, SmallWord, WordIs
    <3> QED BY <2>6, <3>1
  <2>11. Corrected = Correction
    BY <1>1, <2>10 DEF Corrected
  <2> QED BY <2>0, <2>2, <2>4, <2>9, <2>11
<1>2. Types /\ [ClockNext]_clock_vars =>
        [Negative /\ Whole # 0 => (ticks' - ticks - perIrq) % Long >= Word \div 2]_<<ticks>>
  BY <1>1
<1> QED BY <1>2, TypesHold, PTL DEF ClockSpec, NegativeDriftLeaps

-----------------------------------------------------------------------------

(* The interrupt either fires the resolution's timer or leaves it there.   *)
LEMMA PitKeepsChange ==
  ASSUME Types, ResolutionNotForgotten, Pit
  PROVE  ResolutionNotForgotten'
<1>1. PICK now \in Int :
        /\ timers' = SubSeq(timers, DueCount(now) + 1, Len(timers))
        /\ IF \E i \in 1 .. DueCount(now) : timers[i] = Change
           THEN perIrq' = newPerIrq ELSE perIrq' = perIrq
  <2>1. (ticks + Corrected + perIrq) % Long \in Int
    <3>1. ticks + Corrected + perIrq \in Int /\ Long \in Nat \ {0}
      BY WordIs, CorrectionIs DEF Types
    <3> QED BY <3>1, Division
  <2> QED BY <2>1 DEF Pit
<1>2. PICK k \in 0 .. Len(timers) : k = DueCount(now)
  BY DueIs
<1>3. newPerIrq' = newPerIrq /\ call' = call
  BY DEF Pit
<1>4. CASE \E i \in 1 .. k : timers[i] = Change
  BY <1>1, <1>2, <1>3, <1>4 DEF ResolutionNotForgotten
<1>5. CASE ~ \E i \in 1 .. k : timers[i] = Change
  <2>1. perIrq' = perIrq /\ timers' = SubSeq(timers, k + 1, Len(timers))
    BY <1>1, <1>2, <1>5
  <2>2. Change \in ToSet(timers) => Change \in ToSet(timers')
    <3>1. timers \in Seq(Int)
      BY DEF Types
    <3> QED BY <1>5, <2>1, <3>1, CutRing
  <2> QED BY <1>3, <2>1, <2>2 DEF ResolutionNotForgotten
<1> QED BY <1>4, <1>5

(* For any resolutions, any times and any timers in the ring, wherever the *)
(* interrupts come: the number of ticks that was asked for last is the one *)
(* in use, or its timer is in the ring or about to be linked.              *)
THEOREM ResolutionIsProgrammed == ClockSpec => []ResolutionNotForgotten
<1>1. ClockInit => ResolutionNotForgotten
  BY DEF ClockInit, ResolutionNotForgotten, ToSet
<1>2. ASSUME Types, ResolutionNotForgotten, [ClockNext]_clock_vars
      PROVE  ResolutionNotForgotten'
  <2>1. CASE Pit
    BY <1>2, <2>1, PitKeepsChange
  <2>2. ASSUME NEW n \in Resolutions, SetResolution(n) PROVE ResolutionNotForgotten'
    <3>1. call'.at = "load"
      BY <2>2 DEF SetResolution, Enter
    <3> QED BY <3>1 DEF ResolutionNotForgotten
  <2>3. CASE LinkChange
    <3>1. timers \in Seq(Int) /\ timers' = IF Change \in ToSet(timers) THEN timers ELSE <<Change>> \o timers
      BY <1>2, <2>3 DEF LinkChange, Types
    <3>2. Change \in ToSet(<<Change>> \o timers)
      <4>1. (<<Change>> \o timers)[1] = Change /\ 1 \in 1 .. Len(<<Change>> \o timers)
        BY <3>1
      <4> QED BY <4>1 DEF ToSet
    <3> QED BY <3>1, <3>2 DEF ResolutionNotForgotten
  <2>4. CASE LoadTime
    <3>1. call'.at \in {"load", "store"}
      BY <2>4 DEF LoadTime
    <3> QED BY <3>1 DEF ResolutionNotForgotten
  <2>5. CASE StoreTime
    <3>1. call'.at = "store"
      BY <1>2, <2>5 DEF StoreTime, Types
    <3> QED BY <3>1 DEF ResolutionNotForgotten
  <2>6. ASSUME NEW d \in Delays, SetThreadTimer(d) PROVE ResolutionNotForgotten'
    <3>1. Change \in ToSet(timers) => Change \in ToSet(timers')
      BY <1>2, <2>6, TimerPut
    <3>2. UNCHANGED <<perIrq, newPerIrq, call>>
      BY <2>6 DEF SetThreadTimer
    <3> QED BY <1>2, <3>1, <3>2 DEF ResolutionNotForgotten
  <2>7. ASSUME call.at \notin {"load", "store"}, UNCHANGED <<perIrq, newPerIrq, timers>>
        PROVE  ResolutionNotForgotten'
    BY <1>2, <2>7 DEF ResolutionNotForgotten
  <2>8. \A d \in Drifts : CorrectTickDrift(d) => call.at \notin {"load", "store"} /\ UNCHANGED <<perIrq, newPerIrq, timers>>
    BY DEF CorrectTickDrift, Enter, NoCall
  <2>9. \A t \in Times : SetTime(t) => call.at \notin {"load", "store"} /\ UNCHANGED <<perIrq, newPerIrq, timers>>
    BY DEF SetTime, Enter, NoCall
  <2>10. StoreDriftHigh \/ Adjust => call.at \notin {"load", "store"} /\ UNCHANGED <<perIrq, newPerIrq, timers>>
    BY DEF StoreDriftHigh, Adjust
  <2>11. \A r \in Rates : SetRate(r) => UNCHANGED <<perIrq, newPerIrq, timers, call>>
    BY DEF SetRate
  <2>12. ASSUME UNCHANGED <<perIrq, newPerIrq, timers, call>> PROVE ResolutionNotForgotten'
    BY <1>2, <2>12 DEF ResolutionNotForgotten
  <2>13. CASE UNCHANGED clock_vars
    BY <2>12, <2>13 DEF clock_vars
  <2> QED BY <1>2, <2>1, <2>2, <2>3, <2>4, <2>5, <2>6, <2>7, <2>8, <2>9, <2>10, <2>11, <2>12, <2>13 DEF ClockNext
<1> QED BY <1>1, <1>2, TypesHold, PTL DEF ClockSpec
=============================================================================
