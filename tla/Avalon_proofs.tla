--------------------------- MODULE Avalon_proofs ---------------------------
(***************************************************************************)
(* The scheduler, for any number of threads, priorities, delays and ticks. *)
(*                                                                         *)
(* Nothing is assumed of the callers: thread.schedule is interrupted       *)
(* between any two of its steps, other threads run and schedule meanwhile, *)
(* and the switch to another thread gets lost.                             *)
(***************************************************************************)
EXTENDS Avalon, WellFoundedInduction, TLAPS

Below == {ss \in Nat \X Nat : ss[1] < ss[2]}

(* A set of natural numbers has a least one, and Min finds it.             *)
LEMMA MinOfNats ==
  ASSUME NEW B, B \subseteq Nat, B # {}
  PROVE  Min(B) \in B /\ \A y \in B : Min(B) <= y
<1>1. IsWellFoundedOn(Below, Nat)
  BY NatLessThanWellFounded DEF OpToRel, Below
<1>2. PICK x \in B : \A y \in B : ~(<<y, x>> \in Below)
  BY <1>1, WFMin, Zenon
<1>3. ASSUME NEW y \in B
      PROVE  x <= y
  <2>1. x \in Nat /\ y \in Nat /\ <<y, x>> \in Nat \X Nat
    OBVIOUS
  <2>2. ~(<<y, x>>[1] < <<y, x>>[2])
    BY <1>2, <2>1, Zenon DEF Below
  <2> QED BY <2>1, <2>2
<1>4. Min(B) \in B /\ \A y \in B : Min(B) <= y
  BY <1>3, Zenon DEF Min
<1> QED BY <1>4

-----------------------------------------------------------------------------
(* Sequences with an element put in, taken out, or without their head.     *)

LEMMA JoinElements ==
  ASSUME NEW S, NEW a \in Seq(S), NEW b \in Seq(S)
  PROVE  /\ a \o b \in Seq(S)
         /\ Len(a \o b) = Len(a) + Len(b)
         /\ \A j \in 1 .. Len(a) : (a \o b)[j] = a[j]
         /\ \A j \in 1 .. Len(b) : (a \o b)[Len(a) + j] = b[j]
OBVIOUS

LEMMA RemoveAtElements ==
  ASSUME NEW S, NEW s \in Seq(S), NEW i \in 1 .. Len(s)
  PROVE  /\ RemoveAt(s, i) \in Seq(S)
         /\ Len(RemoveAt(s, i)) = Len(s) - 1
         /\ \A j \in 1 .. Len(s) - 1 : RemoveAt(s, i)[j] = IF j < i THEN s[j] ELSE s[j + 1]
<1> DEFINE a == SubSeq(s, 1, i - 1)
           b == SubSeq(s, i + 1, Len(s))
<1>1. a \in Seq(S) /\ Len(a) = i - 1 /\ \A j \in 1 .. i - 1 : a[j] = s[j]
  OBVIOUS
<1>2. b \in Seq(S) /\ Len(b) = Len(s) - i /\ \A j \in 1 .. Len(s) - i : b[j] = s[i + j]
  OBVIOUS
<1> HIDE DEF a, b
<1> DEFINE d == a \o b
<1> HIDE DEF d
<1>6. a \in Seq(S) /\ b \in Seq(S)
  BY <1>1, <1>2
<1>0. /\ d \in Seq(S) /\ Len(d) = Len(a) + Len(b)
      /\ \A j \in 1 .. Len(a) : d[j] = a[j]
      /\ \A j \in 1 .. Len(b) : d[Len(a) + j] = b[j]
  BY <1>6, JoinElements DEF d
<1>3. /\ d \in Seq(S) /\ Len(d) = Len(s) - 1
      /\ \A j \in 1 .. i - 1 : d[j] = a[j]
      /\ \A j \in 1 .. Len(s) - i : d[i - 1 + j] = b[j]
  BY <1>0, <1>1, <1>2
<1>4. \A j \in 1 .. Len(s) - 1 : d[j] = IF j < i THEN s[j] ELSE s[j + 1]
  <2> SUFFICES ASSUME NEW j \in 1 .. Len(s) - 1
               PROVE  d[j] = IF j < i THEN s[j] ELSE s[j + 1]
    OBVIOUS
  <2>1. CASE j < i
    BY <1>1, <1>3, <2>1
  <2>2. CASE j >= i
    <3>1. j - i + 1 \in 1 .. Len(s) - i /\ i - 1 + (j - i + 1) = j /\ i + (j - i + 1) = j + 1
      BY <2>2
    <3>2. PICK k \in 1 .. Len(s) - i : i - 1 + k = j /\ i + k = j + 1
      BY <3>1, Zenon
    <3>3. d[i - 1 + k] = b[k]
      BY <1>3
    <3>4. b[k] = s[i + k]
      BY <1>2
    <3> QED BY <2>2, <3>2, <3>3, <3>4
  <2> QED BY <2>1, <2>2
<1>5. RemoveAt(s, i) = d
  BY DEF RemoveAt, a, b, d
<1> QED BY <1>3, <1>4, <1>5, Zenon

LEMMA TailElements ==
  ASSUME NEW S, NEW s \in Seq(S), s # <<>>
  PROVE  /\ Tail(s) \in Seq(S)
         /\ Len(s) \in Nat \ {0}
         /\ Len(Tail(s)) = Len(s) - 1
         /\ \A j \in 1 .. Len(s) - 1 : Tail(s)[j] = s[j + 1]
OBVIOUS

(* Where the elements of the new sequence come from and where those of the *)
(* old one are.                                                            *)
LEMMA Inserted ==
  ASSUME NEW S, NEW s \in Seq(S), NEW e \in S, NEW i \in 1 .. Len(s) + 1,
         NEW d, d = InsertAt(s, i, e)
  PROVE  /\ d \in Seq(S) /\ Len(d) = Len(s) + 1
         /\ d[i] = e
         /\ i # 1 => d[1] = s[1]
         /\ \A j \in 1 .. Len(d) : j # i =>
              \E a \in 1 .. Len(s) : d[j] = s[a] /\ a = IF j < i THEN j ELSE j - 1
         /\ \A a \in 1 .. Len(s) : \E j \in 1 .. Len(d) : j # i /\ d[j] = s[a]
<1>1. /\ d \in Seq(S) /\ Len(d) = Len(s) + 1
      /\ \A j \in 1 .. Len(s) + 1 : d[j] = IF j < i THEN s[j] ELSE IF j = i THEN e ELSE s[j - 1]
  <2> DEFINE a == SubSeq(s, 1, i - 1)
             b == SubSeq(s, i, Len(s))
  <2>1. a \in Seq(S) /\ Len(a) = i - 1 /\ \A j \in 1 .. i - 1 : a[j] = s[j]
    OBVIOUS
  <2>2. b \in Seq(S) /\ Len(b) = Len(s) - i + 1 /\ \A j \in 1 .. Len(s) - i + 1 : b[j] = s[i + j - 1]
    OBVIOUS
  <2>3. <<e>> \in Seq(S) /\ Len(<<e>>) = 1 /\ <<e>>[1] = e
    OBVIOUS
  <2> HIDE DEF a, b
  <2>4. /\ a \o <<e>> \in Seq(S) /\ Len(a \o <<e>>) = i
        /\ \A j \in 1 .. i : (a \o <<e>>)[j] = IF j < i THEN s[j] ELSE e
    BY <2>1, <2>3
  <2> DEFINE c == a \o <<e>>
  <2> HIDE DEF c
  <2>5. /\ c \in Seq(S) /\ Len(c) = i
        /\ \A j \in 1 .. i : c[j] = IF j < i THEN s[j] ELSE e
    BY <2>4 DEF c
  <2>0. d = c \o b
    BY DEF InsertAt, a, b, c
  <2>6. /\ d \in Seq(S) /\ Len(d) = Len(c) + Len(b)
        /\ \A j \in 1 .. Len(c) : d[j] = c[j]
        /\ \A j \in 1 .. Len(b) : d[Len(c) + j] = b[j]
    <3>1. c \in Seq(S) /\ b \in Seq(S)
      BY <2>2, <2>5
    <3>2. /\ c \o b \in Seq(S) /\ Len(c \o b) = Len(c) + Len(b)
          /\ \A j \in 1 .. Len(c) : (c \o b)[j] = c[j]
          /\ \A j \in 1 .. Len(b) : (c \o b)[Len(c) + j] = b[j]
      BY <3>1, JoinElements
    <3> QED BY <2>0, <3>2, Zenon
  <2>7. \A j \in 1 .. Len(s) + 1 : j > i => d[j] = s[j - 1]
    <3> SUFFICES ASSUME NEW j \in 1 .. Len(s) + 1, j > i PROVE d[j] = s[j - 1]
      OBVIOUS
    <3>1. j - i \in 1 .. Len(s) - i + 1 /\ i + (j - i) = j
      OBVIOUS
    <3>2. PICK k \in 1 .. Len(s) - i + 1 : i + k = j
      BY <3>1, Zenon
    <3>3. d[i + k] = b[k]
      BY <2>2, <2>5, <2>6
    <3>4. b[k] = s[i + k - 1]
      BY <2>2
    <3> QED BY <3>2, <3>3, <3>4
  <2>8. \A j \in 1 .. Len(s) + 1 : d[j] = IF j < i THEN s[j] ELSE IF j = i THEN e ELSE s[j - 1]
    <3> SUFFICES ASSUME NEW j \in 1 .. Len(s) + 1
                 PROVE  d[j] = IF j < i THEN s[j] ELSE IF j = i THEN e ELSE s[j - 1]
      OBVIOUS
    <3>1. CASE j > i
      BY <2>7, <3>1
    <3>2. CASE j <= i
      <4>1. d[j] = c[j]
        BY <2>5, <2>6, <3>2
      <4> QED BY <2>5, <3>2, <4>1
    <3> QED BY <3>1, <3>2
  <2>9. Len(d) = Len(s) + 1
    BY <2>2, <2>5, <2>6
  <2> QED BY <2>6, <2>8, <2>9, Zenon
<1>2. d[i] = e /\ (i # 1 => d[1] = s[1])
  BY <1>1
<1>3. \A j \in 1 .. Len(d) : j # i =>
        \E a \in 1 .. Len(s) : d[j] = s[a] /\ a = IF j < i THEN j ELSE j - 1
  BY <1>1
<1>4. ASSUME NEW a \in 1 .. Len(s)
      PROVE  \E j \in 1 .. Len(d) : j # i /\ d[j] = s[a]
  <2>1. CASE a < i
    BY <2>1, <1>1
  <2>2. CASE a >= i
    <3>1. a + 1 \in 1 .. Len(s) + 1 /\ ~(a + 1 < i) /\ a + 1 # i /\ (a + 1) - 1 = a
      BY <2>2
    <3>2. d[a + 1] = s[a]
      BY <1>1, <3>1
    <3> QED BY <1>1, <3>1, <3>2
  <2> QED BY <2>1, <2>2
<1> QED BY <1>1, <1>2, <1>3, <1>4

LEMMA Removed ==
  ASSUME NEW S, NEW s \in Seq(S), NEW i \in 1 .. Len(s),
         NEW d, d = RemoveAt(s, i) \/ (i = 1 /\ d = Tail(s))
  PROVE  /\ d \in Seq(S) /\ Len(d) = Len(s) - 1
         /\ \A j \in 1 .. Len(d) :
              \E a \in 1 .. Len(s) : a # i /\ d[j] = s[a] /\ a = IF j < i THEN j ELSE j + 1
         /\ \A a \in 1 .. Len(s) : a # i => \E j \in 1 .. Len(d) : d[j] = s[a]
<1>1. /\ d \in Seq(S) /\ Len(d) = Len(s) - 1
      /\ \A j \in 1 .. Len(s) - 1 : d[j] = IF j < i THEN s[j] ELSE s[j + 1]
  <2>1. CASE d = RemoveAt(s, i)
    BY <2>1, RemoveAtElements
  <2>2. CASE i = 1 /\ d = Tail(s)
    <3>1. s # <<>>
      OBVIOUS
    <3> QED BY <2>2, <3>1, TailElements
  <2> QED BY <2>1, <2>2
<1>2. \A j \in 1 .. Len(d) :
        \E a \in 1 .. Len(s) : a # i /\ d[j] = s[a] /\ a = IF j < i THEN j ELSE j + 1
  BY <1>1
<1>3. ASSUME NEW a \in 1 .. Len(s), a # i
      PROVE  \E j \in 1 .. Len(d) : d[j] = s[a]
  <2>1. CASE a < i
    BY <2>1, <1>1
  <2>2. CASE a > i
    <3>1. a - 1 \in 1 .. Len(s) - 1 /\ ~(a - 1 < i) /\ (a - 1) + 1 = a
      BY <2>2
    <3>2. d[a - 1] = s[a]
      BY <1>1, <3>1
    <3> QED BY <1>1, <3>1, <3>2
  <2> QED BY <2>1, <2>2, <1>3
<1> QED BY <1>1, <1>2, <1>3

-----------------------------------------------------------------------------
(* The timer ring.                                                         *)

In(s, t, kind) == \E i \in 1 .. Len(s) : s[i].thread = t /\ s[i].kind = kind

TimersOnce(s) ==
  \A i, j \in 1 .. Len(s) : s[i].thread = s[j].thread /\ s[i].kind = s[j].kind => i = j

(* The place link_ordered finds is one of the ring, and the first that is  *)
(* not less.                                                               *)
LEMMA FirstPlace ==
  ASSUME NEW n \in Nat, NEW B, B \subseteq 1 .. n
  PROVE  /\ Min({n + 1} \cup B) \in 1 .. n + 1
         /\ \A j \in B : Min({n + 1} \cup B) <= j
<1> DEFINE C == {n + 1} \cup B
<1>1. C \subseteq Nat /\ C # {} /\ C \subseteq 1 .. n + 1 /\ B \subseteq C
  OBVIOUS
<1> HIDE DEF C
<1>2. Min(C) \in C /\ \A j \in C : Min(C) <= j
  BY <1>1, MinOfNats, Zenon
<1>3. Min(C) \in 1 .. n + 1 /\ \A j \in B : Min(C) <= j
  BY <1>1, <1>2, Zenon
<1> QED BY <1>3 DEF C

LEMMA TimerAdded ==
  ASSUME NEW s \in Seq(Timer), NEW n \in Timer
  PROVE  /\ WithTimer(s, n) \in Seq(Timer)
         /\ \A t, kind : In(WithTimer(s, n), t, kind) <=> In(s, t, kind) \/ (n.thread = t /\ n.kind = kind)
         /\ TimersOnce(s) /\ ~In(s, n.thread, n.kind) => TimersOnce(WithTimer(s, n))
<1> DEFINE B == {j \in 1 .. Len(s) : n.due <= s[j].due}
           i == Min({Len(s) + 1} \cup B)
           d == InsertAt(s, i, n)
<1>0. Len(s) \in Nat /\ B \subseteq 1 .. Len(s)
  OBVIOUS
<1>1. i \in 1 .. Len(s) + 1
  BY <1>0, FirstPlace, Zenon
<1>2. WithTimer(s, n) = d
  BY DEF WithTimer
<1> HIDE DEF i, B
<1>3. /\ d \in Seq(Timer) /\ Len(d) = Len(s) + 1
      /\ d[i] = n
      /\ \A j \in 1 .. Len(d) : j # i =>
           \E a \in 1 .. Len(s) : d[j] = s[a] /\ a = IF j < i THEN j ELSE j - 1
      /\ \A a \in 1 .. Len(s) : \E j \in 1 .. Len(d) : j # i /\ d[j] = s[a]
  BY <1>1, Inserted
<1> HIDE DEF d
<1>4. ASSUME NEW t, NEW kind
      PROVE  In(d, t, kind) <=> In(s, t, kind) \/ (n.thread = t /\ n.kind = kind)
  BY <1>1, <1>3 DEF In
<1>5. ASSUME TimersOnce(s), ~In(s, n.thread, n.kind),
             NEW j \in 1 .. Len(d), NEW k \in 1 .. Len(d),
             d[j].thread = d[k].thread, d[j].kind = d[k].kind
      PROVE  j = k
  <2>1. \A l \in 1 .. Len(s) : ~(s[l].thread = n.thread /\ s[l].kind = n.kind)
    BY <1>5 DEF In
  <2>2. CASE j = i
    <3>1. k # i => \E a \in 1 .. Len(s) : d[k] = s[a]
      BY <1>3
    <3> QED BY <2>1, <2>2, <3>1, <1>3, <1>5
  <2>3. CASE k = i
    <3>1. j # i => \E a \in 1 .. Len(s) : d[j] = s[a]
      BY <1>3
    <3> QED BY <2>1, <2>3, <3>1, <1>3, <1>5
  <2>4. CASE j # i /\ k # i
    <3>1. PICK a \in 1 .. Len(s) : d[j] = s[a] /\ a = IF j < i THEN j ELSE j - 1
      BY <2>4, <1>3
    <3>2. PICK b \in 1 .. Len(s) : d[k] = s[b] /\ b = IF k < i THEN k ELSE k - 1
      BY <2>4, <1>3
    <3>3. a = b
      BY <3>1, <3>2, <1>5 DEF TimersOnce
    <3>4. i \in Int /\ j \in Int /\ k \in Int
      BY <1>1, <1>3
    <3> QED BY <2>4, <3>1, <3>2, <3>3, <3>4
  <2> QED BY <2>2, <2>3, <2>4
<1>6. TimersOnce(s) /\ ~In(s, n.thread, n.kind) => TimersOnce(d)
  BY <1>5 DEF TimersOnce
<1> QED BY <1>2, <1>3, <1>4, <1>6, Zenon

(* A ring from which the node at i is taken.                               *)
LEMMA TimerTaken ==
  ASSUME NEW s \in Seq(Timer), NEW i \in 1 .. Len(s), TimersOnce(s),
         NEW d, d = RemoveAt(s, i) \/ (i = 1 /\ d = Tail(s))
  PROVE  /\ d \in Seq(Timer)
         /\ \A t, kind : In(d, t, kind) <=> In(s, t, kind) /\ ~(s[i].thread = t /\ s[i].kind = kind)
         /\ TimersOnce(d)
<1>1. /\ d \in Seq(Timer) /\ Len(d) = Len(s) - 1
      /\ \A j \in 1 .. Len(d) :
           \E a \in 1 .. Len(s) : a # i /\ d[j] = s[a] /\ a = IF j < i THEN j ELSE j + 1
      /\ \A a \in 1 .. Len(s) : a # i => \E j \in 1 .. Len(d) : d[j] = s[a]
  BY Removed
<1>2. \A a \in 1 .. Len(s) : a # i => ~(s[a].thread = s[i].thread /\ s[a].kind = s[i].kind)
  BY DEF TimersOnce
<1>3. ASSUME NEW t, NEW kind
      PROVE  In(d, t, kind) <=> In(s, t, kind) /\ ~(s[i].thread = t /\ s[i].kind = kind)
  <2>1. ASSUME In(d, t, kind)
        PROVE  In(s, t, kind) /\ ~(s[i].thread = t /\ s[i].kind = kind)
    <3>1. PICK j \in 1 .. Len(d) : d[j].thread = t /\ d[j].kind = kind
      BY <2>1 DEF In
    <3>2. PICK a \in 1 .. Len(s) : a # i /\ d[j] = s[a]
      BY <1>1
    <3> QED BY <3>1, <3>2, <1>2 DEF In
  <2>2. ASSUME In(s, t, kind), ~(s[i].thread = t /\ s[i].kind = kind)
        PROVE  In(d, t, kind)
    <3>1. PICK a \in 1 .. Len(s) : s[a].thread = t /\ s[a].kind = kind
      BY <2>2 DEF In
    <3>2. PICK j \in 1 .. Len(d) : d[j] = s[a]
      BY <1>1, <2>2, <3>1
    <3> QED BY <3>1, <3>2 DEF In
  <2> QED BY <2>1, <2>2
<1>4. ASSUME NEW j \in 1 .. Len(d), NEW k \in 1 .. Len(d),
             d[j].thread = d[k].thread, d[j].kind = d[k].kind
      PROVE  j = k
  <2>1. PICK a \in 1 .. Len(s) : d[j] = s[a] /\ a = IF j < i THEN j ELSE j + 1
    BY <1>1
  <2>2. PICK b \in 1 .. Len(s) : d[k] = s[b] /\ b = IF k < i THEN k ELSE k + 1
    BY <1>1
  <2>3. a = b
    BY <2>1, <2>2, <1>4 DEF TimersOnce
  <2>4. i \in Int /\ j \in Int /\ k \in Int
    BY <1>1
  <2> QED BY <2>1, <2>2, <2>3, <2>4
<1>5. TimersOnce(d)
  BY <1>4 DEF TimersOnce
<1> QED BY <1>1, <1>3, <1>5, Zenon

LEMMA TimerRemoved ==
  ASSUME NEW s \in Seq(Timer), NEW t, NEW kind, TimersOnce(s)
  PROVE  /\ WithoutTimer(s, t, kind) \in Seq(Timer)
         /\ \A u, k : In(WithoutTimer(s, t, kind), u, k) <=> In(s, u, k) /\ ~(u = t /\ k = kind)
         /\ TimersOnce(WithoutTimer(s, t, kind))
<1> DEFINE at == {i \in 1 .. Len(s) : s[i].thread = t /\ s[i].kind = kind}
<1>1. CASE at = {}
  <2>1. WithoutTimer(s, t, kind) = s
    BY <1>1 DEF WithoutTimer
  <2>2. ~In(s, t, kind)
    BY <1>1 DEF In
  <2> QED BY <2>1, <2>2
<1>2. CASE at # {}
  <2> DEFINE i == Min(at)
             d == RemoveAt(s, i)
  <2>1. WithoutTimer(s, t, kind) = d
    BY <1>2 DEF WithoutTimer
  <2>2. at \subseteq Nat
    OBVIOUS
  <2>3. i \in at
    BY <1>2, <2>2, MinOfNats, Zenon
  <2> HIDE DEF i
  <2>4. i \in 1 .. Len(s) /\ s[i].thread = t /\ s[i].kind = kind
    BY <2>3
  <2>5. /\ d \in Seq(Timer)
        /\ \A u, k : In(d, u, k) <=> In(s, u, k) /\ ~(s[i].thread = u /\ s[i].kind = k)
        /\ TimersOnce(d)
    BY <2>4, TimerTaken
  <2> QED BY <2>1, <2>4, <2>5, Zenon
<1> QED BY <1>1, <1>2

-----------------------------------------------------------------------------
(* The ready ring.                                                         *)

ThreadsOnce(s) == \A i, j \in 1 .. Len(s) : s[i] = s[j] => i = j

LEMMA InReady ==
  ASSUME NEW s \in Seq(Threads), NEW t
  PROVE  t \in ToSet(s) <=> \E i \in 1 .. Len(s) : s[i] = t
<1>1. DOMAIN s = 1 .. Len(s)
  OBVIOUS
<1> QED BY <1>1 DEF ToSet

LEMMA ThreadAdded ==
  ASSUME NEW s \in Seq(Threads), NEW t \in Threads
  PROVE  /\ WithReady(s, t) \in Seq(Threads)
         /\ \A u : u \in ToSet(WithReady(s, t)) <=> u \in ToSet(s) \/ u = t
         /\ ThreadsOnce(s) /\ t \notin ToSet(s) => ThreadsOnce(WithReady(s, t))
         /\ s # <<>> /\ ~(priority[t] <= rank[s[1]]) => WithReady(s, t)[1] = s[1]
<1> DEFINE B == {j \in 1 .. Len(s) : priority[t] <= rank[s[j]]}
           i == Min({Len(s) + 1} \cup B)
           d == InsertAt(s, i, t)
<1>0. Len(s) \in Nat /\ B \subseteq 1 .. Len(s)
  OBVIOUS
<1>1. i \in 1 .. Len(s) + 1
  BY <1>0, FirstPlace, Zenon
<1>2. WithReady(s, t) = d
  BY DEF WithReady
<1>3. s # <<>> /\ ~(priority[t] <= rank[s[1]]) => i # 1
  <2> SUFFICES ASSUME s # <<>>, ~(priority[t] <= rank[s[1]]) PROVE i # 1
    OBVIOUS
  <2>1. Len(s) + 1 # 1 /\ 1 \notin B /\ {Len(s) + 1} \cup B \subseteq Nat
    OBVIOUS
  <2>2. i \in {Len(s) + 1} \cup B
    BY <2>1, MinOfNats, Zenon
  <2> HIDE DEF i, B
  <2> QED BY <2>1, <2>2
<1> HIDE DEF i, B
<1>4. /\ d \in Seq(Threads) /\ Len(d) = Len(s) + 1
      /\ d[i] = t
      /\ i # 1 => d[1] = s[1]
      /\ \A j \in 1 .. Len(d) : j # i =>
           \E a \in 1 .. Len(s) : d[j] = s[a] /\ a = IF j < i THEN j ELSE j - 1
      /\ \A a \in 1 .. Len(s) : \E j \in 1 .. Len(d) : j # i /\ d[j] = s[a]
  BY <1>1, Inserted
<1> HIDE DEF d
<1>5. ASSUME NEW u
      PROVE  u \in ToSet(d) <=> u \in ToSet(s) \/ u = t
  <2>1. (\E j \in 1 .. Len(d) : d[j] = u) <=> (\E a \in 1 .. Len(s) : s[a] = u) \/ u = t
    BY <1>1, <1>4
  <2>2. u \in ToSet(d) <=> \E j \in 1 .. Len(d) : d[j] = u
    BY <1>4, InReady
  <2>3. u \in ToSet(s) <=> \E a \in 1 .. Len(s) : s[a] = u
    BY InReady
  <2> QED BY <2>1, <2>2, <2>3, Zenon
<1>6. ASSUME ThreadsOnce(s), t \notin ToSet(s),
             NEW j \in 1 .. Len(d), NEW k \in 1 .. Len(d), d[j] = d[k]
      PROVE  j = k
  <2>1. \A l \in 1 .. Len(s) : s[l] # t
    BY <1>6, InReady
  <2>2. CASE j = i
    <3>1. k # i => \E a \in 1 .. Len(s) : d[k] = s[a]
      BY <1>4
    <3> QED BY <2>1, <2>2, <3>1, <1>4, <1>6
  <2>4. CASE k = i
    <3>1. j # i => \E a \in 1 .. Len(s) : d[j] = s[a]
      BY <1>4
    <3> QED BY <2>1, <2>4, <3>1, <1>4, <1>6
  <2>3. CASE j # i /\ k # i
    <3>1. PICK a \in 1 .. Len(s) : d[j] = s[a] /\ a = IF j < i THEN j ELSE j - 1
      BY <2>3, <1>4
    <3>2. PICK b \in 1 .. Len(s) : d[k] = s[b] /\ b = IF k < i THEN k ELSE k - 1
      BY <2>3, <1>4
    <3>3. a = b
      BY <3>1, <3>2, <1>6 DEF ThreadsOnce
    <3>4. i \in Int /\ j \in Int /\ k \in Int
      BY <1>1, <1>4
    <3> QED BY <2>3, <3>1, <3>2, <3>3, <3>4
  <2> QED BY <2>2, <2>3, <2>4
<1>7. ThreadsOnce(s) /\ t \notin ToSet(s) => ThreadsOnce(d)
  BY <1>6 DEF ThreadsOnce
<1> QED BY <1>2, <1>3, <1>4, <1>5, <1>7, Zenon

LEMMA ThreadRemoved ==
  ASSUME NEW s \in Seq(Threads), NEW t, ThreadsOnce(s)
  PROVE  /\ WithoutReady(s, t) \in Seq(Threads)
         /\ \A u : u \in ToSet(WithoutReady(s, t)) <=> u \in ToSet(s) /\ u # t
         /\ ThreadsOnce(WithoutReady(s, t))
<1> DEFINE at == {i \in 1 .. Len(s) : s[i] = t}
<1>1. CASE at = {}
  <2>1. WithoutReady(s, t) = s
    BY <1>1 DEF WithoutReady
  <2>2. t \notin ToSet(s)
    BY <1>1, InReady
  <2> QED BY <2>1, <2>2
<1>2. CASE at # {}
  <2> DEFINE i == Min(at)
             d == RemoveAt(s, i)
  <2>1. WithoutReady(s, t) = d
    BY <1>2 DEF WithoutReady
  <2>2. at \subseteq Nat
    OBVIOUS
  <2>3. i \in at
    BY <1>2, <2>2, MinOfNats, Zenon
  <2> HIDE DEF i
  <2>4. i \in 1 .. Len(s) /\ s[i] = t
    BY <2>3
  <2>5. /\ d \in Seq(Threads) /\ Len(d) = Len(s) - 1
        /\ \A j \in 1 .. Len(d) :
             \E a \in 1 .. Len(s) : a # i /\ d[j] = s[a] /\ a = IF j < i THEN j ELSE j + 1
        /\ \A a \in 1 .. Len(s) : a # i => \E j \in 1 .. Len(d) : d[j] = s[a]
    BY <2>4, Removed
  <2> HIDE DEF d
  <2>6. ASSUME NEW u
        PROVE  u \in ToSet(d) <=> u \in ToSet(s) /\ u # t
    <3>1. u \in ToSet(d) <=> \E j \in 1 .. Len(d) : d[j] = u
      BY <2>5, InReady
    <3>2. u \in ToSet(s) <=> \E a \in 1 .. Len(s) : s[a] = u
      BY InReady
    <3>3. \A a \in 1 .. Len(s) : a # i => s[a] # t
      BY <2>4 DEF ThreadsOnce
    <3>4. (\E j \in 1 .. Len(d) : d[j] = u) => (\E a \in 1 .. Len(s) : s[a] = u) /\ u # t
      BY <2>5, <3>3
    <3>5. (\E a \in 1 .. Len(s) : s[a] = u) /\ u # t => \E j \in 1 .. Len(d) : d[j] = u
      BY <2>4, <2>5
    <3> QED BY <3>1, <3>2, <3>4, <3>5, Zenon
  <2>7. ASSUME NEW j \in 1 .. Len(d), NEW k \in 1 .. Len(d), d[j] = d[k]
        PROVE  j = k
    <3>1. PICK a \in 1 .. Len(s) : d[j] = s[a] /\ a = IF j < i THEN j ELSE j + 1
      BY <2>5
    <3>2. PICK b \in 1 .. Len(s) : d[k] = s[b] /\ b = IF k < i THEN k ELSE k + 1
      BY <2>5
    <3>3. a = b
      BY <3>1, <3>2, <2>7 DEF ThreadsOnce
    <3>4. i \in Int /\ j \in Int /\ k \in Int
      BY <2>4, <2>5
    <3> QED BY <3>1, <3>2, <3>3, <3>4
  <2>8. ThreadsOnce(d)
    BY <2>7 DEF ThreadsOnce
  <2> QED BY <2>1, <2>5, <2>6, <2>8, Zenon
<1> QED BY <1>1, <1>2

-----------------------------------------------------------------------------
(* The rings, whatever the callers do.                                     *)

Kernel == {Init_, Idle_}
Busy(c) == call[c] # NoCall

(* The frame f is of a call for t that has not linked t's start yet.       *)
For(f, t) == f.at \in {"end", "start"} /\ f.thread = t

(* The kernel's own threads stay in the ready ring, without timers, so     *)
(* there is always a thread to load.                                       *)
KernelReady ==
  \A k \in Kernel :
    /\ k \in ToSet(ready)
    /\ \A kind \in {"start", "end"} : ~InTimers(k, kind)
    /\ \A c \in Callers : ~For(call[c], k)

RingsInv == TypeOK /\ LinkedOnce /\ KernelReady

LEMMA RingsOnce ==
  /\ LinkedOnce <=> /\ ThreadsOnce(ready) /\ TimersOnce(timers)
                    /\ \A t \in ToSet(ready) : ~In(timers, t, "start")
  /\ \A t, kind : InTimers(t, kind) <=> In(timers, t, kind)
BY DEF LinkedOnce, ThreadsOnce, TimersOnce, In, InTimers

LEMMA RingsOncePrimed ==
  /\ LinkedOnce' <=> /\ ThreadsOnce(ready') /\ TimersOnce(timers')
                     /\ \A t \in ToSet(ready') : ~In(timers', t, "start")
  /\ \A t, kind : InTimers(t, kind)' <=> In(timers', t, kind)
BY DEF LinkedOnce, ThreadsOnce, TimersOnce, In, InTimers, ToSet

LEMMA CallTypes ==
  ASSUME TypeOK, NEW c \in Callers
  PROVE  /\ call[c] \in Frame \cup {NoCall}
         /\ call[c].at \in {"end", "start"} => call[c].thread \in Threads /\ call[c].start \in Starts
         /\ call[c].at = "end" => call[c].end \in Nat /\ call[c].priority \in Priorities
         /\ Busy(c) <=> call[c].at \in {"end", "start", "evaluate"}
<1>1. call[c] \in Frame \cup {NoCall}
  BY DEF TypeOK
<1>2. ASSUME NEW f \in Frame
      PROVE  /\ f.at \in {"end", "start", "evaluate"}
             /\ f.at \in {"end", "start"} => f.thread \in Threads /\ f.start \in Starts
             /\ f.at = "end" => f.end \in Nat /\ f.priority \in Priorities
  <2>1. CASE f \in [at : {"end"}, thread : Threads, priority : Priorities, start : Starts, end : Deadlines]
    <3>1. Deadlines \subseteq Nat
      BY AvalonAssumption
    <3> QED BY <2>1, <3>1
  <2>2. CASE f \in [at : {"start"}, thread : Threads, start : Starts]
    BY <2>2
  <2>3. CASE f = Evaluating
    BY <2>3 DEF Evaluating
  <2> QED BY <1>2, <2>1, <2>2, <2>3 DEF Frame
<1>3. NoCall.at = "idle"
  BY DEF NoCall
<1> QED BY <1>1, <1>2, <1>3 DEF Busy

LEMMA NewFrames ==
  /\ \A t \in Threads, start \in Starts :
       LET f == [at |-> "start", thread |-> t, start |-> start] IN
       f \in Frame /\ f.at = "start" /\ f.thread = t
  /\ Evaluating \in Frame /\ Evaluating.at = "evaluate" /\ NoCall.at = "idle"
BY DEF Frame, Evaluating, NoCall

LEMMA SmallDwords == InitPriority \in Dwords /\ IdlePriority \in Dwords /\ 0 \in Dwords
<1>1. Byte \in Nat /\ Byte >= 3
  BY AvalonAssumption
<1>2. Byte * Byte >= 9 /\ Byte * Byte \in Nat
  BY <1>1
<1>3. Byte * Byte * Byte >= 9 /\ Byte * Byte * Byte \in Nat
  BY <1>1, <1>2
<1>4. Byte * Byte * Byte * Byte >= 9 /\ Byte * Byte * Byte * Byte \in Nat
  BY <1>1, <1>3
<1> QED BY <1>4 DEF Dwords, InitPriority, IdlePriority

LEMMA InitRings == Init => RingsInv
<1> SUFFICES ASSUME Init PROVE RingsInv
  OBVIOUS
<1>1. ready = <<Init_, Idle_>> /\ timers = <<>> /\ call = [c \in Callers |-> NoCall]
  BY DEF Init
<1>2. ready \in Seq(Threads) /\ Len(ready) = 2 /\ ready[1] = Init_ /\ ready[2] = Idle_
  BY <1>1 DEF Threads
<1>3. timers \in Seq(Timer) /\ Len(timers) = 0
  BY <1>1
<1>4. priority \in [Threads -> Dwords]
  <2>1. InitPriority \in Dwords /\ IdlePriority \in Dwords /\ 0 \in Dwords
    BY SmallDwords
  <2> HIDE DEF Dwords, InitPriority, IdlePriority
  <2> QED BY <2>1 DEF Init
<1>5. TypeOK
  BY <1>1, <1>2, <1>3, <1>4 DEF Init, TypeOK, Threads
<1>6. \A t, kind : ~In(timers, t, kind)
  BY <1>3 DEF In
<1>7. ThreadsOnce(ready) /\ TimersOnce(timers)
  BY <1>2, <1>3, AvalonAssumption DEF ThreadsOnce, TimersOnce
<1>8. \A k \in Kernel : k \in ToSet(ready)
  BY <1>2, InReady DEF Kernel
<1>9. \A c \in Callers : \A k : ~For(call[c], k)
  BY <1>1, NewFrames DEF For
<1> QED BY <1>1, <1>5, <1>6, <1>7, <1>8, <1>9, RingsOnce DEF RingsInv, KernelReady

NoKernelCalls(g) == \A c \in Callers, k \in Kernel : ~For(g[c], k)

(* A step that leaves the rings alone, and whose frames are about threads  *)
(* other than the kernel's.                                                *)
LEMMA RingsKept ==
  ASSUME RingsInv, TypeOK', ready' = ready, timers' = timers, NoKernelCalls(call')
  PROVE  RingsInv'
<1>1. LinkedOnce'
  BY RingsOnce, RingsOncePrimed DEF RingsInv
<1>2. KernelReady'
  BY RingsOnce, RingsOncePrimed DEF RingsInv, KernelReady, NoKernelCalls
<1> QED BY <1>1, <1>2 DEF RingsInv

(* A call that goes on or returns.                                         *)
LEMMA FramesKept ==
  ASSUME RingsInv, NEW c \in Callers,
         \/ call' = call
         \/ Return(c)
         \/ call' = [call EXCEPT ![c] = Evaluating]
         \/ /\ call[c].at = "end"
            /\ call' = [call EXCEPT ![c] = [at |-> "start", thread |-> call[c].thread, start |-> call[c].start]]
  PROVE  /\ NoKernelCalls(call') /\ call' \in [Callers -> Frame \cup {NoCall}]
         /\ \A d \in Callers \ {c} : call'[d] = call[d]
<1>1. call \in [Callers -> Frame \cup {NoCall}] /\ TypeOK /\ NoKernelCalls(call)
  BY DEF RingsInv, TypeOK, KernelReady, NoKernelCalls
<1>2. CASE call' = call
  BY <1>1, <1>2
<1>3. CASE Return(c)
  BY <1>1, <1>3, NewFrames DEF Return, NoKernelCalls, For
<1>4. CASE call' = [call EXCEPT ![c] = Evaluating]
  BY <1>1, <1>4, NewFrames DEF NoKernelCalls, For
<1>5. CASE /\ call[c].at = "end"
           /\ call' = [call EXCEPT ![c] = [at |-> "start", thread |-> call[c].thread, start |-> call[c].start]]
  <2>1. PICK t \in Threads, start \in Starts : t = call[c].thread /\ start = call[c].start
    BY <1>1, <1>5, CallTypes
  <2>2. PICK f \in Frame : f = [at |-> "start", thread |-> t, start |-> start] /\ f.at = "start" /\ f.thread = t
    BY NewFrames
  <2>3. call' = [call EXCEPT ![c] = f]
    BY <1>5, <2>1, <2>2
  <2>4. \A k \in Kernel : k # t
    BY <1>1, <1>5, <2>1 DEF NoKernelCalls, For
  <2> QED BY <1>1, <2>2, <2>3, <2>4 DEF NoKernelCalls, For
<1> QED BY <1>2, <1>3, <1>4, <1>5

LEMMA FirstReady ==
  ASSUME RingsInv
  PROVE  ready # <<>> /\ Len(ready) \in Nat \ {0} /\ ready[1] \in Threads
<1>1. ready \in Seq(Threads) /\ Init_ \in ToSet(ready)
  BY DEF RingsInv, TypeOK, KernelReady, Kernel
<1>2. \E i \in 1 .. Len(ready) : ready[i] = Init_
  BY <1>1, InReady
<1> QED BY <1>1, <1>2

LEMMA SequenceOfValues ==
  ASSUME NEW S, NEW n \in Nat, NEW d, d = [i \in 1 .. n |-> d[i]], \A i \in 1 .. n : d[i] \in S
  PROVE  d \in Seq(S) /\ Len(d) = n
<1>1. d \in [1 .. n -> S]
  BY Zenon
<1> QED BY <1>1

LEMMA RingsScheduled ==
  ASSUME RingsInv, NEW c \in Callers, NEW t \in Threads, NEW p \in Priorities,
         NEW start \in Starts, NEW end \in Deadlines, Schedule(c, t, p, start, end)
  PROVE  /\ RingsInv' /\ call'[c].at = "end" /\ call'[c].thread = t
         /\ \A d \in Callers \ {c} : call'[d] = call[d]
<1>1. TypeOK /\ KernelReady
  BY DEF RingsInv
<1>2. /\ UNCHANGED <<ready, timers, priority, rank, executing, irq, notified, halted>>
      /\ ~StartLinked(t)
  BY DEF Schedule
<1> DEFINE f == [at |-> "end", thread |-> t, priority |-> p, start |-> start, end |-> end]
<1>3. f \in Frame /\ f.thread = t /\ f.at = "end"
  BY DEF Frame
<1>4. call' = [call EXCEPT ![c] = f] /\ call \in [Callers -> Frame \cup {NoCall}]
  BY <1>1 DEF Schedule, TypeOK
<1> HIDE DEF f
<1>5. TypeOK'
  BY <1>1, <1>2, <1>3, <1>4 DEF TypeOK
<1>6. t \notin Kernel
  BY <1>1, <1>2 DEF KernelReady, StartLinked
<1>7. NoKernelCalls(call')
  BY <1>1, <1>3, <1>4, <1>6 DEF KernelReady, NoKernelCalls, For
<1> QED BY <1>2, <1>3, <1>4, <1>5, <1>7, RingsKept

(* A time that is stored in a linked node changes neither its place nor    *)
(* whose it is.                                                            *)
LEMMA StoredKeeps ==
  ASSUME NEW t \in Threads, NEW kind, NEW delay \in Nat, NEW p \in Nat, timers \in Seq(Timer)
  PROVE  /\ Stored(t, kind, delay, p) \in Seq(Timer)
         /\ \A u, k : In(Stored(t, kind, delay, p), u, k) <=> In(timers, u, k)
         /\ TimersOnce(timers) => TimersOnce(Stored(t, kind, delay, p))
<1> DEFINE d == Stored(t, kind, delay, p)
<1>1. Len(timers) \in Nat /\ \A i \in 1 .. Len(timers) : timers[i] \in Timer
  OBVIOUS
<1>2. ASSUME NEW n \in Timer
      PROVE  LET m == [n EXCEPT !.due = IF delay # 0 THEN delay ELSE (@ % Word) + (p * Word)] IN
             m \in Timer /\ m.thread = n.thread /\ m.kind = n.kind
  <2>1. n.due \in Nat /\ Word \in Nat \ {0}
    BY AvalonAssumption DEF Timer
  <2>2. n.due % Word \in Nat /\ p * Word \in Nat
    BY <2>1
  <2>3. (IF delay # 0 THEN delay ELSE (n.due % Word) + (p * Word)) \in Nat
    BY <2>2
  <2> QED BY <2>3 DEF Timer
<1>3. d = [i \in 1 .. Len(timers) |-> d[i]] /\ DOMAIN d = 1 .. Len(timers)
  BY DEF Stored
<1>4. \A i \in 1 .. Len(timers) : d[i] \in Timer /\ d[i].thread = timers[i].thread /\ d[i].kind = timers[i].kind
  BY <1>1, <1>2 DEF Stored
<1> HIDE DEF d
<1>5. d \in Seq(Timer) /\ Len(d) = Len(timers)
  BY <1>1, <1>3, <1>4, SequenceOfValues
<1>6. \A u, k : In(d, u, k) <=> In(timers, u, k)
  BY <1>4, <1>5 DEF In
<1>7. TimersOnce(timers) => TimersOnce(d)
  BY <1>4, <1>5 DEF TimersOnce
<1> QED BY <1>5, <1>6, <1>7 DEF d

LEMMA RingsEndLinked ==
  ASSUME RingsInv, NEW c \in Callers, LinkEnd(c)
  PROVE  /\ RingsInv'
         /\ \A d \in Callers \ {c} : call'[d] = call[d]
         /\ \/ call'[c] = NoCall /\ \A u, k : In(timers', u, k) <=> In(timers, u, k)
            \/ /\ call'[c].at = "start" /\ call'[c].thread = call[c].thread
               /\ \/ timers' = timers
                  \/ \A u, k : In(timers', u, k) <=> In(timers, u, k) \/ (call[c].thread = u /\ k = "end")
<1>1. TypeOK /\ LinkedOnce /\ KernelReady /\ timers \in Seq(Timer) /\ TimersOnce(timers)
  BY RingsOnce DEF RingsInv, TypeOK
<1>2. /\ UNCHANGED <<ready, rank, executing, irq, notified, halted>>
      /\ call[c].at = "end"
      /\ priority' = [priority EXCEPT ![call[c].thread] = call[c].priority]
  BY DEF LinkEnd
<1>3. PICK t \in Threads, start \in Starts, end \in Nat, p \in Priorities :
        t = call[c].thread /\ start = call[c].start /\ end = call[c].end /\ p = call[c].priority
  BY <1>1, <1>2, CallTypes
<1>4. t \notin Kernel
  BY <1>1, <1>2, <1>3 DEF KernelReady, For
<1>5. priority' \in [Threads -> Dwords] /\ p \in Nat
  BY <1>1, <1>2, <1>3, AvalonAssumption DEF TypeOK, Dwords
<1>6. CASE Return(c) /\ timers' = Stored(t, "end", end, p)
  <2>1. /\ timers' \in Seq(Timer) /\ TimersOnce(timers')
        /\ \A u, k : In(timers', u, k) <=> In(timers, u, k)
    BY <1>1, <1>5, <1>6, StoredKeeps
  <2>2. /\ NoKernelCalls(call') /\ call' \in [Callers -> Frame \cup {NoCall}] /\ call'[c] = NoCall
        /\ \A d \in Callers \ {c} : call'[d] = call[d]
    BY <1>1, <1>6, FramesKept DEF Return, TypeOK
  <2>3. TypeOK'
    BY <1>1, <1>2, <1>5, <2>1, <2>2 DEF TypeOK
  <2>4. LinkedOnce'
    BY <1>1, <1>2, <2>1, RingsOnce, RingsOncePrimed
  <2>5. KernelReady'
    BY <1>1, <1>2, <2>1, <2>2, RingsOnce, RingsOncePrimed DEF KernelReady, NoKernelCalls
  <2> QED BY <2>1, <2>2, <2>3, <2>4, <2>5 DEF RingsInv
<1>7. CASE /\ end = 0 \/ ~EndLinked(t)
           /\ call' = [call EXCEPT ![c] = [at |-> "start", thread |-> t, start |-> start]]
           /\ timers' = IF end = 0 THEN timers ELSE WithTimer(timers, [thread |-> t, kind |-> "end", due |-> end])
  <2>1. /\ NoKernelCalls(call') /\ call' \in [Callers -> Frame \cup {NoCall}]
        /\ \A d \in Callers \ {c} : call'[d] = call[d]
    BY <1>2, <1>3, <1>7, FramesKept
  <2>2. call'[c].at = "start" /\ call'[c].thread = t
    <3>1. call \in [Callers -> Frame \cup {NoCall}]
      BY <1>1 DEF TypeOK
    <3> QED BY <1>7, <3>1
  <2>4. CASE end = 0
    <3>1. timers' = timers
      BY <1>7, <2>4
    <3>2. TypeOK'
      BY <1>1, <1>2, <1>5, <2>1, <3>1 DEF TypeOK
    <3>3. RingsInv'
      BY <1>2, <2>1, <3>1, <3>2, RingsKept
    <3> QED BY <1>3, <2>1, <2>2, <3>1, <3>3
  <2>5. CASE end # 0
    <3>1. PICK n \in Timer : n = [thread |-> t, kind |-> "end", due |-> end] /\ n.thread = t /\ n.kind = "end"
      <4>1. [thread |-> t, kind |-> "end", due |-> end] \in Timer
        BY DEF Timer
      <4> QED BY <4>1
    <3>2. timers' = WithTimer(timers, n) /\ ~In(timers, n.thread, n.kind)
      BY <1>7, <2>5, <3>1, RingsOnce DEF EndLinked
    <3>3. /\ timers' \in Seq(Timer)
          /\ \A u, k : In(timers', u, k) <=> In(timers, u, k) \/ (t = u /\ k = "end")
          /\ TimersOnce(timers')
      <4>2. /\ WithTimer(timers, n) \in Seq(Timer)
            /\ \A u, k : In(WithTimer(timers, n), u, k) <=> In(timers, u, k) \/ (n.thread = u /\ n.kind = k)
            /\ TimersOnce(timers) /\ ~In(timers, n.thread, n.kind) => TimersOnce(WithTimer(timers, n))
        BY <1>1, TimerAdded
      <4> QED BY <1>1, <3>1, <3>2, <4>2
    <3>4. TypeOK'
      BY <1>1, <1>2, <1>5, <2>1, <3>3 DEF TypeOK
    <3>5. LinkedOnce'
      BY <1>1, <1>2, <3>3, RingsOnce, RingsOncePrimed
    <3>6. KernelReady'
      BY <1>1, <1>2, <1>4, <2>1, <3>3, RingsOnce, RingsOncePrimed DEF KernelReady, NoKernelCalls
    <3> QED BY <1>3, <2>1, <2>2, <3>3, <3>4, <3>5, <3>6 DEF RingsInv
  <2> QED BY <2>4, <2>5
<1> QED BY <1>3, <1>6, <1>7 DEF LinkEnd

LEMMA RingsStartLinked ==
  ASSUME RingsInv, NEW c \in Callers, LinkStart(c), ~StartLinked(call[c].thread)
  PROVE  /\ RingsInv'
         /\ call'[c].at \notin {"end", "start"} /\ \A d \in Callers \ {c} : call'[d] = call[d]
         /\ call[c].start = 0 =>
              /\ timers' = timers
              /\ \A u : u \in ToSet(ready') <=> u \in ToSet(ready) \/ u = call[c].thread
              /\ call'[c].at = "evaluate"
         /\ call[c].start # 0 =>
              /\ ready' = ready
              /\ \A u, k : In(timers', u, k) <=> In(timers, u, k) \/ (call[c].thread = u /\ k = "start")
<1>1. TypeOK /\ LinkedOnce /\ KernelReady
  BY DEF RingsInv
<1>2. /\ UNCHANGED <<priority, executing, irq, notified, halted>>
      /\ call[c].at = "start"
  BY DEF LinkStart
<1>3. PICK t \in Threads, start \in Nat : t = call[c].thread /\ start = call[c].start
  <2>1. call[c].thread \in Threads /\ call[c].start \in Nat
    BY <1>1, <1>2, CallTypes, AvalonAssumption
  <2> QED BY <2>1
<1>4. t \notin Kernel
  BY <1>1, <1>2, <1>3 DEF KernelReady, For
<1>5. t \notin ToSet(ready) /\ ~In(timers, t, "start")
  BY <1>3, RingsOnce DEF StartLinked
<1>6. /\ ready \in Seq(Threads) /\ ThreadsOnce(ready)
      /\ timers \in Seq(Timer) /\ TimersOnce(timers)
  BY <1>1, RingsOnce DEF TypeOK
<1>7. CASE start # 0
  <2>1. PICK n \in Timer : n = [thread |-> t, kind |-> "start", due |-> start] /\ n.thread = t /\ n.kind = "start"
    <3>1. [thread |-> t, kind |-> "start", due |-> start] \in Timer
      BY DEF Timer
    <3> QED BY <3>1
  <2>2. Return(c) /\ timers' = WithTimer(timers, n) /\ UNCHANGED <<ready, rank>>
    BY <1>3, <1>7, <2>1 DEF LinkStart
  <2>3. /\ NoKernelCalls(call') /\ call' \in [Callers -> Frame \cup {NoCall}]
        /\ \A d \in Callers \ {c} : call'[d] = call[d]
    BY <2>2, FramesKept
  <2>4. call'[c].at \notin {"end", "start"}
    BY <1>1, <2>2, NewFrames DEF Return, TypeOK
  <2>5. /\ timers' \in Seq(Timer)
        /\ \A u, k : In(timers', u, k) <=> In(timers, u, k) \/ (t = u /\ k = "start")
        /\ TimersOnce(timers')
    <3>1. /\ WithTimer(timers, n) \in Seq(Timer)
          /\ \A u, k : In(WithTimer(timers, n), u, k) <=> In(timers, u, k) \/ (n.thread = u /\ n.kind = k)
          /\ TimersOnce(timers) /\ ~In(timers, n.thread, n.kind) => TimersOnce(WithTimer(timers, n))
      BY <1>6, TimerAdded
    <3> QED BY <1>5, <1>6, <2>1, <2>2, <3>1
  <2>6. TypeOK'
    BY <1>1, <1>2, <2>2, <2>3, <2>5 DEF TypeOK
  <2>7. LinkedOnce'
    BY <1>1, <1>5, <2>2, <2>5, RingsOnce, RingsOncePrimed
  <2>8. KernelReady'
    BY <1>1, <1>4, <2>2, <2>3, <2>5, RingsOnce, RingsOncePrimed DEF KernelReady, NoKernelCalls
  <2> QED BY <1>3, <1>7, <2>2, <2>3, <2>4, <2>5, <2>6, <2>7, <2>8 DEF RingsInv
<1>8. CASE start = 0
  <2>1. /\ call' = [call EXCEPT ![c] = Evaluating]
        /\ ready' = WithReady(ready, t)
        /\ rank' = [rank EXCEPT ![t] = priority[t]]
        /\ timers' = timers
    BY <1>3, <1>8 DEF LinkStart
  <2>2. /\ NoKernelCalls(call') /\ call' \in [Callers -> Frame \cup {NoCall}]
        /\ \A d \in Callers \ {c} : call'[d] = call[d]
    BY <2>1, FramesKept
  <2>3. call'[c].at = "evaluate"
    BY <1>1, <2>1, NewFrames DEF TypeOK
  <2>5. /\ ready' \in Seq(Threads)
        /\ \A u : u \in ToSet(ready') <=> u \in ToSet(ready) \/ u = t
        /\ ThreadsOnce(ready')
    <3>1. /\ WithReady(ready, t) \in Seq(Threads)
          /\ \A u : u \in ToSet(WithReady(ready, t)) <=> u \in ToSet(ready) \/ u = t
          /\ ThreadsOnce(ready) /\ t \notin ToSet(ready) => ThreadsOnce(WithReady(ready, t))
      BY <1>6, ThreadAdded
    <3> QED BY <1>5, <1>6, <2>1, <3>1
  <2>6. TypeOK'
    BY <1>1, <1>2, <2>1, <2>2, <2>5 DEF TypeOK
  <2>7. LinkedOnce'
    BY <1>1, <1>5, <2>1, <2>5, RingsOnce, RingsOncePrimed
  <2>8. KernelReady'
    BY <1>1, <1>4, <2>1, <2>2, <2>5, RingsOnce, RingsOncePrimed DEF KernelReady, NoKernelCalls
  <2> QED BY <1>3, <1>8, <2>1, <2>2, <2>3, <2>5, <2>6, <2>7, <2>8 DEF RingsInv
<1> QED BY <1>7, <1>8

(* The other half of thread.schedule's last step: the thread has been      *)
(* started by another call, and the deadline is taken out.                 *)
LEMMA RingsStartRefused ==
  ASSUME RingsInv, NEW c \in Callers, LinkStart(c), StartLinked(call[c].thread)
  PROVE  /\ RingsInv' /\ ready' = ready
         /\ call'[c].at \notin {"end", "start"} /\ \A d \in Callers \ {c} : call'[d] = call[d]
         /\ \A u, k : In(timers', u, k) <=> In(timers, u, k) /\ ~(u = call[c].thread /\ k = "end")
<1>1. TypeOK /\ LinkedOnce /\ KernelReady /\ timers \in Seq(Timer) /\ TimersOnce(timers)
  BY RingsOnce DEF RingsInv, TypeOK
<1>2. /\ UNCHANGED <<priority, executing, irq, notified, halted, ready>>
      /\ Return(c)
      /\ call[c].at = "start"
      /\ timers' = WithoutTimer(Stored(call[c].thread, "start", call[c].start, priority[call[c].thread]),
                                call[c].thread, "end")
      /\ rank' = [rank EXCEPT ![call[c].thread] = priority[call[c].thread]]
           \/ rank' = [rank EXCEPT ![call[c].thread] = 0]
  BY DEF LinkStart
<1>3. PICK t \in Threads, start \in Nat, p \in Dwords :
        t = call[c].thread /\ start = call[c].start /\ p = priority[t]
  <2>1. call[c].thread \in Threads /\ call[c].start \in Nat
    BY <1>1, <1>2, CallTypes, AvalonAssumption
  <2>2. priority[call[c].thread] \in Dwords
    BY <1>1, <2>1 DEF TypeOK
  <2> QED BY <2>1, <2>2
<1>4. /\ NoKernelCalls(call') /\ call' \in [Callers -> Frame \cup {NoCall}]
      /\ call'[c].at \notin {"end", "start"} /\ \A d \in Callers \ {c} : call'[d] = call[d]
  BY <1>1, <1>2, FramesKept, NewFrames DEF Return, TypeOK
<1>5. /\ timers' \in Seq(Timer)
      /\ \A u, k : In(timers', u, k) <=> In(timers, u, k) /\ ~(u = t /\ k = "end")
      /\ TimersOnce(timers')
  <2>1. PICK s \in Seq(Timer) : s = Stored(t, "start", start, p)
    <3>1. p \in Nat
      BY DEF Dwords
    <3> QED BY <1>1, <3>1, StoredKeeps
  <2>2. TimersOnce(s) /\ \A u, k : In(s, u, k) <=> In(timers, u, k)
    <3>1. p \in Nat
      BY DEF Dwords
    <3> QED BY <1>1, <2>1, <3>1, StoredKeeps
  <2>3. timers' = WithoutTimer(s, t, "end")
    BY <1>2, <1>3, <2>1
  <2>4. /\ WithoutTimer(s, t, "end") \in Seq(Timer)
        /\ \A u, k : In(WithoutTimer(s, t, "end"), u, k) <=> In(s, u, k) /\ ~(u = t /\ k = "end")
        /\ TimersOnce(WithoutTimer(s, t, "end"))
    BY <2>2, TimerRemoved
  <2> QED BY <2>2, <2>3, <2>4
<1>6. rank' \in [Threads -> Dwords]
  <2>1. 0 \in Dwords
    BY SmallDwords
  <2> QED BY <1>1, <1>2, <1>3, <2>1 DEF TypeOK
<1>7. TypeOK'
  BY <1>1, <1>2, <1>4, <1>5, <1>6 DEF TypeOK
<1>8. LinkedOnce'
  BY <1>1, <1>2, <1>5, RingsOnce, RingsOncePrimed
<1>9. KernelReady'
  BY <1>1, <1>2, <1>4, <1>5, RingsOnce, RingsOncePrimed DEF KernelReady, NoKernelCalls
<1> QED BY <1>2, <1>3, <1>4, <1>5, <1>7, <1>8, <1>9 DEF RingsInv

LEMMA RingsEvaluated ==
  ASSUME RingsInv, NEW c \in Callers, Evaluate(c)
  PROVE  /\ RingsInv' /\ call[c].at \notin {"end", "start"} /\ call'[c].at \notin {"end", "start"}
         /\ \A d \in Callers \ {c} : call'[d] = call[d]
<1>1. TypeOK /\ UNCHANGED <<ready, timers, priority, rank, irq, notified, halted>>
  BY DEF RingsInv, Evaluate
<1>2. /\ NoKernelCalls(call') /\ call' \in [Callers -> Frame \cup {NoCall}]
      /\ \A d \in Callers \ {c} : call'[d] = call[d]
  <2>1. call' = call \/ Return(c)
    BY DEF Evaluate
  <2> QED BY <2>1, FramesKept
<1>3. executing' \in Threads \cup {Wild}
  BY <1>1 DEF Evaluate, TypeOK
<1>4. TypeOK'
  BY <1>1, <1>2, <1>3 DEF TypeOK
<1>5. call[c].at \notin {"end", "start"} /\ call'[c].at \notin {"end", "start"}
  BY <1>1, NewFrames DEF Evaluate, Return, TypeOK
<1> QED BY <1>1, <1>2, <1>4, <1>5, RingsKept

LEMMA CountedDown ==
  ASSUME NEW x \in Int
  PROVE  Max({0, x}) \in Nat
<1>1. \E y \in {0, x} : \A z \in {0, x} : y >= z
  BY DEF Max
<1>2. Max({0, x}) \in {0, x} /\ \A z \in {0, x} : Max({0, x}) >= z
  BY <1>1, Zenon DEF Max
<1> QED BY <1>2

LEMMA RingsEntered ==
  ASSUME RingsInv, PitEnter
  PROVE  RingsInv' /\ \A u, k : In(timers', u, k) <=> In(timers, u, k)
<1>1. /\ TypeOK /\ LinkedOnce /\ KernelReady
      /\ UNCHANGED <<ready, priority, rank, executing, notified, call>>
      /\ irq' \in {"none", "timers"} /\ halted' \in {"none", "executing_magic", "expired_unlinked"}
  BY DEF RingsInv, PitEnter, TypeOK
<1>2. CASE timers' = timers
  <2>1. TypeOK'
    BY <1>1, <1>2 DEF TypeOK
  <2>2. NoKernelCalls(call')
    BY <1>1 DEF KernelReady, NoKernelCalls
  <2> QED BY <1>1, <1>2, <2>1, <2>2, RingsKept
<1>3. CASE timers' = [i \in 1 .. Len(timers) |-> [timers[i] EXCEPT !.due = Max({0, @ - TicksPerIrq})]]
  <2>1. ASSUME NEW n \in Timer
        PROVE  LET m == [n EXCEPT !.due = Max({0, @ - TicksPerIrq})] IN
               m \in Timer /\ m.thread = n.thread /\ m.kind = n.kind
    <3>1. n.due - TicksPerIrq \in Int
      BY AvalonAssumption DEF Timer
    <3>2. Max({0, n.due - TicksPerIrq}) \in Nat
      BY <3>1, CountedDown
    <3> QED BY <3>2 DEF Timer
  <2>2. timers \in Seq(Timer) /\ Len(timers) \in Nat /\ \A i \in 1 .. Len(timers) : timers[i] \in Timer
    BY <1>1 DEF TypeOK
  <2>3. \A i \in 1 .. Len(timers) :
          timers'[i] \in Timer /\ timers'[i].thread = timers[i].thread /\ timers'[i].kind = timers[i].kind
    BY <1>3, <2>1, <2>2
  <2>4. timers' \in Seq(Timer) /\ Len(timers') = Len(timers)
    <3>1. timers' = [i \in 1 .. Len(timers) |-> timers'[i]]
      BY <1>3
    <3> QED BY <2>2, <2>3, <3>1, SequenceOfValues
  <2>5. TypeOK'
    BY <1>1, <2>4 DEF TypeOK
  <2>6. \A u, k : In(timers', u, k) <=> In(timers, u, k)
    BY <2>3, <2>4 DEF In
  <2>7. LinkedOnce'
    <3>1. TimersOnce(timers) => TimersOnce(timers')
      BY <2>3, <2>4 DEF TimersOnce
    <3> QED BY <1>1, <2>6, <3>1, RingsOnce, RingsOncePrimed
  <2>8. KernelReady'
    BY <1>1, <2>6, RingsOnce, RingsOncePrimed DEF KernelReady
  <2> QED BY <2>5, <2>6, <2>7, <2>8 DEF RingsInv
<1> QED BY <1>2, <1>3 DEF PitEnter

LEMMA FirstTimer ==
  ASSUME RingsInv, NEW kind, FirstDue(kind)
  PROVE  /\ timers # <<>> /\ 1 \in 1 .. Len(timers)
         /\ timers[1].thread \in Threads /\ timers[1].kind = kind
         /\ In(timers, timers[1].thread, kind)
         /\ Tail(timers) \in Seq(Timer)
         /\ \A u, k : In(Tail(timers), u, k) <=> In(timers, u, k) /\ ~(timers[1].thread = u /\ kind = k)
         /\ TimersOnce(Tail(timers))
<1>1. timers \in Seq(Timer) /\ TimersOnce(timers) /\ timers # <<>> /\ timers[1].kind = kind
  BY RingsOnce DEF RingsInv, TypeOK, FirstDue
<1>2. 1 \in 1 .. Len(timers) /\ timers[1] \in Timer
  BY <1>1
<1>3. timers[1].thread \in Threads /\ In(timers, timers[1].thread, kind)
  BY <1>1, <1>2 DEF Timer, In
<1>4. /\ Tail(timers) \in Seq(Timer)
      /\ \A u, k : In(Tail(timers), u, k) <=> In(timers, u, k) /\ ~(timers[1].thread = u /\ timers[1].kind = k)
      /\ TimersOnce(Tail(timers))
  BY <1>1, <1>2, TimerTaken
<1> QED BY <1>1, <1>2, <1>3, <1>4

LEMMA RingsStarted ==
  ASSUME RingsInv, FireStart
  PROVE  /\ RingsInv'
         /\ timers[1].thread \in Threads /\ In(timers, timers[1].thread, "start")
         /\ \A u : u \in ToSet(ready') <=> u \in ToSet(ready) \/ u = timers[1].thread
         /\ \A u, k : In(timers', u, k) <=> In(timers, u, k) /\ ~(timers[1].thread = u /\ "start" = k)
<1> DEFINE t == timers[1].thread
<1>1. TypeOK /\ LinkedOnce /\ KernelReady
  BY DEF RingsInv
<1>2. /\ FirstDue("start")
      /\ timers' = Tail(timers)
      /\ ready' = WithReady(ready, t)
      /\ rank' = [rank EXCEPT ![t] = priority[t]]
      /\ UNCHANGED <<priority, executing, irq, notified, call, halted>>
  BY DEF FireStart
<1>3. /\ t \in Threads /\ In(timers, t, "start")
      /\ timers' \in Seq(Timer)
      /\ \A u, k : In(timers', u, k) <=> In(timers, u, k) /\ ~(t = u /\ "start" = k)
      /\ TimersOnce(timers')
  BY <1>2, FirstTimer
<1> HIDE DEF t
<1>4. ready \in Seq(Threads) /\ ThreadsOnce(ready) /\ t \notin ToSet(ready)
  BY <1>1, <1>3, RingsOnce DEF TypeOK
<1>5. /\ ready' \in Seq(Threads)
      /\ \A u : u \in ToSet(ready') <=> u \in ToSet(ready) \/ u = t
      /\ ThreadsOnce(ready')
  BY <1>2, <1>3, <1>4, ThreadAdded
<1>6. TypeOK'
  BY <1>1, <1>2, <1>3, <1>5 DEF TypeOK
<1>7. LinkedOnce'
  BY <1>1, <1>3, <1>5, RingsOnce, RingsOncePrimed
<1>8. KernelReady'
  BY <1>1, <1>2, <1>3, <1>5, RingsOnce, RingsOncePrimed DEF KernelReady
<1> QED BY <1>3, <1>5, <1>6, <1>7, <1>8 DEF RingsInv, t

LEMMA RingsExpired ==
  ASSUME RingsInv, FireEnd
  PROVE  /\ RingsInv'
         /\ timers[1].thread \in Threads /\ In(timers, timers[1].thread, "end")
         /\ \A u : u \in ToSet(ready') <=> u \in ToSet(ready) /\ u # timers[1].thread
         /\ \A u, k : In(timers', u, k) <=>
              In(timers, u, k) /\ ~(timers[1].thread = u /\ k \in {"start", "end"})
<1> DEFINE t == timers[1].thread
<1>1. TypeOK /\ LinkedOnce /\ KernelReady
  BY DEF RingsInv
<1>2. /\ FirstDue("end")
      /\ timers' = WithoutTimer(Tail(timers), t, "start")
      /\ ready' = WithoutReady(ready, t)
      /\ rank' = [rank EXCEPT ![t] = 0]
      /\ UNCHANGED <<priority, executing, irq, call>>
  BY DEF FireEnd
<1>3. /\ t \in Threads /\ In(timers, t, "end")
      /\ Tail(timers) \in Seq(Timer)
      /\ \A u, k : In(Tail(timers), u, k) <=> In(timers, u, k) /\ ~(t = u /\ "end" = k)
      /\ TimersOnce(Tail(timers))
  BY <1>2, FirstTimer
<1> HIDE DEF t
<1>4. /\ timers' \in Seq(Timer)
      /\ \A u, k : In(timers', u, k) <=> In(Tail(timers), u, k) /\ ~(u = t /\ k = "start")
      /\ TimersOnce(timers')
  BY <1>2, <1>3, TimerRemoved
<1>5. /\ ready' \in Seq(Threads)
      /\ \A u : u \in ToSet(ready') <=> u \in ToSet(ready) /\ u # t
      /\ ThreadsOnce(ready')
  <2>1. ready \in Seq(Threads) /\ ThreadsOnce(ready)
    BY <1>1, RingsOnce DEF TypeOK
  <2> QED BY <1>2, <2>1, ThreadRemoved
<1>6. \A u, k : In(timers', u, k) <=> In(timers, u, k) /\ ~(t = u /\ k \in {"start", "end"})
  BY <1>3, <1>4
<1>7. /\ notified' \in Threads \cup {None} /\ halted' \in {"none", "executing_magic", "expired_unlinked"}
      /\ rank' \in [Threads -> Dwords]
  <2>1. 0 \in Dwords
    BY SmallDwords
  <2> QED BY <1>1, <1>2, <1>3, <2>1 DEF FireEnd, TypeOK, t
<1>8. TypeOK'
  BY <1>1, <1>2, <1>4, <1>5, <1>7 DEF TypeOK
<1>9. LinkedOnce'
  BY <1>1, <1>4, <1>5, <1>6, RingsOnce, RingsOncePrimed
<1>10. KernelReady'
  <2>1. t \notin Kernel
    BY <1>1, <1>3, RingsOnce DEF KernelReady
  <2> QED BY <1>1, <1>2, <1>5, <1>6, <2>1, RingsOnce, RingsOncePrimed DEF KernelReady
<1> QED BY <1>3, <1>5, <1>6, <1>8, <1>9, <1>10 DEF RingsInv, t

(* The steps that touch no ring and no call.                               *)
LEMMA RingsUntouched ==
  ASSUME RingsInv, UNCHANGED vars \/ NotifierReturns \/ PitExit \/ OtherIrq
  PROVE  RingsInv'
<1>1. TypeOK /\ UNCHANGED <<ready, timers, priority, rank, call>>
  BY DEF RingsInv, vars, NotifierReturns, PitExit, OtherIrq
<1>2. /\ executing' \in Threads \cup {Wild}
      /\ irq' \in {"none", "timers"}
      /\ notified' \in Threads \cup {None}
      /\ halted' \in {"none", "executing_magic", "expired_unlinked"}
  BY <1>1, FirstReady DEF TypeOK, vars, NotifierReturns, PitExit, OtherIrq
<1>3. TypeOK'
  BY <1>1, <1>2 DEF TypeOK
<1>4. NoKernelCalls(call')
  BY <1>1 DEF RingsInv, KernelReady, NoKernelCalls
<1> QED BY <1>1, <1>3, <1>4, RingsKept

LEMMA RingsStep == ASSUME RingsInv, [Next]_vars PROVE RingsInv'
<1>1. CASE UNCHANGED vars
  BY <1>1, RingsUntouched
<1>2. ASSUME NEW c \in Callers, NEW t \in Threads, NEW p \in Priorities,
             NEW start \in Starts, NEW end \in Deadlines, Schedule(c, t, p, start, end)
      PROVE  RingsInv'
  BY <1>2, RingsScheduled
<1>3. ASSUME NEW c \in Callers, Continue(c)
      PROVE  RingsInv'
  BY <1>3, RingsEndLinked, RingsStartLinked, RingsStartRefused, RingsEvaluated DEF Continue
<1>4. CASE PitEnter
  BY <1>4, RingsEntered
<1>5. CASE Handler
  BY <1>5, RingsStarted, RingsExpired, RingsUntouched DEF Handler
<1>6. CASE OtherIrq
  BY <1>6, RingsUntouched
<1> QED BY <1>1, <1>2, <1>3, <1>4, <1>5, <1>6 DEF Next

THEOREM RingsInvariant == Spec => []RingsInv
<1>1. RingsInv /\ [Next]_vars => RingsInv'
  BY RingsStep
<1> QED BY <1>1, InitRings, PTL DEF Spec

(* The scheduler's state keeps its types.                                  *)
THEOREM TypeCorrect == Spec => []TypeOK
<1>1. RingsInv => TypeOK
  BY DEF RingsInv
<1> QED BY <1>1, RingsInvariant, PTL

(* thread.schedule looks at the links before it links, and the timers of   *)
(* the PIT interrupt take their own node out first: no node is ever in two *)
(* rings or twice in one, however callers and interrupts interleave.       *)
THEOREM NodesLinkedOnce == Spec => []LinkedOnce
<1>1. RingsInv => LinkedOnce
  BY DEF RingsInv
<1> QED BY <1>1, RingsInvariant, PTL

-----------------------------------------------------------------------------
(* The status byte.                                                        *)

LEMMA NothingOver ==
  ASSUME NEW m \in Nat \ {0}, NEW p \in Nat, p < m, NEW b \in Nat \ {0}
  PROVE  (p \div m) % b = 0
<1>1. p \div m = 0
  OBVIOUS
<1> QED BY <1>1

LowPriorities == \A t \in Threads \ {Idle_} : priority[t] < Byte * Byte

(* A thread that thread.schedule refuses for its status byte is in one of  *)
(* the rings, as long as no priority reaches that byte: whatever the       *)
(* callers do otherwise.                                                   *)
THEOREM RefusedIsLinked ==
  ASSUME \A p \in Priorities : p < Byte * Byte
  PROVE  Spec => []InUseIsLinked
<1>1. Byte \in Nat /\ Byte >= 3
  BY AvalonAssumption
<1>2. Byte * Byte \in Nat /\ Byte * Byte >= 9
  BY <1>1
<1>3. Init => LowPriorities
  <2>1. InitPriority < Byte * Byte /\ 0 < Byte * Byte
    BY <1>2 DEF InitPriority
  <2> QED BY <2>1 DEF Init, LowPriorities
<1>4. RingsInv /\ LowPriorities /\ [Next]_vars => LowPriorities'
  <2> SUFFICES ASSUME RingsInv, LowPriorities, [Next]_vars PROVE LowPriorities'
    OBVIOUS
  <2>1. CASE priority' = priority
    BY <2>1 DEF LowPriorities
  <2>2. ASSUME NEW c \in Callers, LinkEnd(c)
        PROVE  LowPriorities'
    <3>1. priority' = [priority EXCEPT ![call[c].thread] = call[c].priority]
      BY <2>2 DEF LinkEnd
    <3>2. call[c].priority \in Priorities
      BY <2>2, CallTypes DEF LinkEnd, RingsInv
    <3> QED BY <3>1, <3>2 DEF LowPriorities, RingsInv, TypeOK
  <2> QED BY <2>1, <2>2 DEF Next, vars, Schedule, Continue, LinkStart, Evaluate, PitEnter,
                           Handler, FireStart, FireEnd, NotifierReturns, PitExit, OtherIrq
<1>5. RingsInv /\ LowPriorities => InUseIsLinked
  <2> SUFFICES ASSUME RingsInv, LowPriorities, NEW t \in Threads, StatusOf(priority[t]) # 0
               PROVE  StartLinked(t)
    BY DEF InUseIsLinked
  <2>1. CASE t = Idle_
    BY <2>1 DEF RingsInv, KernelReady, Kernel, StartLinked
  <2>2. CASE t # Idle_
    <3>1. priority[t] < Byte * Byte /\ priority[t] \in Nat
      BY <2>2 DEF LowPriorities, RingsInv, TypeOK, Dwords
    <3>2. \A q \in Nat, m \in Nat \ {0} : q < m => (q \div m) % Byte = 0
      BY <1>1, NothingOver
    <3>3. PICK m \in Nat \ {0} : m = Byte * Byte
      BY <1>2
    <3>4. PICK q \in Nat : q = priority[t]
      BY <3>1
    <3>5. (q \div m) % Byte = 0
      BY <3>1, <3>2, <3>3, <3>4
    <3>6. StatusOf(priority[t]) = 0
      BY <3>3, <3>4, <3>5, Zenon DEF StatusOf
    <3> QED BY <3>6
  <2> QED BY <2>1, <2>2
<1> QED BY <1>3, <1>4, <1>5, RingsInvariant, PTL DEF Spec

-----------------------------------------------------------------------------
(* The races, and what they leave.                                         *)

(* A deadline that is linked has its start linked, or is about to.         *)
DeadlineCovers ==
  \A t \in Threads : EndLinked(t) =>
    StartLinked(t) \/ \E c \in Callers : call[c].at = "start" /\ call[c].thread = t

(* A notifier runs inside the timer interrupt, and calls only there.       *)
NotifiersInside ==
  /\ notified # None => irq = "timers"
  /\ Busy(Irq) => notified # None

(* The processor is astray only after the switch of a thread's call.       *)
StrayAfterSwitch ==
  executing = Wild => irq = "none" /\ \E c \in Threads : call[c].at = "evaluate"

RaceInv == DeadlineCovers /\ NotifiersInside /\ StrayAfterSwitch /\ RunsHighest

IInv == RingsInv /\ RaceInv

LEMMA Links ==
  /\ \A t : StartLinked(t) <=> t \in ToSet(ready) \/ In(timers, t, "start")
  /\ \A t : EndLinked(t) <=> In(timers, t, "end")
BY DEF StartLinked, EndLinked, InTimers, In

LEMMA LinksPrimed ==
  /\ \A t : StartLinked(t)' <=> t \in ToSet(ready') \/ In(timers', t, "start")
  /\ \A t : EndLinked(t)' <=> In(timers', t, "end")
BY DEF StartLinked, EndLinked, InTimers, In

(* Who calls has the processor, which is not astray then.                  *)
LEMMA CallerRuns ==
  ASSUME NotifiersInside, StrayAfterSwitch, TypeOK, NEW c \in Callers, Runs(c)
  PROVE  /\ executing \in Threads
         /\ c # Irq => executing = c /\ irq = "none"
         /\ c = Irq => irq = "timers"
BY AvalonAssumption DEF NotifiersInside, StrayAfterSwitch, TypeOK, Runs, Callers

LEMMA InitRaces == Init => RaceInv
<1> SUFFICES ASSUME Init PROVE RaceInv
  OBVIOUS
<1>1. /\ ready = <<Init_, Idle_>> /\ timers = <<>> /\ executing = Init_ /\ notified = None
      /\ call = [c \in Callers |-> NoCall]
  BY DEF Init
<1>2. \A t : ~EndLinked(t)
  BY <1>1 DEF EndLinked, InTimers
<1>3. executing # Wild /\ ready[1] = executing
  BY <1>1, AvalonAssumption DEF Threads
<1>4. ~Busy(Irq)
  BY <1>1 DEF Busy, Callers
<1> QED BY <1>1, <1>2, <1>3, <1>4
        DEF RaceInv, DeadlineCovers, NotifiersInside, StrayAfterSwitch, RunsHighest

(* The links are where they were, and so are the calls that are about to   *)
(* link a start.                                                           *)
LEMMA CoversKept ==
  ASSUME DeadlineCovers,
         \A t : (StartLinked(t)' <=> StartLinked(t)) /\ (EndLinked(t)' => EndLinked(t)),
         \A c \in Callers : call[c].at = "start" => call'[c] = call[c]
  PROVE  DeadlineCovers'
BY DEF DeadlineCovers

LEMMA DeadlinesCovered == ASSUME RingsInv, DeadlineCovers, [Next]_vars PROVE DeadlineCovers'
<1>1. CASE UNCHANGED vars \/ NotifierReturns \/ PitExit \/ OtherIrq
  <2>1. UNCHANGED <<ready, timers, call>>
    BY <1>1 DEF vars, NotifierReturns, PitExit, OtherIrq
  <2> QED BY <2>1, Links, LinksPrimed, CoversKept
<1>2. ASSUME NEW c \in Callers, NEW t \in Threads, NEW p \in Priorities,
             NEW start \in Starts, NEW end \in Deadlines, Schedule(c, t, p, start, end)
      PROVE  DeadlineCovers'
  <2>1. ready' = ready /\ timers' = timers /\ call[c].at # "start"
    BY <1>2 DEF Schedule, NoCall
  <2>2. \A d \in Callers \ {c} : call'[d] = call[d]
    BY <1>2, RingsScheduled
  <2> QED BY <2>1, <2>2, Links, LinksPrimed, CoversKept
<1>3. ASSUME NEW c \in Callers, LinkEnd(c)
      PROVE  DeadlineCovers'
  <2>1. /\ ready' = ready /\ call[c].at = "end"
        /\ \A d \in Callers \ {c} : call'[d] = call[d]
        /\ \/ \A u, k : In(timers', u, k) <=> In(timers, u, k)
           \/ /\ call'[c].at = "start" /\ call'[c].thread = call[c].thread
              /\ \/ timers' = timers
                 \/ \A u, k : In(timers', u, k) <=> In(timers, u, k) \/ (call[c].thread = u /\ k = "end")
    BY <1>3, RingsEndLinked DEF LinkEnd
  <2>2. CASE \A u, k : In(timers', u, k) <=> In(timers, u, k)
    BY <2>1, <2>2, Links, LinksPrimed, CoversKept
  <2>3. CASE /\ call'[c].at = "start" /\ call'[c].thread = call[c].thread
             /\ \/ timers' = timers
                \/ \A u, k : In(timers', u, k) <=> In(timers, u, k) \/ (call[c].thread = u /\ k = "end")
    <3>1. ASSUME NEW u \in Threads, EndLinked(u)'
          PROVE  StartLinked(u)' \/ \E d \in Callers : call'[d].at = "start" /\ call'[d].thread = u
      <4>1. CASE u = call[c].thread
        BY <2>3, <4>1
      <4>2. CASE u # call[c].thread
        <5>1. EndLinked(u) /\ (StartLinked(u) => StartLinked(u)')
          BY <2>1, <2>3, <3>1, <4>2, Links, LinksPrimed
        <5> QED BY <2>1, <5>1 DEF DeadlineCovers
      <4> QED BY <4>1, <4>2
    <3> QED BY <3>1 DEF DeadlineCovers
  <2> QED BY <2>1, <2>2, <2>3
<1>4. ASSUME NEW c \in Callers, LinkStart(c), ~StartLinked(call[c].thread)
      PROVE  DeadlineCovers'
  <2>1. \A d \in Callers \ {c} : call'[d] = call[d]
    BY <1>4, RingsStartLinked
  <2>2. \A u : StartLinked(u)' <=> StartLinked(u) \/ u = call[c].thread
    BY <1>4, RingsStartLinked, Links, LinksPrimed
  <2>3. \A u : EndLinked(u)' => EndLinked(u)
    BY <1>4, RingsStartLinked, Links, LinksPrimed
  <2> QED BY <2>1, <2>2, <2>3 DEF DeadlineCovers
<1>5. ASSUME NEW c \in Callers, LinkStart(c), StartLinked(call[c].thread)
      PROVE  DeadlineCovers'
  <2>1. \A d \in Callers \ {c} : call'[d] = call[d]
    BY <1>5, RingsStartRefused
  <2>2. \A u : (StartLinked(u)' <=> StartLinked(u)) /\ (EndLinked(u)' => EndLinked(u))
    BY <1>5, RingsStartRefused, Links, LinksPrimed
  <2> QED BY <1>5, <2>1, <2>2 DEF DeadlineCovers
<1>6. ASSUME NEW c \in Callers, Evaluate(c)
      PROVE  DeadlineCovers'
  <2>1. ready' = ready /\ timers' = timers /\ call[c].at # "start"
    BY <1>6 DEF Evaluate
  <2>2. \A d \in Callers \ {c} : call'[d] = call[d]
    BY <1>6, RingsEvaluated
  <2> QED BY <2>1, <2>2, Links, LinksPrimed, CoversKept
<1>7. CASE PitEnter
  <2>1. ready' = ready /\ call' = call
    BY <1>7 DEF PitEnter
  <2> QED BY <1>7, <2>1, RingsEntered, Links, LinksPrimed, CoversKept
<1>8. CASE FireStart
  <2>1. call' = call
    BY <1>8 DEF FireStart
  <2>2. \A u : (StartLinked(u)' <=> StartLinked(u)) /\ (EndLinked(u)' => EndLinked(u))
    BY <1>8, RingsStarted, Links, LinksPrimed
  <2> QED BY <2>1, <2>2, CoversKept
<1>9. CASE FireEnd
  <2>1. call' = call
    BY <1>9 DEF FireEnd
  <2>2. \A u : EndLinked(u)' => EndLinked(u) /\ (StartLinked(u)' <=> StartLinked(u))
    BY <1>9, RingsExpired, Links, LinksPrimed
  <2> QED BY <2>1, <2>2 DEF DeadlineCovers
<1> QED BY <1>1, <1>2, <1>3, <1>4, <1>5, <1>6, <1>7, <1>8, <1>9 DEF Next, Continue, Handler

LEMMA NotifiersStayInside ==
  ASSUME RingsInv, NotifiersInside, [Next]_vars
  PROVE  NotifiersInside'
<1>1. CASE UNCHANGED vars \/ PitEnter \/ OtherIrq \/ FireStart \/ FireEnd \/ PitExit \/ NotifierReturns
  BY <1>1 DEF NotifiersInside, Busy, vars, PitEnter, OtherIrq, FireStart, FireEnd, FirstDue, PitExit,
              NotifierReturns, MayInterrupt
<1>2. ASSUME NEW c \in Callers, Runs(c), UNCHANGED <<irq, notified>>,
             \A d \in Callers \ {c} : call'[d] = call[d]
      PROVE  NotifiersInside'
  BY <1>2 DEF NotifiersInside, Busy, Runs, Callers
<1>3. ASSUME NEW c \in Callers, NEW t \in Threads, NEW p \in Priorities,
             NEW start \in Starts, NEW end \in Deadlines, Schedule(c, t, p, start, end)
      PROVE  NotifiersInside'
  <2>1. Runs(c) /\ UNCHANGED <<irq, notified>>
    BY <1>3 DEF Schedule
  <2> QED BY <1>2, <1>3, <2>1, RingsScheduled
<1>4. ASSUME NEW c \in Callers, Continue(c)
      PROVE  NotifiersInside'
  <2>1. Runs(c) /\ UNCHANGED <<irq, notified>>
    BY <1>4 DEF Continue, LinkEnd, LinkStart, Evaluate
  <2>2. \A d \in Callers \ {c} : call'[d] = call[d]
    BY <1>4, RingsEndLinked, RingsStartLinked, RingsStartRefused, RingsEvaluated DEF Continue
  <2> QED BY <1>2, <2>1, <2>2
<1> QED BY <1>1, <1>3, <1>4 DEF Next, Handler

(* The processor leaves the first ready thread only in a switch, and comes *)
(* back to it when an interrupt is left.                                   *)
LEMMA FirstRuns ==
  ASSUME RingsInv, RaceInv, [Next]_vars
  PROVE  StrayAfterSwitch' /\ RunsHighest'
<1>0. /\ TypeOK /\ StrayAfterSwitch /\ RunsHighest /\ NotifiersInside
      /\ call \in [Callers -> Frame \cup {NoCall}]
  BY DEF RingsInv, RaceInv, TypeOK
<1>1. CASE UNCHANGED vars
  BY <1>0, <1>1 DEF StrayAfterSwitch, RunsHighest, vars
<1>2. CASE PitEnter
  BY <1>0, <1>2 DEF StrayAfterSwitch, RunsHighest, PitEnter, MayInterrupt
<1>3. CASE FireStart \/ FireEnd
  <2>1. irq = "timers" /\ UNCHANGED <<irq, executing, call>>
    BY <1>3 DEF FireStart, FireEnd, FirstDue
  <2> QED BY <1>0, <2>1 DEF StrayAfterSwitch, RunsHighest
<1>4. CASE NotifierReturns
  <2>1. UNCHANGED <<ready, irq, executing, call>>
    BY <1>4 DEF NotifierReturns
  <2> QED BY <1>0, <2>1 DEF StrayAfterSwitch, RunsHighest
<1>5. CASE PitExit \/ OtherIrq
  <2>1. \/ executing' = ready[1] /\ ready' = ready
        \/ executing = Wild /\ UNCHANGED <<ready, irq, executing, call>>
    BY <1>5 DEF PitExit, OtherIrq
  <2>2. ready[1] \in Threads /\ Wild \notin Threads
    BY FirstReady, AvalonAssumption
  <2> QED BY <1>0, <2>1, <2>2 DEF StrayAfterSwitch, RunsHighest
<1>6. ASSUME NEW c \in Callers, Runs(c), UNCHANGED <<irq, executing>>,
             \A d \in Callers \ {c} : call'[d] = call[d],
             ready' = ready \/ call'[c].at = "evaluate",
             call[c].at # "evaluate" \/ ready[1] = executing \/ irq # "none"
      PROVE  StrayAfterSwitch' /\ RunsHighest'
  <2>1. /\ executing \in Threads
        /\ c # Irq => executing = c /\ irq = "none"
        /\ c = Irq => irq = "timers"
    BY <1>0, <1>6, CallerRuns
  <2>2. executing # Wild
    BY <2>1, AvalonAssumption
  <2>3. CASE c = Irq
    BY <1>6, <2>1, <2>2, <2>3 DEF StrayAfterSwitch, RunsHighest
  <2>4. CASE c # Irq
    <3>1. ready' = ready => ready[1] = executing
      BY <1>0, <1>6, <2>1, <2>4 DEF RunsHighest
    <3> QED BY <1>6, <2>1, <2>2, <2>4, <3>1 DEF StrayAfterSwitch, RunsHighest
  <2> QED BY <2>3, <2>4
<1>7. ASSUME NEW c \in Callers, NEW t \in Threads, NEW p \in Priorities,
             NEW start \in Starts, NEW end \in Deadlines, Schedule(c, t, p, start, end)
      PROVE  StrayAfterSwitch' /\ RunsHighest'
  <2>1. Runs(c) /\ UNCHANGED <<ready, irq, executing>> /\ call[c].at # "evaluate"
    BY <1>7 DEF Schedule, NoCall
  <2> QED BY <1>6, <1>7, <2>1, RingsScheduled
<1>8. ASSUME NEW c \in Callers, LinkEnd(c)
      PROVE  StrayAfterSwitch' /\ RunsHighest'
  <2>1. Runs(c) /\ UNCHANGED <<ready, irq, executing>> /\ call[c].at # "evaluate"
    BY <1>8 DEF LinkEnd
  <2> QED BY <1>6, <1>8, <2>1, RingsEndLinked
<1>9. ASSUME NEW c \in Callers, LinkStart(c)
      PROVE  StrayAfterSwitch' /\ RunsHighest'
  <2>1. Runs(c) /\ UNCHANGED <<irq, executing>> /\ call[c].at # "evaluate"
    BY <1>9 DEF LinkStart
  <2>2. /\ \A d \in Callers \ {c} : call'[d] = call[d]
        /\ ready' = ready \/ call'[c].at = "evaluate"
    BY <1>9, RingsStartLinked, RingsStartRefused
  <2> QED BY <1>6, <2>1, <2>2
<1>10. ASSUME NEW c \in Callers, Evaluate(c)
       PROVE  StrayAfterSwitch' /\ RunsHighest'
  <2>1. Runs(c) /\ UNCHANGED <<ready, irq>> /\ call[c].at = "evaluate"
    BY <1>10 DEF Evaluate
  <2>2. CASE irq # "none" \/ ready[1] = executing
    <3>1. UNCHANGED executing
      BY <1>10, <2>2 DEF Evaluate
    <3> QED BY <1>6, <1>10, <2>1, <2>2, <3>1, RingsEvaluated
  <2>3. CASE irq = "none" /\ ready[1] # executing
    <3>1. executing' = Wild /\ call' = call
      BY <1>10, <2>3 DEF Evaluate
    <3>2. c \in Threads /\ Wild \notin Threads
      BY <1>0, <2>1, <2>3, CallerRuns, AvalonAssumption DEF Callers
    <3> QED BY <2>1, <2>3, <3>1, <3>2 DEF StrayAfterSwitch, RunsHighest
  <2> QED BY <2>2, <2>3
<1> QED BY <1>1, <1>2, <1>3, <1>4, <1>5, <1>7, <1>8, <1>9, <1>10 DEF Next, Continue, Handler

LEMMA RaceInvariant == Spec => []IInv
<1>1. Init => IInv
  BY InitRings, InitRaces DEF IInv
<1>2. IInv /\ [Next]_vars => IInv'
  BY RingsStep, DeadlinesCovered, NotifiersStayInside, FirstRuns DEF IInv, RaceInv
<1> QED BY <1>1, <1>2, PTL DEF Spec

(* Outside interrupts, and before the switch of a call, the first thread   *)
(* of the ready ring runs: a call that readies a thread goes on to the     *)
(* switch, and the interrupt loads the first one when it returns.          *)
THEOREM HighestRuns == Spec => []RunsHighest
<1>1. IInv => RunsHighest
  BY DEF IInv, RaceInv
<1> QED BY <1>1, RaceInvariant, PTL

(* Whatever is interrupted, the system is stopped only by a deadline that  *)
(* comes between the two links of a call of thread.schedule for its thread,*)
(* and by an interrupt after the switch of a call that readied a thread.   *)
THEOREM OnlyRacesStop == Spec => OnlyRacesLock
<1> DEFINE Race ==
      \E c \in Threads :
        \/ /\ halted' = "expired_unlinked"
           /\ call[c].at = "start" /\ call[c].thread = timers[1].thread
        \/ halted' = "executing_magic" /\ executing = Wild /\ call[c].at = "evaluate"
<1>1. ASSUME IInv, [Next]_vars, halted = "none", halted' # "none"
      PROVE  Race
  <2>1. PitEnter \/ OtherIrq \/ FireEnd
    BY <1>1 DEF Next, vars, Schedule, Continue, LinkEnd, LinkStart, Evaluate, Handler, FireStart,
                NotifierReturns, PitExit
  <2>2. CASE PitEnter \/ OtherIrq
    <3>1. executing = Wild /\ halted' = "executing_magic"
      BY <1>1, <2>2 DEF PitEnter, OtherIrq
    <3> QED BY <1>1, <3>1 DEF IInv, RaceInv, StrayAfterSwitch
  <2>3. CASE FireEnd
    <3>1. halted' = "expired_unlinked" /\ notified = None /\ ~StartLinked(timers[1].thread)
      BY <1>1, <2>3 DEF FireEnd, FirstDue
    <3>2. timers[1].thread \in Threads /\ EndLinked(timers[1].thread)
      BY <1>1, <2>3, RingsExpired, Links DEF IInv
    <3>3. PICK c \in Callers : call[c].at = "start" /\ call[c].thread = timers[1].thread
      BY <1>1, <3>1, <3>2 DEF IInv, RaceInv, DeadlineCovers
    <3>4. c # Irq
      BY <1>1, <3>1, <3>3 DEF IInv, RaceInv, NotifiersInside, Busy, NoCall
    <3> QED BY <3>1, <3>3, <3>4 DEF Callers
  <2> QED BY <2>1, <2>2, <2>3
<1>2. IInv /\ [Next]_vars => [halted = "none" /\ halted' # "none" => Race]_vars
  BY <1>1
<1> QED BY <1>2, RaceInvariant, PTL DEF Spec, OnlyRacesLock

-----------------------------------------------------------------------------
(* The scheduler implements ThreadLives: a call that passes its checks is  *)
(* the abstract Ask, linking a start node is Schedule, firing a start timer is Start, firing a deadline is  *)
(* Expire, and loading the first ready thread is Dispatch.  A second call  *)
(* that links or takes out the end node of a thread that the first one has *)
(* started is ChangeDeadline, and the switch of a call is Stray.           *)

life == [t \in Threads |-> IF t \in ToSet(ready) THEN "ready"
                          ELSE IF InTimers(t, "start") THEN "waiting" ELSE "idle"]
deadline == [t \in Threads |-> StartLinked(t) /\ EndLinked(t)]

LEMMA LifeOf ==
  /\ life = [t \in Threads |-> life[t]] /\ deadline = [t \in Threads |-> deadline[t]]
  /\ \A t \in Threads :
       /\ life[t] = IF t \in ToSet(ready) THEN "ready"
                    ELSE IF In(timers, t, "start") THEN "waiting" ELSE "idle"
       /\ deadline[t] = (StartLinked(t) /\ EndLinked(t))
BY DEF life, deadline, InTimers, In

LEMMA LifeOfPrimed ==
  /\ life' = [t \in Threads |-> life'[t]] /\ deadline' = [t \in Threads |-> deadline'[t]]
  /\ \A t \in Threads :
       /\ life'[t] = IF t \in ToSet(ready') THEN "ready"
                     ELSE IF In(timers', t, "start") THEN "waiting" ELSE "idle"
       /\ deadline'[t] = (StartLinked(t)' /\ EndLinked(t)')
BY DEF life, deadline, InTimers, In

LEMMA AskedIs == \A u : u \in Asked <=> \E c \in Callers : For(call[c], u)
BY DEF Asked, For

LEMMA AskedIsPrimed == \A u : u \in Asked' <=> \E c \in Callers : For(call'[c], u)
BY DEF Asked, For

(* A call that asks no more, and one that asks what it asked before.       *)
LEMMA AskedAnswered ==
  ASSUME NEW c \in Callers, \A d \in Callers \ {c} : call'[d] = call[d],
         NEW t, For(call[c], t), call'[c].at \notin {"end", "start"}
  PROVE  t \in Asked /\ Asked' \in {Asked, Asked \ {t}}
<1>1. t \in Asked
  BY AskedIs
<1>2. \A u : u # t => (u \in Asked' <=> u \in Asked)
  BY AskedIs, AskedIsPrimed DEF For
<1>3. CASE t \in Asked'
  BY <1>1, <1>2, <1>3
<1>4. CASE t \notin Asked'
  BY <1>1, <1>2, <1>4
<1> QED BY <1>1, <1>3, <1>4

LEMMA AskedKept ==
  ASSUME NEW c \in Callers, \A d \in Callers \ {c} : call'[d] = call[d],
         \A u : For(call'[c], u) <=> For(call[c], u)
  PROVE  Asked' = Asked
<1>1. \A u : u \in Asked' <=> u \in Asked
  BY AskedIs, AskedIsPrimed
<1> QED BY <1>1

LEMMA InitLives == Init => Lives!Init
<1> SUFFICES ASSUME Init PROVE Lives!Init
  OBVIOUS
<1>1. ready = <<Init_, Idle_>> /\ timers = <<>> /\ executing = Init_
  BY DEF Init
<1>2. \A t : t \in ToSet(ready) <=> t \in {Init_, Idle_}
  BY <1>1 DEF ToSet
<1>3. \A t, kind : ~InTimers(t, kind)
  BY <1>1 DEF InTimers
<1>4. \A t : ~EndLinked(t)
  BY <1>3 DEF EndLinked
<1>5. Asked = {}
  <2>1. \A u : u \notin Asked
    BY AskedIs, NewFrames DEF Init, For
  <2> QED BY <2>1
<1> QED BY <1>1, <1>2, <1>3, <1>4, <1>5 DEF Lives!Init

(* A step that leaves every thread's place and the processor alone.        *)
LEMMA LifeGoesOn ==
  ASSUME \A t \in Threads : life'[t] = life[t] /\ deadline'[t] = deadline[t],
         executing' = executing, Asked' = Asked
  PROVE  UNCHANGED Lives!vars
<1>1. life' = life /\ deadline' = deadline
  BY LifeOf, LifeOfPrimed, Zenon
<1> QED BY <1>1 DEF Lives!vars, life, deadline

LEMMA LivesUntouched ==
  ASSUME UNCHANGED <<ready, timers, executing>>, Asked' = Asked
  PROVE  UNCHANGED Lives!vars
BY LifeOf, LifeOfPrimed, Links, LinksPrimed, LifeGoesOn

LEMMA LivesAsked ==
  ASSUME IInv, NEW c \in Callers, NEW t \in Threads, NEW p \in Priorities,
         NEW start \in Starts, NEW end \in Deadlines, Schedule(c, t, p, start, end)
  PROVE  Lives!Next
<1>1. /\ Runs(c) /\ call[c] = NoCall /\ ~StartLinked(t)
      /\ UNCHANGED <<ready, timers, executing>>
  BY DEF Schedule
<1>2. executing \in Threads
  BY <1>1, CallerRuns DEF IInv, RaceInv, RingsInv
<1>3. Asked' = Asked \cup {t}
  <2>1. \A u : ~For(call[c], u)
    BY <1>1, NewFrames DEF For
  <2>2. /\ \A d \in Callers \ {c} : call'[d] = call[d]
        /\ call'[c].at = "end" /\ call'[c].thread = t
    BY RingsScheduled DEF IInv
  <2>3. \A u : For(call'[c], u) <=> u = t
    BY <2>2 DEF For
  <2>4. \A u : u \in Asked' <=> u \in Asked \/ u = t
    BY <2>1, <2>2, <2>3, AskedIs, AskedIsPrimed
  <2> QED BY <2>4
<1>4. life[t] = "idle"
  BY <1>1, LifeOf, Links
<1>5. life' = life /\ deadline' = deadline
  BY <1>1, LifeOf, LifeOfPrimed, Links, LinksPrimed
<1>6. Lives!Ask(t)
  BY <1>1, <1>3, <1>4, <1>5 DEF Lives!Ask, life, deadline
<1> QED BY <1>2, <1>6, Zenon DEF Lives!Next

(* The deadline of a thread that is not idle turns to its opposite, or     *)
(* stays; the call may have been answered.                                 *)
LEMMA DeadlineChanged ==
  ASSUME executing' = executing, executing \in Threads, ready' = ready, NEW t \in Threads,
         \A u, k : ~(u = t /\ k = "end") => (In(timers', u, k) <=> In(timers, u, k)),
         t \in Asked, Asked' \in {Asked, Asked \ {t}}
  PROVE  Lives!Next
<1>1. /\ \A u : StartLinked(u)' <=> StartLinked(u)
      /\ \A u : u # t => (EndLinked(u)' <=> EndLinked(u))
  BY Links, LinksPrimed
<1>2. life' = life /\ \A u \in Threads \ {t} : deadline'[u] = deadline[u]
  BY <1>1, LifeOf, LifeOfPrimed
<1>3. Lives!Answered(t)
  BY DEF Lives!Answered
<1>4. CASE deadline'[t] = deadline[t]
  <2>1. deadline' = deadline
    BY <1>2, <1>4, LifeOf, LifeOfPrimed
  <2>2. Lives!Refuse(t)
    BY <1>2, <1>3, <2>1 DEF Lives!Refuse, life, deadline
  <2> QED BY <2>2, Zenon DEF Lives!Next
<1>5. CASE deadline'[t] # deadline[t]
  <2>1. StartLinked(t)
    BY <1>1, <1>5, LifeOf, LifeOfPrimed
  <2>2. life[t] # "idle"
    BY <2>1, LifeOf, Links
  <2>3. deadline[t] \in BOOLEAN /\ deadline'[t] \in BOOLEAN
    BY LifeOf, LifeOfPrimed, Zenon
  <2>4. deadline'[t] = ~deadline[t]
    BY <1>5, <2>3
  <2>5. deadline' = [deadline EXCEPT ![t] = ~@]
    <3>1. deadline' = [deadline EXCEPT ![t] = deadline'[t]]
      BY <1>2, LifeOf, LifeOfPrimed
    <3> QED BY <2>4, <3>1, Zenon
  <2>6. Lives!ChangeDeadline(t)
    BY <1>2, <1>3, <2>2, <2>5 DEF Lives!ChangeDeadline, life, deadline
  <2> QED BY <2>6, Zenon DEF Lives!Next
<1> QED BY <1>4, <1>5

LEMMA LivesEndLinked ==
  ASSUME IInv, NEW c \in Callers, LinkEnd(c)
  PROVE  Lives!Next
<1>1. Runs(c) /\ call[c].at = "end" /\ ready' = ready /\ executing' = executing
  BY DEF LinkEnd
<1>2. executing \in Threads /\ call[c].thread \in Threads
  BY <1>1, CallerRuns, CallTypes DEF IInv, RaceInv, RingsInv
<1>3. \A u, k : ~(u = call[c].thread /\ k = "end") => (In(timers', u, k) <=> In(timers, u, k))
  BY RingsEndLinked DEF IInv
<1>4. call[c].thread \in Asked /\ Asked' \in {Asked, Asked \ {call[c].thread}}
  <2>1. \A d \in Callers \ {c} : call'[d] = call[d]
    BY RingsEndLinked DEF IInv
  <2>2. For(call[c], call[c].thread)
    BY <1>1 DEF For
  <2>3. CASE call'[c] = NoCall
    BY <2>1, <2>2, <2>3, AskedAnswered, NewFrames
  <2>4. CASE call'[c].at = "start" /\ call'[c].thread = call[c].thread
    <3>1. \A u : For(call'[c], u) <=> For(call[c], u)
      BY <1>1, <2>4 DEF For
    <3> QED BY <2>1, <2>2, <3>1, AskedKept, AskedIs
  <2> QED BY <2>3, <2>4, RingsEndLinked DEF IInv
<1> QED BY <1>1, <1>2, <1>3, <1>4, DeadlineChanged

LEMMA LivesRefused ==
  ASSUME IInv, NEW c \in Callers, LinkStart(c), StartLinked(call[c].thread)
  PROVE  Lives!Next
<1>1. Runs(c) /\ call[c].at = "start" /\ executing' = executing
  BY DEF LinkStart
<1>2. executing \in Threads /\ call[c].thread \in Threads
  BY <1>1, CallerRuns, CallTypes DEF IInv, RaceInv, RingsInv
<1>3. /\ ready' = ready
      /\ \A u, k : ~(u = call[c].thread /\ k = "end") => (In(timers', u, k) <=> In(timers, u, k))
  BY RingsStartRefused DEF IInv
<1>4. call[c].thread \in Asked /\ Asked' \in {Asked, Asked \ {call[c].thread}}
  <2>1. For(call[c], call[c].thread)
    BY <1>1 DEF For
  <2> QED BY <2>1, RingsStartRefused, AskedAnswered DEF IInv
<1> QED BY <1>1, <1>2, <1>3, <1>4, DeadlineChanged

LEMMA LivesScheduled ==
  ASSUME IInv, NEW c \in Callers, LinkStart(c), ~StartLinked(call[c].thread)
  PROVE  Lives!Next
<1>1. executing' = executing /\ Runs(c) /\ call[c].at = "start"
  BY DEF LinkStart
<1>0. PICK t \in Threads : t = call[c].thread
  BY <1>1, CallTypes DEF IInv, RingsInv
<1>2. ~StartLinked(t) /\ executing \in Threads
  BY <1>0, <1>1, CallerRuns DEF IInv, RaceInv, RingsInv
<1>3. /\ call[c].start = 0 =>
           timers' = timers /\ \A u : u \in ToSet(ready') <=> u \in ToSet(ready) \/ u = t
      /\ call[c].start # 0 =>
           ready' = ready /\ \A u, k : In(timers', u, k) <=> In(timers, u, k) \/ (t = u /\ k = "start")
  BY <1>0, RingsStartLinked DEF IInv
<1>4. life[t] = "idle"
  BY <1>1, <1>2, LifeOf, Links
<1>5. life'[t] \in {"waiting", "ready"} /\ deadline'[t] \in BOOLEAN
  BY <1>1, <1>3, LifeOfPrimed, Links, LinksPrimed
<1>6. \A u \in Threads \ {t} : life'[u] = life[u] /\ deadline'[u] = deadline[u]
  BY <1>3, LifeOf, LifeOfPrimed, Links, LinksPrimed
<1>7. life' = [life EXCEPT ![t] = life'[t]] /\ deadline' = [deadline EXCEPT ![t] = deadline'[t]]
  BY <1>1, <1>6, LifeOf, LifeOfPrimed
<1>8. Lives!Answered(t)
  <2>1. For(call[c], t)
    BY <1>0, <1>1 DEF For
  <2>2. t \in Asked /\ Asked' \in {Asked, Asked \ {t}}
    BY <1>0, <1>2, <2>1, RingsStartLinked, AskedAnswered DEF IInv
  <2> QED BY <2>2 DEF Lives!Answered
<1>9. Lives!Schedule(t)
  BY <1>1, <1>4, <1>5, <1>7, <1>8 DEF Lives!Schedule, life, deadline
<1> QED BY <1>2, <1>9, Zenon DEF Lives!Next

(* The switch is to the first ready thread, which is another one.          *)
LEMMA LivesEvaluated ==
  ASSUME IInv, NEW c \in Callers, Evaluate(c)
  PROVE  Lives!Next \/ UNCHANGED Lives!vars
<1>1. Runs(c) /\ UNCHANGED <<ready, timers>>
  BY DEF Evaluate
<1>4. Asked' = Asked
  BY RingsEvaluated, AskedKept DEF IInv, For
<1>2. CASE irq # "none" \/ ready[1] = executing
  <2>1. UNCHANGED executing
    BY <1>2 DEF Evaluate
  <2> QED BY <1>1, <1>4, <2>1, LivesUntouched
<1>3. CASE irq = "none" /\ ready[1] # executing
  <2>1. PICK t \in Threads : t = ready[1]
    BY FirstReady DEF IInv
  <2>2. executing' = Wild /\ t # executing /\ executing \in Threads
    BY <1>1, <1>3, <2>1, CallerRuns DEF Evaluate, IInv, RaceInv, RingsInv
  <2>3. life[t] = "ready"
    <3>1. ready \in Seq(Threads) /\ 1 \in 1 .. Len(ready)
      BY FirstReady DEF IInv, RingsInv, TypeOK
    <3>2. t \in ToSet(ready)
      BY <2>1, <3>1, InReady
    <3> QED BY <3>2, LifeOf
  <2>4. life' = life /\ deadline' = deadline
    BY <1>1, LifeOf, LifeOfPrimed, Links, LinksPrimed
  <2>5. Lives!Stray(t)
    BY <1>4, <2>2, <2>3, <2>4, AvalonAssumption DEF Lives!Stray, life, deadline
  <2> QED BY <2>2, <2>5, Zenon DEF Lives!Next
<1> QED BY <1>2, <1>3

LEMMA CallKept == call' = call => Asked' = Asked
BY DEF Asked

LEMMA LivesEntered ==
  ASSUME IInv, PitEnter
  PROVE  UNCHANGED Lives!vars
<1>1. ready' = ready /\ executing' = executing /\ \A u, k : In(timers', u, k) <=> In(timers, u, k)
  BY RingsEntered DEF PitEnter, IInv
<1>2. Asked' = Asked
  BY CallKept DEF PitEnter
<1> QED BY <1>1, <1>2, LifeOf, LifeOfPrimed, Links, LinksPrimed, LifeGoesOn

(* The handler has not left a thread that is no thread.                    *)
LEMMA HandlerRuns ==
  ASSUME IInv, irq = "timers"
  PROVE  executing \in Threads
BY DEF IInv, RaceInv, StrayAfterSwitch, RingsInv, TypeOK

LEMMA LivesStarted ==
  ASSUME IInv, FireStart
  PROVE  Lives!Next
<1>0. PICK t \in Threads : t = timers[1].thread
  BY RingsStarted DEF IInv
<1>1. /\ In(timers, t, "start")
      /\ \A u : u \in ToSet(ready') <=> u \in ToSet(ready) \/ u = t
      /\ \A u, k : In(timers', u, k) <=> In(timers, u, k) /\ ~(t = u /\ "start" = k)
  BY <1>0, RingsStarted DEF IInv
<1>2. t \notin ToSet(ready)
  BY <1>1, RingsOnce DEF IInv, RingsInv
<1>3. executing' = executing /\ executing \in Threads /\ Asked' = Asked
  BY HandlerRuns, CallKept DEF FireStart, FirstDue
<1>4. life[t] = "waiting" /\ life'[t] = "ready"
  BY <1>1, <1>2, LifeOf, LifeOfPrimed
<1>5. \A u \in Threads : (u # t => life'[u] = life[u]) /\ deadline'[u] = deadline[u]
  BY <1>1, LifeOf, LifeOfPrimed, Links, LinksPrimed
<1>6. life' = [life EXCEPT ![t] = "ready"] /\ deadline' = deadline
  BY <1>1, <1>4, <1>5, LifeOf, LifeOfPrimed
<1>7. Lives!Start(t)
  BY <1>3, <1>4, <1>6 DEF Lives!Start, life, deadline
<1> QED BY <1>3, <1>7, Zenon DEF Lives!Next

(* A deadline that came between the links of a call for its thread finds   *)
(* the thread idle.                                                        *)
LEMMA LivesExpired ==
  ASSUME IInv, FireEnd
  PROVE  Lives!Next \/ UNCHANGED Lives!vars
<1>0. PICK t \in Threads : t = timers[1].thread
  BY RingsExpired DEF IInv
<1>1. /\ In(timers, t, "end")
      /\ \A u : u \in ToSet(ready') <=> u \in ToSet(ready) /\ u # t
      /\ \A u, k : In(timers', u, k) <=> In(timers, u, k) /\ ~(t = u /\ k \in {"start", "end"})
  BY <1>0, RingsExpired DEF IInv
<1>2. EndLinked(t)
  BY <1>1, Links
<1>3. executing' = executing /\ executing \in Threads /\ Asked' = Asked
  BY HandlerRuns, CallKept DEF FireEnd, FirstDue
<1>5. life'[t] = "idle" /\ deadline'[t] = FALSE
  BY <1>1, LifeOfPrimed, LinksPrimed
<1>6. \A u \in Threads : u # t => life'[u] = life[u] /\ deadline'[u] = deadline[u]
  BY <1>1, LifeOf, LifeOfPrimed, Links, LinksPrimed
<1>7. CASE StartLinked(t)
  <2>1. life[t] # "idle" /\ deadline[t] = TRUE
    BY <1>1, <1>2, <1>7, LifeOf, Links
  <2>2. life' = [life EXCEPT ![t] = "idle"] /\ deadline' = [deadline EXCEPT ![t] = FALSE]
    BY <1>1, <1>5, <1>6, LifeOf, LifeOfPrimed
  <2>3. Lives!Expire(t)
    BY <1>3, <2>1, <2>2 DEF Lives!Expire, life, deadline
  <2> QED BY <1>3, <2>3, Zenon DEF Lives!Next
<1>8. CASE ~StartLinked(t)
  <2>1. life[t] = "idle" /\ deadline[t] = FALSE
    BY <1>8, LifeOf, Links
  <2> QED BY <1>3, <1>5, <1>6, <2>1, LifeGoesOn
<1> QED BY <1>7, <1>8

LEMMA LivesDispatched ==
  ASSUME IInv, PitExit \/ OtherIrq
  PROVE  Lives!Next \/ UNCHANGED Lives!vars
<1>1. CASE OtherIrq /\ executing = Wild
  BY <1>1, LivesUntouched, CallKept DEF OtherIrq
<1>2. CASE PitExit \/ executing # Wild
  <2>1. executing' = ready[1] /\ UNCHANGED <<ready, timers>> /\ Asked' = Asked
    BY <1>2, CallKept DEF PitExit, OtherIrq
  <2>2. executing \in Threads
    BY <1>2, HandlerRuns DEF PitExit, IInv, RingsInv, TypeOK
  <2>3. PICK t \in Threads : t = ready[1] /\ t \in ToSet(ready)
    <3>1. ready \in Seq(Threads) /\ 1 \in 1 .. Len(ready) /\ ready[1] \in Threads
      BY FirstReady DEF IInv, RingsInv, TypeOK
    <3> QED BY <3>1, InReady
  <2>4. life[t] = "ready"
    BY <2>3, LifeOf
  <2>5. life' = life /\ deadline' = deadline
    BY <2>1, LifeOf, LifeOfPrimed, Links, LinksPrimed
  <2>6. Lives!Dispatch(t)
    BY <2>1, <2>3, <2>4, <2>5 DEF Lives!Dispatch, life, deadline
  <2> QED BY <2>2, <2>6, Zenon DEF Lives!Next
<1> QED BY <1>1, <1>2

LEMMA LivesStep ==
  ASSUME IInv, [Next]_vars
  PROVE  [Lives!Next]_(Lives!vars)
<1>1. ASSUME NEW c \in Callers, NEW t \in Threads, NEW p \in Priorities,
             NEW start \in Starts, NEW end \in Deadlines, Schedule(c, t, p, start, end)
      PROVE  Lives!Next
  BY <1>1, LivesAsked
<1>2. ASSUME NEW c \in Callers, Continue(c)
      PROVE  Lives!Next \/ UNCHANGED Lives!vars
  BY <1>2, LivesEndLinked, LivesRefused, LivesScheduled, LivesEvaluated DEF Continue
<1>3. NotifierReturns \/ UNCHANGED vars => UNCHANGED Lives!vars
  BY LivesUntouched, CallKept DEF NotifierReturns, vars
<1>4. PitEnter => UNCHANGED Lives!vars
  BY LivesEntered
<1>5. Handler \/ OtherIrq => Lives!Next \/ UNCHANGED Lives!vars
  BY <1>3, LivesStarted, LivesExpired, LivesDispatched DEF Handler
<1> QED BY <1>1, <1>2, <1>3, <1>4, <1>5 DEF Next

(* Seen from outside, a thread is scheduled only when it is idle and asked *)
(* for, started and stopped only by its own timers, and given the processor*)
(* only when it is ready, even when callers race for it; nothing goes on   *)
(* after the processor got lost.                                           *)
THEOREM LivesImplemented == Spec => ImplementsLives
<1>1. IInv /\ [Next]_vars => [Lives!Next]_(Lives!vars)
  BY LivesStep
<1> QED BY <1>1, InitLives, RaceInvariant, PTL DEF Spec, ImplementsLives, Lives!Spec
=============================================================================
