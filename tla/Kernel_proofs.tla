--------------------------- MODULE Kernel_proofs ---------------------------
(***************************************************************************)
(* Theorems about two parts of the kernel that share nothing.  IrqModule:  *)
(* connected clients are called, and the module `irq` counts as its        *)
(* abstraction says: for any set of IRQs, clients and threads.  Assumed is *)
(* what the callers see to: no call overlaps an irq.disconnect, and no one *)
(* names the IRQ of the cascade.  NoBlame: blocks do not overlap, for any  *)
(* size of the word, any memory and any requests that do not wrap the      *)
(* frame.                                                                  *)
(*                                                                         *)
(* A ring has only next pointers.  That it is one ring through all clients *)
(* of its IRQ, and none other, is what an order of the clients says that   *)
(* the pointers go down: f is a witness of it.                             *)
(***************************************************************************)
EXTENDS IrqModule, NoBlame, FiniteSetsExt, WellFoundedInduction, TLAPS

Below == {ss \in Nat \X Nat : ss[1] < ss[2]}

(* A set of natural numbers has a least one, and Min finds it.             *)
LEMMA MinOfNats ==
  ASSUME NEW B, B \subseteq Nat, B # {}
  PROVE  Min(B) \in B /\ \A y \in B : Min(B) <= y
<1>1. IsWellFoundedOn(Below, Nat)
  BY NatLessThanWellFounded DEF OpToRel, Below
<1>2. PICK x \in B : \A y \in B : ~(<<y, x>> \in Below)
  BY <1>1, WFMin, Zenon
<1>3. ASSUME NEW y \in B
      PROVE  x <= y
  <2>1. x \in Nat /\ y \in Nat /\ <<y, x>> \in Nat \X Nat
    OBVIOUS
  <2>2. ~(<<y, x>>[1] < <<y, x>>[2])
    BY <1>2, <2>1, Zenon DEF Below
  <2> QED BY <2>1, <2>2
<1>4. Min(B) \in B /\ \A y \in B : Min(B) <= y
  BY <1>3, Zenon DEF Min
<1> QED BY <1>4

Types ==
  /\ next \in [Nodes -> Nodes]
  /\ masked \subseteq Irqs
  /\ call \in [Threads -> {NoCall, Wild} \cup Frames]
  /\ walk \in {NoCall} \cup Walks
  /\ channel \in [Clients -> Users \cup {NoCall}]
  /\ \A t \in Threads : call[t] \in Frames => call[t].irq \in Users

(* The clients that come behind a node of its ring, and the first of them  *)
(* or the head.                                                            *)
Behind(f, a, n) == n \in Irqs \/ f[a] < f[n]
Follows(f, irq, n, m) ==
  IF m = irq THEN \A a \in Connected(irq) : ~Behind(f, a, n)
  ELSE /\ m \in Connected(irq)
       /\ Behind(f, m, n)
       /\ \A a \in Connected(irq) : Behind(f, a, n) => f[a] <= f[m]

Ring(f) ==
  /\ \A c \in Clients : channel[c] = NoCall <=> next[c] = c
  /\ \A irq \in Irqs : \A a, b \in Connected(irq) : f[a] = f[b] => a = b
  /\ \A irq \in Irqs : \A n \in {irq} \cup Connected(irq) : Follows(f, irq, n, next[n])

(* The clients that irq.soft_irq has not called yet are behind the node    *)
(* that it has reached.                                                    *)
OnTheWay(f) ==
  walk # NoCall =>
    /\ walk.at \in {walk.irq} \cup Connected(walk.irq)
    /\ \A d \in walk.due \ walk.called : d \in Connected(walk.irq) /\ Behind(f, d, walk.at)

Ordered == \E f \in [Clients -> Nat] : Ring(f) /\ OnTheWay(f)

(* No mask holds back an IRQ that has clients, nor does one that is about  *)
(* to be written.                                                          *)
Open(mask) == Cascade \notin mask /\ \A irq \in mask : Connected(irq) = {}
Heeded ==
  /\ Open(masked)
  /\ \A t \in Threads : call[t] \in Frames =>
       /\ call[t].at = "in" => Connected(call[t].irq) = {}
       /\ call[t].at = "out" => Open(call[t].mask)

IInv == Types /\ Ordered /\ Heeded

Careful == ~Racing /\ Cascade \notin Users

-----------------------------------------------------------------------------

LEMMA Constants ==
  /\ Users \subseteq Irqs /\ Cascade \in Irqs /\ Irqs \cap Clients = {}
  /\ NoCall \notin Irqs \cup Clients /\ NoCall \notin Frames /\ NoCall \notin Walks
  /\ Wild \notin Frames /\ Wild # NoCall
  /\ Nodes = Irqs \cup Clients
  BY IridiaAssumption DEF Nodes

LEMMA InitIInv == Init => IInv
<1> SUFFICES ASSUME Init PROVE IInv
  OBVIOUS
<1>1. Types
  BY Constants DEF Init, Types
<1>2. \A irq \in Irqs : Connected(irq) = {}
  BY IridiaAssumption DEF Init, Connected, Nodes
<1> DEFINE f == [c \in Clients |-> 0]
<1>3. f \in [Clients -> Nat] /\ Ring(f) /\ OnTheWay(f)
  BY <1>2, Constants DEF Init, Ring, OnTheWay, Follows
<1>4. Heeded
  BY <1>2, Constants DEF Init, Heeded, Open
<1> QED BY <1>1, <1>3, <1>4, Zenon DEF IInv, Ordered

(* A new client goes right behind the head: above all others in the order. *)
LEMMA ConnectedStep ==
  ASSUME IInv, NEW irq \in Users, NEW c \in Clients, ConnectedAs(irq, c),
         NEW f \in [Clients -> Nat], Ring(f)
  PROVE  \E g \in [Clients -> Nat] :
           /\ Ring(g)'
           /\ \A a \in Clients \ {c} : g[a] = f[a]
<1> DEFINE top == next[irq]
<1>0. irq \in Irqs /\ irq \notin Clients /\ c \notin Irqs /\ irq # NoCall /\ c \in Nodes /\ irq \in Nodes
  BY Constants
<1>1. /\ next[c] = c
      /\ next' = [next EXCEPT ![c] = top, ![irq] = c]
      /\ channel' = [channel EXCEPT ![c] = irq]
  BY DEF ConnectedAs, Insert
<1>2. channel[c] = NoCall
  BY <1>1 DEF Ring
<1>3. top \in Nodes /\ next \in [Nodes -> Nodes] /\ channel \in [Clients -> Users \cup {NoCall}]
  BY <1>0 DEF IInv, Types
<1>4. PICK g \in [Clients -> Nat] :
        /\ \A a \in Clients \ {c} : g[a] = f[a]
        /\ g[c] = IF top \in Clients THEN f[top] + 1 ELSE 0
  <2> DEFINE h == [f EXCEPT ![c] = IF top \in Clients THEN f[top] + 1 ELSE 0]
  <2>1. h \in [Clients -> Nat] /\ (\A a \in Clients \ {c} : h[a] = f[a])
        /\ h[c] = IF top \in Clients THEN f[top] + 1 ELSE 0
    OBVIOUS
  <2> QED BY <2>1
<1>5. /\ next'[c] = top /\ next'[irq] = c
      /\ \A n \in Nodes \ {c, irq} : next'[n] = next[n]
  BY <1>0, <1>1, <1>3
<1>6. /\ Connected(irq)' = Connected(irq) \cup {c}
      /\ \A other \in Irqs \ {irq} : Connected(other)' = Connected(other)
      /\ \A other \in Irqs : c \notin Connected(other)
  BY <1>0, <1>1, <1>2, <1>3, Constants DEF Connected
<1>7. Follows(f, irq, irq, top)
  BY <1>0 DEF Ring
<1>8. /\ top = irq => Connected(irq) = {}
      /\ top # irq => top \in Connected(irq) /\ \A a \in Connected(irq) : f[a] <= f[top]
  BY <1>7, <1>0 DEF Follows, Behind
<1>9. \A a \in Connected(irq) : f[a] < g[c] /\ a \in Clients
  BY <1>4, <1>8, <1>3, <1>0 DEF Connected
<1>10. \A d \in Clients : channel'[d] = NoCall <=> next'[d] = d
  <2> SUFFICES ASSUME NEW d \in Clients PROVE channel'[d] = NoCall <=> next'[d] = d
    OBVIOUS
  <2>1. CASE d = c
    <3>1. top # c
      BY <1>6, <1>8, <1>0
    <3> QED BY <2>1, <3>1, <1>0, <1>1, <1>3, <1>5
  <2>2. CASE d # c
    <3>1. d \in Nodes \ {c, irq}
      BY <2>2, <1>0, Constants
    <3> QED BY <2>2, <3>1, <1>1, <1>3, <1>5 DEF Ring
  <2> QED BY <2>1, <2>2
<1>11. \A i \in Irqs : \A a, b \in Connected(i)' : g[a] = g[b] => a = b
  <2> SUFFICES ASSUME NEW i \in Irqs, NEW a \in Connected(i)', NEW b \in Connected(i)', g[a] = g[b]
               PROVE  a = b
    OBVIOUS
  <2>1. CASE i # irq
    BY <2>1, <1>4, <1>6 DEF Ring, Connected
  <2>2. CASE i = irq
    BY <2>2, <1>4, <1>6, <1>9, <1>0 DEF Ring, Connected
  <2> QED BY <2>1, <2>2
<1>12. ASSUME NEW i \in Irqs, NEW n \in {i} \cup Connected(i)'
       PROVE  Follows(g, i, n, next[n])'
  <2>1. CASE i # irq
    <3>1. Connected(i)' = Connected(i) /\ n \in Nodes \ {c, irq} /\ c \notin Connected(i)
      BY <2>1, <1>0, <1>6, <1>12, Constants DEF Connected
    <3>2. Follows(f, i, n, next[n]) /\ next'[n] = next[n]
      BY <3>1, <1>12, <1>5 DEF Ring
    <3>3. \A a \in Connected(i) : a \in Clients \ {c}
      BY <3>1 DEF Connected
    <3>4. \A a \in Connected(i) : Behind(g, a, n) <=> Behind(f, a, n)
      BY <3>1, <3>3, <1>4, <1>12 DEF Behind
    <3> QED BY <3>1, <3>2, <3>3, <3>4, <1>4 DEF Follows, Behind
  <2>2. CASE i = irq /\ n = irq
    BY <2>2, <1>5, <1>6, <1>9, <1>4, <1>0 DEF Follows, Behind
  <2>3. CASE i = irq /\ n = c
    <3>1. \A a \in Connected(irq) : g[a] = f[a]
      BY <1>4, <1>6, <1>0 DEF Connected
    <3> QED BY <2>3, <3>1, <1>4, <1>5, <1>6, <1>8, <1>9, <1>0 DEF Follows, Behind
  <2>4. CASE i = irq /\ n \in Connected(irq)
    <3>1. n \in Nodes \ {c, irq} /\ n \in Clients /\ n \notin Irqs
      BY <2>4, <1>0, <1>6, Constants DEF Connected
    <3>2. Follows(f, irq, n, next[n]) /\ next'[n] = next[n]
      BY <3>1, <2>4, <1>0, <1>5 DEF Ring
    <3>3. \A a \in Connected(irq) : g[a] = f[a] /\ a # c /\ f[a] \in Nat
      BY <1>4, <1>6, <1>0 DEF Connected
    <3>4. ~Behind(g, c, n)
      BY <2>4, <3>1, <3>3, <1>4, <1>9 DEF Behind
    <3> QED BY <2>4, <3>1, <3>2, <3>3, <3>4, <1>6 DEF Follows, Behind
  <2> QED BY <2>1, <2>2, <2>3, <2>4, <1>6, <1>12
<1>13. Ring(g)'
  BY <1>10, <1>11, <1>12 DEF Ring
<1> QED BY <1>4, <1>13

(* Exactly one node leads to a client in a ring: the lowest of those above *)
(* it, or the head.                                                        *)
LEMMA Before ==
  ASSUME Types, NEW f \in [Clients -> Nat], Ring(f),
         NEW k \in Irqs, NEW c \in Connected(k)
  PROVE  /\ \E n \in Nodes : next[n] = c
         /\ \A n \in Nodes : next[n] = c => n \in {k} \cup Connected(k)
         /\ \A n, m \in Nodes : next[n] = c /\ next[m] = c => n = m
<1>0. /\ c \in Clients /\ c \in Nodes /\ c \notin Irqs /\ k \in Nodes /\ channel[c] = k /\ k # NoCall
      /\ next[c] # c
  BY Constants DEF Connected, Ring
<1>1. \A n \in {k} \cup Connected(k) : Follows(f, k, n, next[n])
  BY DEF Ring
<1>2. \A n \in Connected(k) : n \in Clients /\ n \notin Irqs /\ n \in Nodes /\ f[n] \in Nat
  BY Constants DEF Connected
<1>3. \E n \in Nodes : next[n] = c
  <2> DEFINE Above == {f[a] : a \in {a \in Connected(k) : f[c] < f[a]}}
  <2>1. CASE Above = {}
    <3>1. \A a \in Connected(k) : f[a] <= f[c]
      BY <2>1, <1>2
    <3>2. next[k] # k
      BY <1>1 DEF Follows, Behind
    <3>3. next[k] \in Connected(k) /\ f[c] <= f[next[k]]
      BY <3>2, <1>1 DEF Follows, Behind
    <3>4. f[next[k]] = f[c]
      BY <3>1, <3>3, <1>2
    <3> QED BY <3>3, <3>4, <1>0 DEF Ring
  <2>2. CASE Above # {}
    <3>1. Above \subseteq Nat
      BY <1>2
    <3> DEFINE low == Min(Above)
    <3>2. low \in Above /\ \A y \in Above : low <= y
      BY <2>2, <3>1, MinOfNats
    <3> HIDE DEF low
    <3>3. PICK n \in Connected(k) : f[c] < f[n] /\ f[n] = low
      BY <3>2
    <3>4. \A a \in Connected(k) : f[c] < f[a] => f[n] <= f[a]
      BY <3>2, <3>3
    <3>5. next[n] # k
      BY <3>3, <1>1 DEF Follows, Behind
    <3>6. next[n] \in Connected(k) /\ f[next[n]] < f[n] /\ f[c] <= f[next[n]]
      BY <3>3, <3>5, <1>1, <1>2 DEF Follows, Behind
    <3>7. f[next[n]] = f[c]
      BY <3>4, <3>6, <1>2
    <3> QED BY <3>6, <3>7, <1>2, <1>0 DEF Ring
  <2> QED BY <2>1, <2>2
<1>4. ASSUME NEW n \in Nodes, next[n] = c
      PROVE  n \in {k} \cup Connected(k)
  <2>1. CASE n \in Irqs
    <3>1. Follows(f, n, n, c)
      BY <2>1, <1>4 DEF Ring
    <3> QED BY <3>1, <2>1, <1>0 DEF Follows, Connected
  <2>2. CASE n \in Clients
    <3>1. channel[n] # NoCall
      BY <2>2, <1>4, <1>0 DEF Ring
    <3>2. channel[n] \in Irqs /\ n \in Connected(channel[n])
      BY <2>2, <3>1, Constants DEF Types, Connected
    <3>3. Follows(f, channel[n], n, c)
      BY <3>2, <1>4 DEF Ring
    <3> QED BY <3>2, <3>3, <1>0 DEF Follows, Connected
  <2> QED BY <2>1, <2>2, Constants
<1>5. ASSUME NEW n \in Nodes, NEW m \in Nodes, next[n] = c, next[m] = c
      PROVE  n = m
  <2>1. n \in {k} \cup Connected(k) /\ m \in {k} \cup Connected(k)
    BY <1>4, <1>5
  <2>2. Follows(f, k, n, c) /\ Follows(f, k, m, c) /\ c # k
    BY <2>1, <1>1, <1>5, <1>0
  <2>3. Behind(f, c, n) /\ Behind(f, c, m)
    BY <2>2 DEF Follows
  <2>4. \A a \in Connected(k) : (Behind(f, a, n) => f[a] <= f[c]) /\ (Behind(f, a, m) => f[a] <= f[c])
    BY <2>2 DEF Follows
  <2>5. CASE n = k \/ m = k
    <3>1. \A a \in Connected(k) : f[a] <= f[c]
      BY <2>4, <2>5 DEF Behind
    <3>2. \A a \in Connected(k) : ~Behind(f, c, a)
      BY <3>1, <1>2 DEF Behind
    <3> QED BY <2>1, <2>3, <3>2
  <2>6. CASE n \in Connected(k) /\ m \in Connected(k)
    <3>1. f[c] < f[n] /\ f[c] < f[m]
      BY <2>6, <2>3, <1>2 DEF Behind
    <3>2. ~(f[m] < f[n]) /\ ~(f[n] < f[m])
      BY <2>4, <2>6, <3>1, <1>2 DEF Behind
    <3>3. f[n] = f[m]
      BY <3>2, <2>6, <1>2
    <3> QED BY <3>3, <2>6 DEF Ring
  <2> QED BY <2>1, <2>5, <2>6
<1> QED BY <1>3, <1>4, <1>5

(* What is taken out leaves the order of the others as it was.             *)
LEMMA DisconnectedStep ==
  ASSUME Types, NEW t \in Threads, NEW irq \in Users, NEW c \in Clients, Disconnect(t, irq, c),
         NEW f \in [Clients -> Nat], Ring(f)
  PROVE  Ring(f)'
<1>0. PICK b : b = CHOOSE n \in Nodes : next[n] = c
  OBVIOUS
<1>1. /\ next[c] # c
      /\ next' = [next EXCEPT ![b] = next[c], ![c] = c]
      /\ channel' = [channel EXCEPT ![c] = NoCall]
  BY <1>0 DEF Disconnect
<1>2. PICK k \in Irqs : c \in Connected(k) /\ c \in Nodes /\ c \notin Irqs
  <2>1. channel[c] \in Irqs
    BY <1>1, Constants DEF Types, Ring
  <2> QED BY <2>1, Constants DEF Connected
<1>3. /\ b \in Nodes /\ next[b] = c /\ b \in {k} \cup Connected(k)
      /\ \A n \in Nodes : next[n] = c => n = b
  BY <1>0, <1>2, Before
<1>4. /\ b # c /\ next'[b] = next[c] /\ next'[c] = c
      /\ \A n \in Nodes \ {b, c} : next'[n] = next[n] /\ next[n] # c
  BY <1>1, <1>2, <1>3 DEF Types
<1>5. /\ Connected(k)' = Connected(k) \ {c}
      /\ \A other \in Irqs \ {k} : Connected(other)' = Connected(other) /\ c \notin Connected(other)
  BY <1>1, <1>2, Constants DEF Connected, Types
<1>6. /\ Follows(f, k, c, next[c])
      /\ Follows(f, k, b, c)
  BY <1>2, <1>3 DEF Ring
<1>7. \A a \in Connected(k) : a \in Clients /\ a \notin Irqs /\ f[a] \in Nat
  BY Constants DEF Connected
<1>8. \A d \in Clients : channel'[d] = NoCall <=> next'[d] = d
  <2> SUFFICES ASSUME NEW d \in Clients PROVE channel'[d] = NoCall <=> next'[d] = d
    OBVIOUS
  <2>0. channel'[d] = IF d = c THEN NoCall ELSE channel[d]
    BY <1>1 DEF Types
  <2>1. CASE d = c
    BY <2>0, <2>1, <1>4
  <2>2. CASE d \notin {b, c}
    <3>1. next'[d] = next[d]
      BY <2>2, <1>4, Constants
    <3> QED BY <2>0, <3>1, <2>2 DEF Ring
  <2>3. CASE d = b
    <3>1. b \in Connected(k)
      BY <2>3, <1>3, <1>2, Constants
    <3>2. f[c] < f[b]
      BY <3>1, <1>6, <1>2, <1>7 DEF Follows, Behind
    <3>3. next[c] # b
      <4> SUFFICES ASSUME next[c] = b PROVE FALSE
        OBVIOUS
      <4>1. b # k
        BY <3>1, <1>7, <1>2
      <4>2. f[b] < f[c]
        BY <4>1, <1>6, <1>2 DEF Follows, Behind
      <4> QED BY <4>2, <3>2, <1>7, <1>2, <3>1
    <3>4. channel[b] # NoCall
      BY <3>1, <1>2, Constants DEF Connected
    <3> QED BY <2>0, <2>3, <3>3, <3>4, <1>4
  <2> QED BY <2>1, <2>2, <2>3
<1>9. \A i \in Irqs : \A x, y \in Connected(i)' : f[x] = f[y] => x = y
  BY <1>5, <1>2 DEF Ring
<1>10. ASSUME NEW i \in Irqs, NEW n \in {i} \cup Connected(i)'
       PROVE  Follows(f, i, n, next[n])'
  <2>1. CASE i # k
    <3>1. n \in Nodes \ {b, c} /\ Connected(i)' = Connected(i)
      <4>1. n # c
        BY <2>1, <1>10, <1>5, <1>2
      <4>2. n # b
        BY <2>1, <1>10, <1>5, <1>2, <1>3, Constants DEF Connected
      <4> QED BY <4>1, <4>2, <2>1, <1>5, <1>10, Constants DEF Connected
    <3>2. Follows(f, i, n, next[n]) /\ next'[n] = next[n]
      BY <3>1, <1>10, <1>4 DEF Ring
    <3> QED BY <3>1, <3>2 DEF Follows, Behind
  <2>2. CASE i = k /\ n = b
    <3>1. CASE next[c] = k
      <4>1. \A a \in Connected(k) : ~(f[a] < f[c])
        BY <3>1, <1>6, <1>2 DEF Follows, Behind
      <4>2. \A a \in Connected(k) \ {c} : ~Behind(f, a, b)
        <5> SUFFICES ASSUME NEW a \in Connected(k), a # c, Behind(f, a, b) PROVE FALSE
          OBVIOUS
        <5>1. f[a] <= f[c]
          BY <1>6, <1>2 DEF Follows
        <5>2. f[a] = f[c]
          BY <5>1, <4>1, <1>2, <1>7
        <5> QED BY <5>2, <1>2 DEF Ring
      <4> QED BY <2>2, <3>1, <4>2, <1>4, <1>5 DEF Follows, Behind
    <3>2. CASE next[c] # k
      <4>1. /\ next[c] \in Connected(k) /\ f[next[c]] < f[c]
            /\ \A a \in Connected(k) : f[a] < f[c] => f[a] <= f[next[c]]
        BY <3>2, <1>6, <1>2 DEF Follows, Behind
      <4>2. next[c] # c
        BY <1>1
      <4>3. Behind(f, next[c], b)
        BY <4>1, <1>6, <1>2, <1>3, <1>7 DEF Follows, Behind
      <4>4. ASSUME NEW a \in Connected(k), a # c, Behind(f, a, b)
            PROVE  f[a] <= f[next[c]]
        <5>1. f[a] <= f[c]
          BY <4>4, <1>6, <1>2 DEF Follows
        <5>2. f[a] # f[c]
          BY <4>4, <1>2 DEF Ring
        <5> QED BY <5>1, <5>2, <4>1, <4>4, <1>2, <1>7
      <4> QED BY <2>2, <3>2, <4>1, <4>2, <4>3, <4>4, <1>4, <1>5 DEF Follows, Behind
    <3> QED BY <3>1, <3>2
  <2>3. CASE i = k /\ n # b
    <3>1. n \in Nodes \ {b, c} /\ n \in {k} \cup Connected(k)
      BY <2>3, <1>10, <1>5, <1>2, Constants DEF Connected
    <3>2. Follows(f, k, n, next[n]) /\ next'[n] = next[n] /\ next[n] # c
      BY <3>1, <1>2, <1>4 DEF Ring
    <3> QED BY <2>3, <3>1, <3>2, <1>5 DEF Follows, Behind
  <2> QED BY <2>1, <2>2, <2>3
<1>11. Ring(f)'
  BY <1>8, <1>9, <1>10 DEF Ring
<1> QED BY <1>11

(* While no call overlaps another, a connection finds no thread in         *)
(* irq.disconnect.                                                         *)
LEMMA ConnectStep ==
  ASSUME IInv, Careful, Undisturbed, NEW irq \in Users, NEW c \in Clients, ConnectedAs(irq, c),
         UNCHANGED <<call, walk>>
  PROVE  IInv'
<1>1. /\ next[c] = c
      /\ next' = [next EXCEPT ![c] = next[irq], ![irq] = c]
      /\ masked' = masked \ {irq}
      /\ channel' = [channel EXCEPT ![c] = irq]
      /\ call' = call /\ walk' = walk
  BY DEF ConnectedAs, Insert
<1>2. Types'
  BY <1>1, Constants DEF IInv, Types
<1>3. PICK f \in [Clients -> Nat] : Ring(f) /\ OnTheWay(f)
  BY DEF IInv, Ordered
<1>4. PICK g \in [Clients -> Nat] : Ring(g)' /\ \A a \in Clients \ {c} : g[a] = f[a]
  BY <1>3, ConnectedStep
<1>5. channel[c] = NoCall
  BY <1>1, <1>3 DEF Ring
<1>6. OnTheWay(g)'
  <2> SUFFICES ASSUME walk # NoCall PROVE OnTheWay(g)'
    BY <1>1 DEF OnTheWay
  <2>1. walk.irq \in Irqs /\ walk.at \in {walk.irq} \cup Connected(walk.irq)
    BY <1>3 DEF OnTheWay, IInv, Types, Walks
  <2>2. \A a \in Connected(walk.irq) : a \in Clients /\ a # c /\ g[a] = f[a] /\ a \in Connected(walk.irq)'
    BY <2>1, <1>1, <1>4, <1>5, Constants DEF Connected, IInv, Types
  <2>3. walk.at \in {walk.irq} \cup Connected(walk.irq)'
    BY <2>1, <2>2
  <2>4. ASSUME NEW d \in walk.due \ walk.called
        PROVE  d \in Connected(walk.irq)' /\ Behind(g, d, walk.at)
    <3>1. d \in Connected(walk.irq) /\ Behind(f, d, walk.at)
      BY <1>3 DEF OnTheWay
    <3> QED BY <3>1, <2>1, <2>2 DEF Behind
  <2> QED BY <2>3, <2>4, <1>1 DEF OnTheWay, Behind, Connected
<1>7. \A i \in Irqs \ {irq} : Connected(i)' \subseteq Connected(i)
  BY <1>1 DEF IInv, Types, Connected
<1>8. Cascade # irq /\ \A t \in Threads : call[t] \notin Frames
  BY Constants DEF Careful, Undisturbed
<1>9. Heeded'
  BY <1>1, <1>7, <1>8 DEF IInv, Types, Heeded, Open
<1> QED BY <1>2, <1>4, <1>6, <1>9 DEF IInv, Ordered

LEMMA DisconnectStep ==
  ASSUME IInv, Careful, NEW t \in Threads, NEW irq \in Users, NEW c \in Clients, Disconnect(t, irq, c)
  PROVE  IInv'
<1> DEFINE started == [at |-> "check", irq |-> irq]
<1>1. /\ channel' = [channel EXCEPT ![c] = NoCall]
      /\ call' = [call EXCEPT ![t] = started]
      /\ masked' = masked /\ walk' = walk /\ walk = NoCall
  BY DEF Disconnect, MayCall
<1>2. PICK f \in [Clients -> Nat] : Ring(f) /\ OnTheWay(f)
  BY DEF IInv, Ordered
<1>3. Ring(f)'
  BY <1>2, DisconnectedStep DEF IInv
<1>4. OnTheWay(f)'
  BY <1>1 DEF OnTheWay
<1>5. started \in Frames /\ started.irq = irq /\ started.at = "check"
  BY Constants DEF Frames
<1>6. next' \in [Nodes -> Nodes]
  <2>1. PICK b : next' = [next EXCEPT ![b] = next[c], ![c] = c]
    BY DEF Disconnect
  <2> QED BY <2>1, Constants DEF IInv, Types
<1>7. Types'
  BY <1>1, <1>5, <1>6, Constants DEF IInv, Types
<1>8. \A i \in Irqs : Connected(i)' \subseteq Connected(i)
  BY <1>1, Constants DEF IInv, Types, Connected
<1>9. \A u \in Threads : call'[u] = IF u = t THEN started ELSE call[u]
  BY <1>1 DEF IInv, Types
<1>10. Open(masked)'
  BY <1>1, <1>8 DEF IInv, Types, Heeded, Open
<1>11. ASSUME NEW u \in Threads, call'[u] \in Frames
       PROVE  /\ (call[u].at = "in" => Connected(call[u].irq) = {})'
              /\ (call[u].at = "out" => Open(call[u].mask))'
  <2>1. CASE u = t
    BY <2>1, <1>5, <1>9
  <2>2. CASE u # t
    <3>1. call'[u] = call[u] /\ call[u] \in Frames
      BY <2>2, <1>9, <1>11
    <3>2. call[u].irq \in Irqs
      BY <3>1, Constants DEF IInv, Types
    <3>3. call[u].at = "out" => call[u].mask \subseteq Irqs
      BY <3>1 DEF Frames
    <3> QED BY <3>1, <3>2, <3>3, <1>8 DEF IInv, Heeded, Open
  <2> QED BY <2>1, <2>2
<1>12. Heeded'
  BY <1>10, <1>11 DEF Heeded
<1> QED BY <1>3, <1>4, <1>7, <1>12, <1>2 DEF IInv, Ordered

(* The check of the ring finds out whether the mask may have the IRQ.      *)
LEMMA MaskStep ==
  ASSUME IInv, Careful, NEW t \in Threads, CheckRing(t) \/ ReadMask(t) \/ WriteMask(t)
  PROVE  IInv'
<1>1. /\ next' = next /\ channel' = channel /\ walk' = walk
      /\ call[t] \in Frames /\ call[t].irq \in Users /\ call[t].irq \in Irqs
  BY Constants DEF CheckRing, ReadMask, WriteMask, At, IInv, Types
<1>2. \A i : Connected(i)' = Connected(i)
  BY <1>1 DEF Connected
<1>3. Ordered'
  <2>1. PICK f \in [Clients -> Nat] : Ring(f) /\ OnTheWay(f)
    BY DEF IInv, Ordered
  <2>2. Ring(f)' /\ OnTheWay(f)'
    BY <2>1, <1>1 DEF Ring, OnTheWay, Follows, Behind, Connected
  <2> QED BY <2>2 DEF Ordered
<1> SUFFICES Types' /\ Heeded'
  BY <1>3 DEF IInv
<1>4. CASE CheckRing(t)
  <2> DEFINE started == [at |-> "in", irq |-> call[t].irq]
  <2>1. /\ masked' = masked
        /\ call' = [call EXCEPT ![t] = IF next[call[t].irq] = call[t].irq THEN started ELSE NoCall]
    BY <1>4 DEF CheckRing
  <2>2. started \in Frames /\ started.irq = call[t].irq /\ started.at = "in"
    BY <1>1 DEF Frames
  <2>3. Types'
    BY <1>1, <2>1, <2>2, Constants DEF IInv, Types
  <2>4. next[call[t].irq] = call[t].irq => Connected(call[t].irq) = {}
    <3>1. PICK f \in [Clients -> Nat] : Ring(f)
      BY DEF IInv, Ordered
    <3>2. Follows(f, call[t].irq, call[t].irq, next[call[t].irq])
      BY <3>1, <1>1 DEF Ring
    <3> QED BY <3>2, <1>1 DEF Follows, Behind
  <2>5. \A u \in Threads : call'[u] = IF u # t THEN call[u]
                                      ELSE IF next[call[t].irq] = call[t].irq THEN started ELSE NoCall
    BY <2>1 DEF IInv, Types
  <2> HIDE DEF started
  <2>6. Open(masked)'
    BY <1>2, <2>1 DEF IInv, Heeded, Open
  <2>7. ASSUME NEW u \in Threads, call'[u] \in Frames
        PROVE  /\ (call[u].at = "in" => Connected(call[u].irq) = {})'
               /\ (call[u].at = "out" => Open(call[u].mask))'
    <3>1. CASE u = t
      BY <3>1, <2>2, <2>4, <2>5, <2>7, <1>2, Constants
    <3>2. CASE u # t
      BY <3>2, <2>5, <2>7, <1>2 DEF IInv, Heeded, Open
    <3> QED BY <3>1, <3>2
  <2> QED BY <2>3, <2>6, <2>7 DEF Heeded
<1>5. CASE ReadMask(t)
  <2> DEFINE i == call[t].irq
             mask == (masked \cap PicOf(i)) \cup {i}
             started == [at |-> "out", irq |-> i, mask |-> mask]
  <2>1. masked' = masked /\ call' = [call EXCEPT ![t] = started] /\ call[t].at = "in"
    BY <1>5 DEF ReadMask, At
  <2>2. started \in Frames /\ started.irq = i /\ started.at = "out" /\ started.mask = mask
    BY <1>1 DEF Frames, IInv, Types
  <2>3. Types'
    BY <1>1, <2>1, <2>2, Constants DEF IInv, Types
  <2>4. Open(mask)
    BY <1>1, <2>1 DEF IInv, Heeded, Open, Careful
  <2>5. \A u \in Threads : call'[u] = IF u = t THEN started ELSE call[u]
    BY <2>1 DEF IInv, Types
  <2>6. \A m : Open(m) => Open(m)'
    BY <1>2 DEF Open
  <2>7. ASSUME NEW u \in Threads, call'[u] \in Frames
        PROVE  /\ call'[u].at = "in" => Connected(call'[u].irq) = {}
               /\ call'[u].at = "out" => Open(call'[u].mask)
    BY <2>2, <2>4, <2>5, <2>7 DEF IInv, Heeded
  <2>8. Open(masked)'
    BY <2>1, <2>6, <1>2 DEF IInv, Heeded, Open
  <2> QED BY <2>3, <2>7, <2>8, <1>2 DEF Heeded, Open
<1>6. CASE WriteMask(t)
  <2>1. /\ masked' = (masked \ PicOf(call[t].irq)) \cup call[t].mask
        /\ call' = [call EXCEPT ![t] = NoCall] /\ call[t].at = "out"
    BY <1>6 DEF WriteMask, At
  <2>2. call[t].mask \subseteq Irqs
    BY <2>1, <1>1 DEF Frames
  <2>3. Types'
    BY <1>1, <2>1, <2>2, Constants DEF IInv, Types
  <2>4. Open(masked)'
    BY <1>1, <1>2, <2>1 DEF IInv, Heeded, Open
  <2>5. \A u \in Threads : call'[u] = IF u = t THEN NoCall ELSE call[u]
    BY <2>1 DEF IInv, Types
  <2> QED BY <2>3, <2>4, <2>5, <1>2, Constants DEF IInv, Heeded, Open
<1> QED BY <1>4, <1>5, <1>6

(* irq.soft_irq goes down the order, and calls whom it passes.             *)
LEMMA WalkStep ==
  ASSUME IInv, CallClient \/ Cycled \/ \E irq \in Irqs : Raise(irq) \/ Interrupt(irq)
  PROVE  IInv' /\ (walk # NoCall /\ walk' = NoCall => walk.due \subseteq walk.called)
<1>1. next' = next /\ channel' = channel /\ call' = call /\ masked' = masked
  BY DEF CallClient, Cycled, Raise, Interrupt
<1>2. \A i : Connected(i)' = Connected(i)
  BY <1>1 DEF Connected
<1>3. Heeded'
  BY <1>1, <1>2 DEF IInv, Heeded, Open
<1>4. PICK f \in [Clients -> Nat] : Ring(f) /\ OnTheWay(f)
  BY DEF IInv, Ordered
<1>5. Ring(f)'
  BY <1>1, <1>2, <1>4 DEF Ring, Follows, Behind
<1> SUFFICES /\ walk' \in {NoCall} \cup Walks /\ OnTheWay(f)'
             /\ walk # NoCall /\ walk' = NoCall => walk.due \subseteq walk.called
  BY <1>1, <1>3, <1>5 DEF IInv, Types, Ordered
<1>6. CASE \E irq \in Irqs : Raise(irq)
  BY <1>6, <1>2, <1>4 DEF Raise, OnTheWay, Behind, IInv, Types
<1>7. CASE \E irq \in Irqs : Interrupt(irq)
  <2>1. PICK irq \in Irqs : walk' = [irq |-> irq, at |-> irq, called |-> {}, due |-> Connected(irq)]
    BY <1>7 DEF Interrupt
  <2>2. walk' \in Walks /\ walk'.at = irq /\ walk'.irq = irq /\ walk'.due = Connected(irq)
    BY <2>1, Constants DEF Walks, Connected
  <2> QED BY <2>2, <1>2, <1>7, Constants DEF OnTheWay, Behind, Interrupt
<1>8. CASE CallClient
  <2> DEFINE n == next[walk.at]
  <2>1. walk # NoCall /\ n # walk.irq /\ walk' = [walk EXCEPT !.at = n, !.called = @ \cup {n}]
    BY <1>8 DEF CallClient
  <2>2. walk \in Walks /\ walk.irq \in Irqs /\ walk.at \in {walk.irq} \cup Connected(walk.irq)
    BY <2>1, <1>4 DEF IInv, Types, OnTheWay, Walks
  <2>3. Follows(f, walk.irq, walk.at, n)
    BY <2>2, <1>4 DEF Ring
  <2>4. /\ n \in Connected(walk.irq) /\ n \in Clients /\ n \in Nodes /\ n \notin Irqs
        /\ \A a \in Connected(walk.irq) : Behind(f, a, walk.at) => f[a] <= f[n]
    BY <2>1, <2>3, Constants DEF Follows, Connected
  <2>5. walk' \in Walks /\ walk'.at = n /\ walk'.irq = walk.irq
        /\ walk'.due = walk.due /\ walk'.called = walk.called \cup {n}
    BY <2>1, <2>2, <2>4 DEF Walks
  <2>6. ASSUME NEW d \in walk.due, d \notin walk.called, d # n
        PROVE  d \in Connected(walk.irq) /\ f[d] < f[n]
    <3>1. d \in Connected(walk.irq) /\ Behind(f, d, walk.at)
      BY <2>1, <2>6, <1>4 DEF OnTheWay
    <3>2. f[d] <= f[n] /\ f[d] # f[n] /\ d \in Clients
      BY <3>1, <2>2, <2>4, <2>6, <1>4 DEF Ring, Connected
    <3> QED BY <3>1, <3>2, <2>4
  <2>7. OnTheWay(f)'
    BY <2>4, <2>5, <2>6, <1>2 DEF OnTheWay, Behind
  <2> QED BY <2>5, <2>7, Constants
<1>9. CASE Cycled
  <2>1. walk # NoCall /\ next[walk.at] = walk.irq /\ walk' = NoCall
    BY <1>9 DEF Cycled
  <2>2. walk.irq \in Irqs /\ walk.at \in {walk.irq} \cup Connected(walk.irq)
    BY <2>1, <1>4 DEF IInv, Types, OnTheWay, Walks
  <2>3. Follows(f, walk.irq, walk.at, walk.irq)
    BY <2>1, <2>2, <1>4 DEF Ring
  <2> QED BY <2>1, <2>3, <1>4 DEF OnTheWay, Follows
<1> QED BY <1>6, <1>7, <1>8, <1>9

LEMMA ChannelStep ==
  ASSUME IInv, Careful, [Next]_vars
  PROVE  IInv' /\ (walk # NoCall /\ walk' = NoCall => walk.due \subseteq walk.called)
<1>1. CASE UNCHANGED vars
  <2>1. \A i : Connected(i)' = Connected(i)
    BY <1>1 DEF vars, Connected
  <2>2. Types' /\ Heeded'
    BY <1>1, <2>1 DEF vars, IInv, Types, Heeded, Open
  <2>3. PICK f \in [Clients -> Nat] : Ring(f) /\ OnTheWay(f)
    BY DEF IInv, Ordered
  <2>4. Ring(f)' /\ OnTheWay(f)'
    BY <1>1, <2>1, <2>3 DEF vars, Ring, OnTheWay, Follows, Behind
  <2> QED BY <1>1, <2>2, <2>4 DEF vars, IInv, Ordered
<1>2. ASSUME NEW t \in Threads, NEW irq \in Users, NEW c \in Clients, Connect(t, irq, c)
      PROVE  IInv' /\ walk = NoCall
  BY <1>2, ConnectStep DEF Connect, MayCall
<1>3. ASSUME NEW t \in Threads, NEW irq \in Users, NEW c \in Clients, ConnectTwice(t, irq, c)
      PROVE  IInv' /\ walk = NoCall
  <2>1. UNCHANGED <<next, masked, walk, channel>> /\ call' = [call EXCEPT ![t] = Wild] /\ walk = NoCall
    BY <1>3 DEF ConnectTwice, MayCall
  <2>2. \A i : Connected(i)' = Connected(i)
    BY <2>1 DEF Connected
  <2>3. \A u \in Threads : call'[u] = IF u = t THEN Wild ELSE call[u]
    BY <2>1 DEF IInv, Types
  <2>4. Types' /\ Heeded'
    BY <2>1, <2>2, <2>3, Constants DEF IInv, Types, Heeded, Open
  <2>5. PICK f \in [Clients -> Nat] : Ring(f) /\ OnTheWay(f)
    BY DEF IInv, Ordered
  <2>6. Ring(f)' /\ OnTheWay(f)'
    BY <2>1, <2>2, <2>5 DEF Ring, OnTheWay, Follows, Behind
  <2> QED BY <2>1, <2>4, <2>6 DEF IInv, Ordered
<1>4. ASSUME NEW t \in Threads, NEW irq \in Users, NEW c \in Clients, Disconnect(t, irq, c)
      PROVE  IInv' /\ walk = NoCall
  BY <1>4, DisconnectStep DEF Disconnect, MayCall
<1>5. ASSUME NEW t \in Threads, CheckRing(t) \/ ReadMask(t) \/ WriteMask(t)
      PROVE  IInv' /\ walk = NoCall
  BY <1>5, MaskStep DEF CheckRing, ReadMask, WriteMask
<1>6. CASE CallClient \/ Cycled \/ \E irq \in Irqs : Raise(irq) \/ Interrupt(irq)
  BY <1>6, WalkStep
<1>7. ASSUME NEW irq \in Users, NEW c \in Clients, HandlerConnects(irq, c)
      PROVE  IInv' /\ walk' = walk
  BY <1>7, ConnectStep DEF HandlerConnects
<1> QED BY <1>1, <1>2, <1>3, <1>4, <1>5, <1>6, <1>7 DEF Next

-----------------------------------------------------------------------------
(* The module on top of the channels                                       *)

(* What sleep_until has seen of the count does not go away under it: only  *)
(* the interpreter takes from it.                                          *)
ModuleInv ==
  /\ monitored \subseteq Monitorable
  /\ irqflags \in [Monitorable -> Nat]
  /\ python \in {NoCall} \cup Procedures
  /\ python # NoCall =>
       /\ python.at = "take" => irqflags[python.irq] > 0
       /\ python.at = "store" => python.value < irqflags[python.irq]

LEMMA NoProcedure == NoCall \notin Procedures
  BY IrqModuleAssumption

LEMMA ModuleStep ==
  ASSUME ModuleInv, [ModuleNext]_allVars
  PROVE  ModuleInv'
<1>1. CASE UNCHANGED moduleVars
  BY <1>1 DEF moduleVars, ModuleInv
<1>2. ASSUME NEW irq \in Monitorable, Monitor(irq) \/ Unmonitor(irq) \/ SleepUntil(irq) \/ Reset(irq)
      PROVE  ModuleInv'
  <2>1. CASE Reset(irq)
    BY <2>1 DEF Reset, Idle, ModuleInv
  <2>2. CASE Monitor(irq) \/ Unmonitor(irq) \/ SleepUntil(irq)
    <3>1. PICK label \in {"hook", "unhook", "poll"} : python' = [at |-> label, irq |-> irq]
      BY <2>2 DEF Monitor, Unmonitor, SleepUntil, Goes
    <3>2. monitored' \subseteq Monitorable /\ irqflags' = irqflags
      BY <2>2 DEF Monitor, Unmonitor, SleepUntil, ModuleInv
    <3> QED BY <3>1, <3>2 DEF ModuleInv, Procedures
  <2> QED BY <1>2, <2>1, <2>2
<1>3. CASE Hook \/ Unhook
  BY <1>3 DEF Hook, Unhook, ModuleInv
<1>4. CASE Poll
  <2>1. python \in Procedures /\ python.irq \in Monitorable
    BY <1>4 DEF Poll, In, ModuleInv, Procedures
  <2> QED BY <1>4, <2>1 DEF Poll, In, Goes, ModuleInv, Procedures
<1>5. CASE Take
  <2>1. python \in Procedures /\ python.irq \in Monitorable /\ irqflags[python.irq] \in Nat \ {0}
    BY <1>5 DEF Take, In, ModuleInv, Procedures
  <2> QED BY <1>5, <2>1 DEF Take, In, ModuleInv, Procedures
<1>6. CASE Store
  <2>1. python.irq \in Monitorable /\ python.value \in Nat
    BY <1>6 DEF Store, In, ModuleInv, Procedures
  <2> QED BY <1>6, <2>1 DEF Store, ModuleInv
<1>7. CASE CallAndCount
  <2>1. python' = python /\ monitored' = monitored
    BY <1>7 DEF CallAndCount
  <2>2. irqflags' \in [Monitorable -> Nat] /\ \A irq \in Monitorable : irqflags'[irq] >= irqflags[irq]
    BY <1>7 DEF CallAndCount, Counted, ModuleInv
  <2>3. python # NoCall => python.irq \in Monitorable /\ (python.at = "store" => python.value \in Nat)
    BY DEF ModuleInv, Procedures
  <2> QED BY <2>1, <2>2, <2>3 DEF ModuleInv
<1> QED BY <1>1, <1>2, <1>3, <1>4, <1>5, <1>6, <1>7 DEF ModuleNext, Others, allVars, moduleVars

(* The interpreter connects and disconnects as any thread does.            *)
LEMMA ModuleIsClient ==
  ASSUME ModuleInv, [ModuleNext]_allVars
  PROVE  [Next]_vars
<1>0. Python \in Threads /\ Monitorable \subseteq Users /\ \A irq \in Monitorable : Handler[irq] \in Clients
  BY IrqModuleAssumption DEF Handlers
<1>1. CASE Hook \/ Unhook
  <2>1. python.irq \in Monitorable
    BY <1>1 DEF Hook, Unhook, In, ModuleInv, Procedures
  <2> QED BY <1>0, <1>1, <2>1 DEF Hook, Unhook, Next
<1>2. CASE CallAndCount
  BY <1>2 DEF CallAndCount, Next
<1>3. CASE Others
  BY <1>3 DEF Others, Next
<1>4. CASE UNCHANGED vars
  BY <1>4
<1>5. (\E irq \in Monitorable : Monitor(irq) \/ Unmonitor(irq) \/ SleepUntil(irq) \/ Reset(irq)) \/ Poll \/ Take \/ Store
      => UNCHANGED vars
  BY DEF Monitor, Unmonitor, SleepUntil, Reset, Poll, Take, Store
<1> QED BY <1>1, <1>2, <1>3, <1>4, <1>5 DEF ModuleNext, allVars

(* "The client will be called for every IRQ received for which it is       *)
(* connected": neither its IRQ nor the cascade in front of it is masked    *)
(* while no irq.disconnect is going on, whatever was connected and         *)
(* disconnected before, in the walk of an interrupt too.                   *)
THEOREM ClientsNotMasked ==
  ASSUME Careful
  PROVE  ModuleSpec => []NoDeafClient
<1>1. ModuleInit => IInv /\ ModuleInv
  BY InitIInv DEF ModuleInit, ModuleInv
<1>2. IInv /\ ModuleInv /\ [ModuleNext]_allVars => IInv' /\ ModuleInv'
  BY ModuleStep, ModuleIsClient, ChannelStep
<1>3. IInv => NoDeafClient
  <2>1. Slave \subseteq Irqs /\ Cascade \in Irqs
    BY IridiaAssumption
  <2> QED BY <2>1 DEF IInv, Heeded, Open, NoDeafClient
<1> QED BY <1>1, <1>2, <1>3, PTL DEF ModuleSpec

(* irq.soft_irq calls every client that is connected when the interrupt    *)
(* comes, though the clients it calls connect others meanwhile.            *)
THEOREM ClientsCalled ==
  ASSUME Careful
  PROVE  ModuleSpec => EveryClientCalled
<1>1. ModuleInit => IInv /\ ModuleInv
  BY InitIInv DEF ModuleInit, ModuleInv
<1>2. IInv /\ ModuleInv /\ [ModuleNext]_allVars => IInv' /\ ModuleInv'
  BY ModuleStep, ModuleIsClient, ChannelStep
<1>3. IInv /\ ModuleInv /\ [ModuleNext]_allVars
        => [(walk # NoCall /\ walk' = NoCall) => walk.due \subseteq walk.called]_<<walk>>
  BY ModuleIsClient, ChannelStep
<1> QED BY <1>1, <1>2, <1>3, PTL DEF ModuleSpec, EveryClientCalled

-----------------------------------------------------------------------------
(* The refinement                                                          *)

Waiting == IF \E irq \in Monitorable : Sleeping(irq) THEN python.irq ELSE NoCall

OneHandlerEach == \A i, j \in Monitorable : Handler[i] = Handler[j] => i = j

LEMMA WaitingIs ==
  ASSUME ModuleInv
  PROVE  /\ python = NoCall => Waiting = NoCall
         /\ python # NoCall =>
              /\ python.at \in {"hook", "unhook"} => Waiting = NoCall
              /\ python.at \in {"poll", "take", "store"} => Waiting = python.irq
<1>1. python # NoCall => python.irq \in Monitorable
  BY DEF ModuleInv, Procedures
<1> QED BY <1>1 DEF Waiting, Sleeping

LEMMA StepRefines ==
  ASSUME ModuleInv, ModuleInv', OneHandlerEach, [ModuleNext]_allVars
  PROVE  [Semaphore!Next]_(Semaphore!vars)
<1> USE DEF Semaphore!Next, Semaphore!vars
<1>0. /\ python' = NoCall => Waiting' = NoCall
      /\ python' # NoCall =>
           /\ python'.at \in {"hook", "unhook"} => Waiting' = NoCall
           /\ python'.at \in {"poll", "take", "store"} => Waiting' = python'.irq
  <2>1. python' # NoCall => python'.irq \in Monitorable
    BY DEF ModuleInv, Procedures
  <2> QED BY <2>1 DEF Waiting, Sleeping
<1>1. CASE UNCHANGED moduleVars
  BY <1>1 DEF moduleVars, Sleeping
<1>2. ASSUME NEW irq \in Monitorable, Monitor(irq) \/ Unmonitor(irq)
      PROVE  UNCHANGED <<irqflags, Waiting>>
  <2>1. PICK label \in {"hook", "unhook"} : python' = [at |-> label, irq |-> irq]
    BY <1>2 DEF Monitor, Unmonitor, Goes
  <2>2. python' # NoCall
    BY <2>1, NoProcedure DEF Procedures
  <2>3. python'.at \in {"hook", "unhook"}
    BY <2>1
  <2>4. python = NoCall /\ irqflags' = irqflags
    BY <1>2 DEF Monitor, Unmonitor, Idle
  <2>5. Waiting = NoCall
    BY <2>4, WaitingIs
  <2>6. Waiting' = NoCall
    BY <1>0, <2>2, <2>3
  <2> QED BY <2>4, <2>5, <2>6
<1>3. ASSUME NEW irq \in Monitorable, SleepUntil(irq)
      PROVE  Waiting = NoCall /\ Waiting' = irq /\ UNCHANGED irqflags
  <2>1. python' = [at |-> "poll", irq |-> irq]
    BY <1>3 DEF SleepUntil, Goes
  <2>2. python' # NoCall
    BY <2>1, NoProcedure DEF Procedures
  <2> QED BY <1>0, <1>3, <2>1, <2>2, WaitingIs DEF SleepUntil, Idle
<1>4. ASSUME NEW irq \in Monitorable, Reset(irq)
      PROVE  Waiting = NoCall /\ UNCHANGED Waiting /\ irqflags' = [irqflags EXCEPT ![irq] = 0]
  <2>1. python = NoCall /\ python' = python /\ irqflags' = [irqflags EXCEPT ![irq] = 0]
    BY <1>4 DEF Reset, Idle
  <2>2. Waiting = NoCall
    BY <2>1, WaitingIs
  <2>3. Waiting' = NoCall
    BY <1>0, <2>1
  <2> QED BY <2>1, <2>2, <2>3
<1>5. CASE Hook \/ Unhook
  BY <1>0, <1>5, WaitingIs DEF Hook, Unhook, In, Waiting
<1>6. CASE Poll \/ Take
  <2>1. python # NoCall /\ python.irq \in Monitorable /\ python.at \in {"poll", "take"} /\ UNCHANGED irqflags
    BY <1>6 DEF Poll, Take, In, ModuleInv, Procedures
  <2>2. python' \in Procedures /\ python'.at \in {"take", "store"} /\ python'.irq = python.irq
    BY <1>6, <2>1 DEF Poll, Take, Goes, In, ModuleInv, Procedures
  <2>3. python' # NoCall
    BY <2>2, NoProcedure
  <2> QED BY <1>0, <2>1, <2>2, <2>3, WaitingIs DEF Waiting
<1>7. CASE Store
  <2> DEFINE irq == python.irq
  <2>1. python # NoCall /\ python.at = "store" /\ python' = NoCall
        /\ irqflags' = [irqflags EXCEPT ![irq] = python.value]
    BY <1>7 DEF Store, In
  <2>2. irq \in Monitorable /\ python.value \in Nat /\ python.value < irqflags[irq] /\ irqflags[irq] \in Nat
    BY <2>1 DEF ModuleInv, Procedures
  <2>3. Waiting = irq /\ Waiting' = NoCall
    BY <1>0, <2>1, WaitingIs
  <2>4. python.value \in 0 .. irqflags[irq] - 1 /\ irqflags[irq] > 0
    BY <2>2
  <2>5. Semaphore!Wait(irq)
    BY <2>1, <2>3, <2>4 DEF Semaphore!Wait, Waiting
  <2> QED BY <2>2, <2>5
<1>8. CASE CallAndCount
  <2> DEFINE c == next[walk.at]
  <2>1. irqflags' = [irq \in Monitorable |-> IF Handler[irq] = c THEN irqflags[irq] + 1 ELSE irqflags[irq]]
        /\ Waiting' = Waiting
    BY <1>8 DEF CallAndCount, Counted, Waiting, Sleeping
  <2>2. CASE \E irq \in Monitorable : Handler[irq] = c
    <3>1. PICK irq \in Monitorable : Handler[irq] = c
      BY <2>2
    <3>2. irqflags' = [irqflags EXCEPT ![irq] = @ + 1]
      BY <2>1, <3>1 DEF ModuleInv, OneHandlerEach
    <3>3. Semaphore!Signal(irq)
      BY <2>1, <3>2 DEF Semaphore!Signal, Waiting
    <3> QED BY <3>3
  <2>3. CASE ~ \E irq \in Monitorable : Handler[irq] = c
    <3>1. irqflags' = irqflags
      BY <2>1, <2>3 DEF ModuleInv
    <3> QED BY <2>1, <3>1 DEF Waiting
  <2> QED BY <2>2, <2>3
<1>9. ASSUME NEW irq \in Monitorable, Monitor(irq) \/ Unmonitor(irq) \/ SleepUntil(irq) \/ Reset(irq)
      PROVE  [Semaphore!Next]_(Semaphore!vars)
  <2>1. CASE Monitor(irq) \/ Unmonitor(irq)
    BY <2>1, <1>2 DEF Waiting
  <2>2. CASE SleepUntil(irq)
    BY <2>2, <1>3 DEF Waiting, Semaphore!BeginWait
  <2>3. CASE Reset(irq)
    BY <2>3, <1>4 DEF Waiting, Semaphore!Reset
  <2> QED BY <1>9, <2>1, <2>2, <2>3
<1> QED BY <1>1, <1>5, <1>6, <1>7, <1>8, <1>9 DEF ModuleNext, Others, allVars, moduleVars

(* The driver that sleeps until an interrupt may rely on IrqSemaphore: an  *)
(* interrupt of a monitored IRQ is counted once, and sleep_until takes at  *)
(* least one.  Each IRQ must have a handler of its own.                    *)
THEOREM ModuleImplementsSemaphore ==
  ASSUME OneHandlerEach
  PROVE  ModuleSpec => ImplementsSemaphore
<1>1. ModuleInit => ModuleInv
  BY DEF ModuleInit, ModuleInv
<1>2. ModuleInv /\ [ModuleNext]_allVars => ModuleInv'
  BY ModuleStep
<1>3. ModuleInit => Semaphore!Init
  BY DEF ModuleInit, Semaphore!Init, Sleeping
<1>4. ModuleInv /\ ModuleInv' /\ [ModuleNext]_allVars => [Semaphore!Next]_(Semaphore!vars)
  BY StepRefines
<1> QED BY <1>1, <1>2, <1>3, <1>4, PTL DEF ModuleSpec, ImplementsSemaphore, Semaphore!Spec

-----------------------------------------------------------------------------
(* The memory manager.                                                     *)

(* Until it wraps, the frame is as far below the top as has been asked     *)
(* for, and every block is above it.                                       *)
FrameInv ==
  Modest =>
    /\ frame = Top - asked
    /\ \A b \in blocks : frame <= b.base

HeapInv == HeapTypeOK /\ FrameInv /\ BlocksApart

LEMMA ModSmall ==
  ASSUME NEW x \in Int, 0 <= x, x < W
  PROVE  x % W = x
BY MemoryAssumption

LEMMA LoweredInAddress == ASSUME HeapTypeOK, NEW n \in Address PROVE Lowered(n) \in Address
<1>1. RoundUp(n) \in Int
  BY MemoryAssumption DEF RoundUp, Address
<1> QED BY <1>1, MemoryAssumption DEF Lowered, HeapTypeOK, Address

LEMMA InWordsBounds ==
  ASSUME NEW n \in Address
  PROVE  InWords(n) \in Nat /\ n <= InWords(n) /\ InWords(n) % 4 = 0 /\ (n > 0 => InWords(n) >= 4)
BY MemoryAssumption DEF InWords, Address

(* A request that leaves the sum of all requests below the top is rounded  *)
(* without overflow, and lowers the frame by its size in words.            *)
LEMMA NoWrap ==
  ASSUME HeapInv, NEW n \in Address, asked + InWords(n) <= Top
  PROVE  Modest /\ Lowered(n) = frame - InWords(n) /\ RoundUp(n) = InWords(n)
<1>1. InWords(n) \in Nat /\ asked \in Nat /\ n \in Nat /\ n <= InWords(n)
  BY InWordsBounds DEF HeapInv, HeapTypeOK, Address
<1>2. Modest /\ frame = Top - asked
  BY <1>1, MemoryAssumption DEF HeapInv, FrameInv, Modest
<1>3. n + 3 < W
  <2>1. InWords(n) < W
    BY <1>1, MemoryAssumption
  <2>2. W % 4 = 0 /\ W \in Nat
    BY MemoryAssumption
  <2> QED BY <1>1, <2>1, <2>2 DEF InWords
<1>4. RoundUp(n) = InWords(n)
  <2>1. (n + 3) % W = n + 3
    BY <1>1, <1>3, ModSmall
  <2> QED BY <2>1 DEF RoundUp, InWords
<1>5. Lowered(n) = frame - InWords(n)
  <2>1. frame - InWords(n) \in Int /\ 0 <= frame - InWords(n) /\ frame - InWords(n) < W
    BY <1>1, <1>2, MemoryAssumption
  <2> QED BY <1>4, <2>1, ModSmall DEF Lowered
<1> QED BY <1>2, <1>4, <1>5

LEMMA BlockIsBlock ==
  ASSUME HeapTypeOK, NEW n \in Address
  PROVE  Block(n) \in [base : Address, size : Address]
BY LoweredInAddress DEF Block

(* A request that fits is answered with a block, any other with none.      *)
Answered(n) ==
  \/ Fits(n) /\ blocks' = blocks \cup {Block(n)}
  \/ ~Fits(n) /\ blocks' = blocks

(* The part of the invariant that a request disturbs.                      *)
LEMMA RequestStep ==
  ASSUME HeapInv, NEW n \in Address, Lower(n), Answered(n)
  PROVE  /\ frame' \in Address /\ asked' \in Nat
         /\ blocks' \subseteq [base : Address, size : Address]
         /\ FrameInv' /\ BlocksApart'
<1>1. /\ frame \in Address /\ asked \in Nat /\ blocks \subseteq [base : Address, size : Address]
      /\ Lowered(n) \in Address /\ InWords(n) \in Nat /\ n <= InWords(n) /\ n \in Nat
  BY LoweredInAddress, InWordsBounds DEF HeapInv, HeapTypeOK, Address
<1>2. frame' \in Address /\ asked' \in Nat /\ blocks' \subseteq [base : Address, size : Address]
  BY <1>1, BlockIsBlock DEF Lower, HeapInv, Answered
<1>3. FrameInv' /\ BlocksApart'
  <2> SUFFICES ASSUME Modest'
               PROVE  /\ frame' = Top - asked' /\ \A b \in blocks' : frame' <= b.base
                      /\ \A b \in blocks' : Bottom <= b.base /\ b.base + b.size <= Top
                      /\ \A b, c \in blocks' : b = c \/ b.base + b.size <= c.base \/ c.base + c.size <= b.base
    BY DEF FrameInv, BlocksApart
  <2>1. CASE n = 0
    <3>1. UNCHANGED <<frame, asked, blocks>> /\ Modest
      BY <2>1 DEF Lower, Fits, Modest, Answered
    <3> QED BY <3>1 DEF HeapInv, FrameInv, BlocksApart
  <2>2. CASE n # 0
    <3>1. asked' = asked + InWords(n) /\ frame' = Lowered(n) /\ asked + InWords(n) <= Top
      BY <2>2 DEF Lower, Modest
    <3>2. Modest /\ frame' = frame - InWords(n) /\ frame = Top - asked
      BY <3>1, NoWrap DEF HeapInv, FrameInv
    <3>3. frame' = Top - asked' /\ frame' <= frame /\ frame <= Top
      BY <1>1, <3>1, <3>2, MemoryAssumption
    <3>4. /\ \A b \in blocks : frame <= b.base /\ Bottom <= b.base /\ b.base + b.size <= Top
          /\ \A b, c \in blocks : b = c \/ b.base + b.size <= c.base \/ c.base + c.size <= b.base
      BY <3>2 DEF HeapInv, FrameInv, BlocksApart
    <3>5. /\ \A b \in blocks : b.base \in Nat /\ b.size \in Nat
          /\ frame \in Nat /\ frame' \in Nat /\ n \in Nat /\ Top \in Nat /\ Bottom \in Nat
      <4>1. \A b \in blocks : b.base \in Address /\ b.size \in Address
        BY <1>1
      <4> QED BY <1>1, <1>2, <4>1, MemoryAssumption DEF Address
    <3>6. CASE blocks' = blocks
      BY <3>3, <3>4, <3>5, <3>6
    <3>7. CASE Fits(n) /\ blocks' = blocks \cup {Block(n)}
      <4>1. Bottom <= frame' /\ Block(n).base = frame' /\ Block(n).size = n
        BY <3>1, <3>7 DEF Fits, Block
      <4>2. frame' + n <= frame
        BY <1>1, <3>2 DEF Address
      <4>3. \A b \in blocks : Block(n).base + Block(n).size <= b.base
        <5> SUFFICES ASSUME NEW b \in blocks PROVE frame' + n <= b.base
          BY <4>1
        <5>1. frame <= b.base /\ b.base \in Nat
          BY <3>4, <3>5
        <5>2. frame \in Nat /\ frame' \in Nat /\ n \in Nat
          BY <3>5
        <5>3. \A x, y, z, t \in Nat : x + y <= z /\ z <= t => x + y <= t
          OBVIOUS
        <5> QED BY <4>2, <5>1, <5>2, <5>3
      <4>4. \A b \in blocks' : b \in blocks \/ b = Block(n)
        BY <3>7
      <4>5. \A b \in blocks' : frame' <= b.base /\ Bottom <= b.base /\ b.base + b.size <= Top
        <5>1. \A b \in blocks : frame' <= b.base
          BY <3>3, <3>4, <3>5
        <5>2. frame' <= Block(n).base /\ Bottom <= Block(n).base /\ Block(n).base + Block(n).size <= Top
          BY <3>3, <3>5, <4>1, <4>2
        <5> QED BY <3>4, <4>4, <5>1, <5>2
      <4>6. ASSUME NEW b \in blocks', NEW c \in blocks'
            PROVE  b = c \/ b.base + b.size <= c.base \/ c.base + c.size <= b.base
        <5>1. CASE b \in blocks /\ c \in blocks
          BY <3>4, <5>1
        <5>2. CASE b \in blocks /\ c = Block(n)
          BY <4>3, <5>2
        <5>3. CASE c \in blocks /\ b = Block(n)
          BY <4>3, <5>3
        <5> QED BY <4>4, <5>1, <5>2, <5>3
      <4> QED BY <3>3, <4>5, <4>6
    <3> QED BY <3>6, <3>7 DEF Answered
  <2> QED BY <2>1, <2>2
<1> QED BY <1>2, <1>3

LEMMA CopyStays ==
  ASSUME HeapTypeOK, NEW to \in Int, NEW from \in Int, NEW n
  PROVE  CopiedTo(to, from, n) \in [Address -> Byte]
<1>1. \A x \in Int : x % W \in Address
  BY MemoryAssumption DEF Address
<1>2. \A a \in Address : (a - to) % W \in Int /\ (from + ((a - to) % W)) % W \in Address
  BY <1>1 DEF Address
<1>3. \A a \in Address : bytes[a] \in Byte
  BY DEF HeapTypeOK
<1> QED BY <1>2, <1>3 DEF CopiedTo

LEMMA SetStays ==
  ASSUME HeapTypeOK, NEW to \in Int, NEW n, NEW value \in Byte
  PROVE  SetTo(to, n, value) \in [Address -> Byte]
<1>1. \A a \in Address : bytes[a] \in Byte
  BY DEF HeapTypeOK
<1> QED BY <1>1 DEF SetTo

LEMMA InitHeapInv == HeapInit => HeapInv
<1> SUFFICES ASSUME HeapInit PROVE HeapInv
  OBVIOUS
<1>1. frame = Top /\ asked = 0 /\ blocks = {} /\ bytes = [a \in Address |-> "unset"]
  BY DEF HeapInit
<1>2. HeapTypeOK
  BY <1>1, MemoryAssumption DEF HeapTypeOK, Address, Byte
<1>3. FrameInv /\ BlocksApart
  BY <1>1, MemoryAssumption DEF FrameInv, BlocksApart
<1> QED BY <1>2, <1>3 DEF HeapInv

(* A step that makes no request.                                           *)
LEMMA NoRequestStep ==
  ASSUME HeapInv, UNCHANGED <<frame, asked>>, blocks' \subseteq blocks, bytes' \in [Address -> Byte]
  PROVE  HeapInv'
<1>1. HeapTypeOK'
  BY DEF HeapInv, HeapTypeOK
<1>2. Modest' = Modest
  BY DEF Modest
<1>3. FrameInv' /\ BlocksApart'
  BY <1>2 DEF HeapInv, FrameInv, BlocksApart
<1> QED BY <1>1, <1>3 DEF HeapInv

(* A step that makes one.                                                  *)
LEMMA LowerStep ==
  ASSUME HeapInv, NEW n \in Address, Lower(n), Answered(n), bytes' \in [Address -> Byte]
  PROVE  HeapInv'
BY RequestStep DEF HeapInv, HeapTypeOK

LEMMA NextStep ==
  ASSUME HeapInv, [HeapNext]_heap_vars
  PROVE  HeapInv'
<1>0. /\ Sizes \subseteq Address /\ Counts \subseteq Address /\ 0 \in Int
      /\ bytes \in [Address -> Byte] /\ HeapTypeOK
      /\ \A b \in blocks : b.base \in Int /\ b.size \in Int
      /\ \A n \in Address : Lowered(n) \in Int /\ n \in Int
  BY MemoryAssumption, LoweredInAddress DEF HeapInv, HeapTypeOK, Address
<1>1. "zero" \in Byte /\ "header" \in Byte /\ \A value \in Data : value \in Byte
  BY DEF Byte
<1>2. CASE UNCHANGED heap_vars
  BY <1>0, <1>2, NoRequestStep DEF heap_vars
<1>3. ASSUME NEW n \in Sizes,
             AllocateBare(n) \/ AllocateBareZero(n) \/ AllocateTooSmall(n) \/ Allocate(n) \/ Malloc(n)
      PROVE  HeapInv'
  <2>1. n \in Address /\ Lowered(n) \in Int
    BY <1>0
  <2>2. CASE AllocateTooSmall(n)
    BY <1>0, <2>2, NoRequestStep DEF AllocateTooSmall
  <2>3. CASE AllocateBare(n)
    <3>1. Lower(n) /\ Answered(n) /\ bytes' = bytes
      BY <2>3 DEF AllocateBare, Grant, Refuse, Answered
    <3> QED BY <1>0, <2>1, <3>1, LowerStep
  <2>4. CASE Malloc(n)
    <3>1. Lower(n) /\ Answered(n) /\ bytes' = bytes
      BY <2>4 DEF Malloc, Grant, Refuse, Answered
    <3> QED BY <1>0, <2>1, <3>1, LowerStep
  <2>5. CASE AllocateBareZero(n)
    <3>1. bytes' \in [Address -> Byte]
      <4>1. bytes' = bytes \/ bytes' = SetTo(Lowered(n), n, "zero")
        BY <2>5 DEF AllocateBareZero
      <4> QED BY <1>0, <1>1, <2>1, <4>1, SetStays
    <3>2. Lower(n) /\ Answered(n)
      BY <2>5 DEF AllocateBareZero, Grant, Refuse, Answered
    <3> QED BY <2>1, <3>1, <3>2, LowerStep
  <2>6. CASE Allocate(n)
    <3>1. bytes' \in [Address -> Byte]
      <4>1. bytes' = bytes \/ bytes' = SetTo(Lowered(n), 8, "header")
        BY <2>6 DEF Allocate
      <4> QED BY <1>0, <1>1, <2>1, <4>1, SetStays
    <3>2. Lower(n) /\ Answered(n)
      BY <2>6 DEF Allocate, Grant, Refuse, Answered
    <3> QED BY <2>1, <3>1, <3>2, LowerStep
  <2> QED BY <1>3, <2>2, <2>3, <2>4, <2>5, <2>6
<1>4. ASSUME NEW count \in Counts, NEW size \in Sizes, CallocOverflow(count, size) \/ Calloc(count, size)
      PROVE  HeapInv'
  <2> DEFINE n == (count * size) % W
  <2>1. n \in Address
    <3>1. count \in Int /\ size \in Int
      BY <1>0 DEF Address
    <3>2. count * size \in Int
      BY <3>1
    <3> QED BY <3>2, MemoryAssumption DEF Address
  <2>2. CASE CallocOverflow(count, size)
    BY <1>0, <2>2, NoRequestStep DEF CallocOverflow
  <2>3. CASE Calloc(count, size)
    <3>1. /\ Lower(n)
          /\ \/ Grant("calloc", n, "done") /\ bytes' = SetTo(Lowered(n), n, "zero")
             \/ Refuse("calloc", n, "null") /\ UNCHANGED bytes
      BY <2>3 DEF Calloc
    <3> HIDE DEF n
    <3>2. bytes' \in [Address -> Byte]
      <4>1. bytes' = bytes \/ bytes' = SetTo(Lowered(n), n, "zero")
        BY <3>1
      <4> QED BY <1>0, <1>1, <2>1, <4>1, SetStays
    <3>3. Answered(n)
      BY <3>1 DEF Grant, Refuse, Answered
    <3> QED BY <2>1, <3>1, <3>2, <3>3, LowerStep
  <2> QED BY <1>4, <2>2, <2>3
<1>5. ASSUME NEW n \in Sizes, ReallocateTooSmall(n)
      PROVE  HeapInv'
  BY <1>0, <1>5, NoRequestStep DEF ReallocateTooSmall
<1>6. ASSUME NEW n \in Sizes, NEW from \in Pointers, Reallocate(from, n) \/ Realloc(from, n)
      PROVE  HeapInv'
  <2>1. n \in Address /\ Lowered(n) \in Int /\ from \in Int
    BY <1>0 DEF Pointers
  <2>2. CASE Reallocate(from, n)
    <3>1. bytes' \in [Address -> Byte]
      <4>1. bytes' = bytes \/ bytes' = CopiedTo(Lowered(n), from, n)
        BY <2>2 DEF Reallocate
      <4> QED BY <1>0, <1>1, <2>1, <4>1, CopyStays
    <3>2. Lower(n) /\ Answered(n)
      BY <2>2 DEF Reallocate, Grant, Refuse, Answered
    <3> QED BY <2>1, <3>1, <3>2, LowerStep
  <2>3. CASE Realloc(from, n)
    <3>1. bytes' \in [Address -> Byte]
      <4>1. bytes' = CopiedTo(0, from, n) \/ bytes' = CopiedTo(Lowered(n), from, n)
        BY <2>3 DEF Realloc
      <4> QED BY <1>0, <1>1, <2>1, <4>1, CopyStays
    <3>2. Lower(n) /\ Answered(n)
      BY <2>3 DEF Realloc, Grant, Refuse, Answered
    <3> QED BY <2>1, <3>1, <3>2, LowerStep
  <2> QED BY <1>6, <2>2, <2>3
<1>7. ASSUME NEW b \in blocks, Deallocate(b)
      PROVE  HeapInv'
  BY <1>0, <1>7, NoRequestStep DEF Deallocate
<1>8. ASSUME NEW b \in blocks, NEW value \in Data, Fill(b, value)
      PROVE  HeapInv'
  BY <1>0, <1>1, <1>8, SetStays, NoRequestStep DEF Fill
<1> QED BY <1>2, <1>3, <1>4, <1>5, <1>6, <1>7, <1>8 DEF HeapNext

(* However malloc, calloc, realloc, free and the mem.* procedures are      *)
(* called: the blocks handed out lie in memory and have no byte in common, *)
(* until the sum of what was asked for exceeds the memory.                 *)
THEOREM MemoryIsDivided == HeapSpec => [](HeapTypeOK /\ BlocksApart)
<1>1. HeapInv /\ [HeapNext]_heap_vars => HeapInv'
  BY NextStep
<1>2. HeapInv => HeapTypeOK /\ BlocksApart
  BY DEF HeapInv
<1> QED BY <1>1, <1>2, InitHeapInv, PTL DEF HeapSpec

-----------------------------------------------------------------------------
(* What the calls do to the bytes                                          *)

LEMMA ModBelow ==
  ASSUME NEW x \in Int, -W <= x, x < 0
  PROVE  x % W = x + W
BY MemoryAssumption

(* The bytes of b are what they were.                                      *)
Kept(b) == \A i \in 0 .. b.size - 1 : bytes'[b.base + i] = bytes[b.base + i]

(* The bytes of a block are above the frame and below the top.             *)
LEMMA ByteOfBlock ==
  ASSUME HeapInv, Modest, NEW b \in blocks, NEW i \in 0 .. b.size - 1
  PROVE  /\ b.base \in Nat /\ b.base + b.size \in Nat /\ b.base + i \in Address
         /\ frame <= b.base /\ b.base <= b.base + i /\ b.base + i < b.base + b.size
         /\ b.base + b.size <= Top
<1>1. b.base \in Address /\ b.size \in Address
  BY DEF HeapInv, HeapTypeOK
<1>2. frame <= b.base /\ b.base + b.size <= Top
  BY DEF HeapInv, FrameInv, BlocksApart
<1> QED BY <1>1, <1>2, MemoryAssumption DEF Address, HeapInv, HeapTypeOK

(* Nothing in the room of a new block belongs to an older one.             *)
LEMMA RequestKeeps ==
  ASSUME HeapInv, NEW n \in Address, Lower(n), Modest', Fits(n),
         NEW k \in Nat, k <= InWords(n),
         \A a \in Address : ~((a - Lowered(n)) % W < k) => bytes'[a] = bytes[a]
  PROVE  \A b \in blocks : Kept(b)
<1>1. asked + InWords(n) <= Top
  BY DEF Lower, Fits, Modest
<1>2. PICK low \in Address : low = Lowered(n)
  BY LoweredInAddress DEF HeapInv
<1>3. Modest /\ frame = low + InWords(n) /\ InWords(n) \in Nat
  <2>1. Modest /\ low = frame - InWords(n)
    BY <1>1, <1>2, NoWrap
  <2> QED BY <2>1, InWordsBounds DEF HeapInv, HeapTypeOK, Address
<1>4. ASSUME NEW b \in blocks, NEW i \in 0 .. b.size - 1
      PROVE  bytes'[b.base + i] = bytes[b.base + i]
  <2>1. PICK a \in Address : a = b.base + i
    BY <1>3, ByteOfBlock
  <2>2. frame <= a
    BY <1>3, <2>1, ByteOfBlock DEF Address, HeapInv, HeapTypeOK
  <2>3. a - low \in Int /\ InWords(n) <= a - low /\ 0 <= a - low /\ a - low < W
    BY <1>3, <2>2, MemoryAssumption DEF Address
  <2>4. (a - low) % W = a - low
    BY <2>3, ModSmall
  <2>5. ~((a - low) % W < k)
    BY <1>3, <2>3, <2>4
  <2>6. bytes'[a] = bytes[a]
    BY <1>2, <2>5
  <2> QED BY <2>1, <2>6
<1> QED BY <1>4 DEF Kept

(* A program that fills its block writes to no other.                      *)
LEMMA FillKeeps ==
  ASSUME HeapInv, Modest, NEW c \in blocks, NEW value, bytes' = SetTo(c.base, c.size, value)
  PROVE  \A b \in blocks : b # c => Kept(b)
<1> SUFFICES ASSUME NEW b \in blocks, b # c, NEW i \in 0 .. b.size - 1
             PROVE  bytes'[b.base + i] = bytes[b.base + i]
  BY DEF Kept
<1>1. PICK a \in Address : a = b.base + i
  BY ByteOfBlock
<1>2. PICK to \in Address, size \in Address : to = c.base /\ size = c.size
  BY DEF HeapInv, HeapTypeOK
<1>3. to + size <= Top /\ (a < to \/ to + size <= a)
  <2>1. to + size <= Top /\ (b.base + b.size <= to \/ to + size <= b.base)
    BY <1>2 DEF HeapInv, BlocksApart
  <2>2. b.base \in Nat /\ b.base + b.size \in Nat /\ b.base <= a /\ a < b.base + b.size
    BY <1>1, ByteOfBlock
  <2> QED BY <2>1, <2>2 DEF Address
<1>4. ~((a - to) % W < size)
  <2>1. CASE to + size <= a
    <3>1. a - to \in Int /\ size <= a - to /\ 0 <= a - to /\ a - to < W
      BY <2>1, MemoryAssumption DEF Address
    <3>2. (a - to) % W = a - to
      BY <3>1, ModSmall
    <3> QED BY <3>1, <3>2 DEF Address
  <2>2. CASE a < to
    <3>1. a - to \in Int /\ -W <= a - to /\ a - to < 0 /\ size <= a - to + W
      BY <1>3, <2>2, MemoryAssumption DEF Address
    <3>2. (a - to) % W = a - to + W
      BY <3>1, ModBelow
    <3> QED BY <3>1, <3>2, MemoryAssumption DEF Address
  <2> QED BY <1>3, <2>1, <2>2
<1>5. bytes'[a] = bytes[a]
  BY <1>2, <1>4 DEF SetTo
<1> QED BY <1>1, <1>5

LEMMA SetKeeps ==
  ASSUME HeapInv, NEW n \in Address, Lower(n), Modest', Fits(n),
         NEW k \in Nat, k <= InWords(n), NEW value, bytes' = SetTo(Lowered(n), k, value)
  PROVE  \A b \in blocks : Kept(b)
<1>1. \A a \in Address : ~((a - Lowered(n)) % W < k) => bytes'[a] = bytes[a]
  BY DEF SetTo
<1> QED BY <1>1, RequestKeeps

LEMMA CopyKeeps ==
  ASSUME HeapInv, NEW n \in Address, Lower(n), Modest', Fits(n), NEW from, bytes' = CopiedTo(Lowered(n), from, n)
  PROVE  \A b \in blocks : Kept(b)
<1>1. \A a \in Address : ~((a - Lowered(n)) % W < n) => bytes'[a] = bytes[a]
  BY DEF CopiedTo
<1>2. n \in Nat /\ n <= InWords(n)
  BY InWordsBounds DEF Address
<1> QED BY <1>1, <1>2, RequestKeeps

(* A header of eight bytes fits into a block of more than four.            *)
LEMMA HeaderFits ==
  ASSUME NEW n \in Address, n > 4
  PROVE  8 \in Nat /\ 8 <= InWords(n)
BY MemoryAssumption DEF InWords, Address

LEMMA StepKeeps ==
  ASSUME HeapInv, HeapNext, Modest', ~(heap_call'.op = "realloc" /\ heap_call'.result = "null")
  PROVE  \A b \in blocks : b # heap_call'.block => Kept(b)
<1>0. Sizes \subseteq Address /\ Counts \subseteq Address
  BY MemoryAssumption
<1>1. ASSUME bytes' = bytes PROVE \A b \in blocks : Kept(b)
  BY <1>1 DEF Kept
<1>2. ASSUME NEW n \in Address PROVE n \in Nat /\ n <= InWords(n)
  BY InWordsBounds DEF Address
<1>3. ASSUME NEW n \in Sizes,
             AllocateBare(n) \/ AllocateBareZero(n) \/ AllocateTooSmall(n) \/ Allocate(n) \/ Malloc(n)
      PROVE  \A b \in blocks : Kept(b)
  <2>1. CASE AllocateBare(n) \/ AllocateTooSmall(n) \/ Malloc(n)
    BY <1>1, <2>1 DEF AllocateBare, AllocateTooSmall, Malloc
  <2>2. CASE AllocateBareZero(n)
    <3>1. Lower(n) /\ (bytes' = bytes \/ (Fits(n) /\ bytes' = SetTo(Lowered(n), n, "zero")))
      BY <2>2 DEF AllocateBareZero, Grant
    <3> QED BY <1>0, <1>1, <1>2, <3>1, SetKeeps
  <2>3. CASE Allocate(n)
    <3>1. Lower(n) /\ n > 4 /\ (bytes' = bytes \/ (Fits(n) /\ bytes' = SetTo(Lowered(n), 8, "header")))
      BY <2>3 DEF Allocate, Grant
    <3> QED BY <1>0, <1>1, <3>1, HeaderFits, SetKeeps
  <2> QED BY <1>3, <2>1, <2>2, <2>3
<1>4. ASSUME NEW count \in Counts, NEW size \in Sizes, CallocOverflow(count, size) \/ Calloc(count, size)
      PROVE  \A b \in blocks : Kept(b)
  <2>1. CASE CallocOverflow(count, size)
    BY <1>1, <2>1 DEF CallocOverflow
  <2>2. CASE Calloc(count, size)
    <3>1. count * size \in Int
      <4>1. count \in Int /\ size \in Int
        BY <1>0 DEF Address
      <4> QED BY <4>1
    <3>2. PICK n \in Address : n = (count * size) % W
      BY <3>1, MemoryAssumption DEF Address
    <3>3. Lower(n) /\ (bytes' = bytes \/ (Fits(n) /\ bytes' = SetTo(Lowered(n), n, "zero")))
      BY <2>2, <3>2, Zenon DEF Calloc, Grant, Refuse
    <3> QED BY <1>1, <1>2, <3>3, SetKeeps
  <2> QED BY <1>4, <2>1, <2>2
<1>5. ASSUME NEW n \in Sizes, ReallocateTooSmall(n)
      PROVE  \A b \in blocks : Kept(b)
  BY <1>1, <1>5 DEF ReallocateTooSmall
<1>6. ASSUME NEW n \in Sizes, NEW from \in Pointers, Reallocate(from, n) \/ Realloc(from, n)
      PROVE  \A b \in blocks : Kept(b)
  <2>1. Lower(n) /\ (bytes' = bytes \/ (Fits(n) /\ bytes' = CopiedTo(Lowered(n), from, n)))
    <3>1. CASE Reallocate(from, n)
      BY <3>1 DEF Reallocate, Grant
    <3>2. CASE Realloc(from, n)
      BY <3>2 DEF Realloc, Grant, Refuse
    <3> QED BY <1>6, <3>1, <3>2
  <2> QED BY <1>0, <1>1, <2>1, CopyKeeps
<1>7. ASSUME NEW b \in blocks, Deallocate(b)
      PROVE  \A c \in blocks : Kept(c)
  BY <1>1, <1>7 DEF Deallocate
<1>8. ASSUME NEW b \in blocks, NEW value \in Data, Fill(b, value)
      PROVE  \A c \in blocks : c # heap_call'.block => Kept(c)
  <2>1. bytes' = SetTo(b.base, b.size, value) /\ heap_call'.block = b /\ Modest
    BY <1>8 DEF Fill, Modest
  <2> QED BY <2>1, FillKeeps
<1> QED BY <1>3, <1>4, <1>5, <1>6, <1>7, <1>8 DEF HeapNext

(* Every byte of a block stays what its program made it: whatever the      *)
(* allocator and the other programs do, only a realloc that is refused     *)
(* writes to memory that it was not given.                                 *)
THEOREM BlocksAreLeftAlone == HeapSpec => OthersKept
<1>1. HeapInv /\ [HeapNext]_heap_vars => HeapInv'
  BY NextStep
<1>2. HeapInv /\ [HeapNext]_heap_vars =>
        [Modest' /\ ~(heap_call'.op = "realloc" /\ heap_call'.result = "null") =>
           \A b \in blocks : b # heap_call'.block =>
             \A i \in 0 .. b.size - 1 : bytes'[b.base + i] = bytes[b.base + i]]_heap_vars
  BY StepKeeps DEF Kept
<1> QED BY <1>1, <1>2, InitHeapInv, PTL DEF HeapSpec, OthersKept

(* What is copied from the old block arrives in the new one.               *)
LEMMA CopyArrives ==
  ASSUME HeapInv, Modest', NEW b \in blocks, NEW n \in Address, Lower(n), Fits(n),
         bytes' = CopiedTo(Lowered(n), b.base, n),
         NEW i \in Address, i < n, i < b.size
  PROVE  bytes'[Lowered(n) + i] = bytes[b.base + i]
<1>1. asked + InWords(n) <= Top
  BY DEF Lower, Fits, Modest
<1>2. PICK low \in Address : low = Lowered(n)
  BY LoweredInAddress DEF HeapInv
<1>3. Modest /\ low + n <= frame /\ frame \in Address /\ asked \in Nat /\ frame <= Top
  <2>1. Modest /\ low = frame - InWords(n) /\ InWords(n) \in Nat /\ n <= InWords(n)
    BY <1>1, <1>2, NoWrap, InWordsBounds
  <2>2. frame = Top - asked
    BY <2>1 DEF HeapInv, FrameInv
  <2> QED BY <2>1, <2>2, MemoryAssumption DEF HeapInv, HeapTypeOK, Address
<1>4. PICK a \in Address : a = low + i
  BY <1>3, MemoryAssumption DEF Address
<1>5. PICK from \in Address : from = b.base /\ from + i \in Address
  <2>1. b.base \in Address /\ b.size \in Address
    BY DEF HeapInv, HeapTypeOK
  <2>2. i \in 0 .. b.size - 1
    BY <2>1 DEF Address
  <2> QED BY <1>3, <2>1, <2>2, ByteOfBlock
<1>6. (a - low) % W = i
  <2>1. a - low = i /\ i \in Int /\ 0 <= i /\ i < W
    BY <1>4, MemoryAssumption DEF Address
  <2> QED BY <2>1, ModSmall
<1>7. (from + i) % W = from + i
  <2>1. from + i \in Int /\ 0 <= from + i /\ from + i < W
    BY <1>5, MemoryAssumption DEF Address
  <2> QED BY <2>1, ModSmall
<1>8. bytes'[a] = bytes[from + i]
  <2>1. bytes'[a] = bytes[(from + ((a - low) % W)) % W]
    BY <1>2, <1>5, <1>6 DEF CopiedTo
  <2> QED BY <2>1, <1>6, <1>7
<1> QED BY <1>2, <1>4, <1>5, <1>8

(* The block that realloc and mem.reallocate return begins with what the   *)
(* old block held, for as many bytes as both have.                         *)
THEOREM ReallocCopies == HeapSpec => ReallocKeeps
<1>1. HeapInv /\ [HeapNext]_heap_vars => HeapInv'
  BY NextStep
<1>2. ASSUME HeapInv, NEW b \in blocks, NEW n \in Sizes,
             Modest', Realloc(b.base, n) \/ Reallocate(b.base, n), heap_call'.block # None,
             NEW i \in Address, i < n, i < b.size
      PROVE  bytes'[heap_call'.block.base + i] = bytes[b.base + i]
  <2>1. /\ Lower(n) /\ Fits(n) /\ bytes' = CopiedTo(Lowered(n), b.base, n)
        /\ heap_call'.block.base = Lowered(n)
    <3>1. CASE Realloc(b.base, n)
      BY <1>2, <3>1 DEF Realloc, Grant, Refuse, Block
    <3>2. CASE Reallocate(b.base, n)
      BY <1>2, <3>2 DEF Reallocate, Grant, Refuse, Block
    <3> QED BY <1>2, <3>1, <3>2
  <2>2. n \in Address
    BY MemoryAssumption
  <2> QED BY <1>2, <2>1, <2>2, CopyArrives
<1>3. HeapInv => \A b \in blocks, n \in Sizes :
                Modest' /\ (Realloc(b.base, n) \/ Reallocate(b.base, n)) /\ heap_call'.block # None =>
                  \A i \in Address : i < n /\ i < b.size => bytes'[heap_call'.block.base + i] = bytes[b.base + i]
  BY <1>2
<1> QED BY <1>1, <1>3, InitHeapInv, PTL DEF HeapSpec, ReallocKeeps
=============================================================================
