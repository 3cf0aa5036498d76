-------------------------- MODULE RingQueue_proofs --------------------------
(***************************************************************************)
(* Proofs about RingQueue, for any heads, members, ordering values and     *)
(* ways of ordering the rings, of what holds as long as no interrupt       *)
(* arrives inside a thread's call.                                         *)
(***************************************************************************)
EXTENDS RingQueue, FiniteSetTheorems, TLAPS

(* At most one context is inside a procedure.                              *)
OneCall == Idle("thread") \/ Idle("irq")

(* The registers of an insertion: a self-linked node, and two adjacent     *)
(* nodes of the ring it goes to.                                           *)
InsertionFrame(f) ==
  /\ Unlinked(f.node)
  /\ next[f.ref] = f.at
  /\ previous[f.at] = f.ref
  /\ f.ref # f.node
  /\ f.at # f.node
  /\ RingOf(f.ref) = f.ring

(* What the walk of link_ordered_32 has compared so far.                   *)
WalkedPast(f) ==
  Order[f.ring] = "w32" /\ f.ref \in Members => key[f.ref][1] <= key[f.node][1]
StoppedAt(f) ==
  Order[f.ring] = "w32" /\ f.at \in Members => key[f.node][1] <= key[f.at][1]

RemovalFrame(f) ==
  /\ f.at = next[f.node]
  /\ f.ref = previous[f.node]
  /\ f.at # f.node

FrameInv(c) ==
  LET f == call[c] IN
    /\ ~Idle(c) => f.op \in {"walk", "link", "unlink"}
    /\ f.op = "walk" => InsertionFrame(f) /\ WalkedPast(f)
    /\ f.op = "link" => InsertionFrame(f) /\ WalkedPast(f) /\ StoppedAt(f)
    /\ f.op = "unlink" => RemovalFrame(f)

IInv ==
  /\ TypeOK
  /\ LinksAgree
  /\ OneCall
  /\ OneRing
  /\ \A c \in Contexts : FrameInv(c)
  /\ Ordered32
  /\ NeverCorrupt

-----------------------------------------------------------------------------

(* Both words of an ordering value are numbers.                            *)
LEMMA KeyWords == \A k \in Key : k[1] \in Nat /\ k[2] \in Nat
  BY RingAssumption DEF Key

(* No call is in progress and every node is alone when the system starts.  *)
LEMMA InitIInv == Init => IInv
<1> SUFFICES ASSUME Init PROVE IInv
  OBVIOUS
<1>1. TypeOK
  BY DEF Init, TypeOK
<1>2. LinksAgree
  BY DEF Init, LinksAgree
<1>3. \A c \in Contexts : Idle(c) /\ call[c].op = "idle"
  BY DEF Init, Idle, NoCall
<1>4. OneCall /\ \A c \in Contexts : FrameInv(c)
  BY <1>3 DEF OneCall, FrameInv, Contexts
<1>5. OneRing
  BY DEF Init, OneRing, RingOf, Nodes
<1>6. Ordered32 /\ NeverCorrupt
  BY RingAssumption DEF Init, Ordered32, NeverCorrupt
<1> QED BY <1>1, <1>2, <1>4, <1>5, <1>6 DEF IInv

(* The four stores of an insertion: the node is distinct from the two it   *)
(* goes between and nothing else points to it.                             *)
LEMMA LinkStep ==
  ASSUME IInv, NEW c \in Contexts, Link(c)
  PROVE  IInv'
<1> DEFINE f == call[c]
<1>1. PICK i \in Members, r \in Heads, a \in Nodes, p \in Nodes :
        f.node = i /\ f.ring = r /\ f.at = a /\ f.ref = p
  BY DEF IInv, TypeOK, Link, Frame, NoCall
<1>2. /\ next' = [next EXCEPT ![i] = a, ![p] = i]
      /\ previous' = [previous EXCEPT ![i] = p, ![a] = i]
      /\ owner' = [owner EXCEPT ![i] = r]
      /\ call' = [call EXCEPT ![c] = NoCall]
      /\ result' = "ok" /\ key' = key
  BY <1>1 DEF Link
<1>3. /\ next[i] = i /\ previous[i] = i
      /\ next[p] = a /\ previous[a] = p
      /\ p # i /\ a # i /\ RingOf(p) = r /\ i \in Nodes /\ i \notin Heads
  BY <1>1, RingAssumption DEF IInv, FrameInv, Link, InsertionFrame, Unlinked, Nodes
<1>4. /\ Order[r] = "w32" /\ p \in Members => key[p][1] <= key[i][1]
      /\ Order[r] = "w32" /\ a \in Members => key[i][1] <= key[a][1]
  BY <1>1 DEF IInv, FrameInv, Link, WalkedPast, StoppedAt
<1>5. TypeOK'
  BY <1>1, <1>2, <1>3 DEF IInv, TypeOK
<1>6. LinksAgree'
  BY <1>1, <1>2, <1>3 DEF IInv, TypeOK, LinksAgree
<1>7. OneCall' /\ \A d \in Contexts : Idle(d)'
  BY <1>1, <1>2 DEF IInv, TypeOK, OneCall, Idle, Contexts, NoCall, Frame, Link
<1>8. OneRing'
  <2>1. RingOf(a) = r
    BY <1>1, <1>3 DEF IInv, OneRing
  <2>2. \A n \in Nodes : RingOf(n)' = IF n = i THEN r ELSE RingOf(n)
    BY <1>1, <1>2, <1>3 DEF IInv, TypeOK, RingOf, Nodes
  <2>3. \A n \in Nodes : next[n] \in Nodes /\ previous[n] \in Nodes
    BY DEF IInv, TypeOK
  <2>4. \A n \in Nodes \ {i} : next[n] # i /\ previous[n] # i
    BY <1>1, <1>3 DEF IInv, LinksAgree
  <2>5. ASSUME NEW n \in Nodes
        PROVE  RingOf(next[n])' = RingOf(n)' /\ RingOf(previous[n])' = RingOf(n)'
    <3>1. next'[n] = (IF n = i THEN a ELSE IF n = p THEN i ELSE next[n])
      BY <1>1, <1>2, <1>3 DEF IInv, TypeOK
    <3>2. previous'[n] = (IF n = i THEN p ELSE IF n = a THEN i ELSE previous[n])
      BY <1>1, <1>2, <1>3 DEF IInv, TypeOK
    <3>3. RingOf(next[n])' = (IF next'[n] = i THEN r ELSE RingOf(next'[n]))
      BY <1>1, <1>2, <1>3, <3>1, <2>3 DEF IInv, TypeOK, RingOf, Nodes
    <3>4. RingOf(previous[n])' = (IF previous'[n] = i THEN r ELSE RingOf(previous'[n]))
      BY <1>1, <1>2, <1>3, <3>2, <2>3 DEF IInv, TypeOK, RingOf, Nodes
    <3> QED BY <1>1, <1>3, <2>1, <2>2, <2>4, <3>1, <3>2, <3>3, <3>4 DEF IInv, OneRing
  <2>6. \A m \in Members : owner'[m] = None => next'[m] = m
    <3> SUFFICES ASSUME NEW m \in Members, owner'[m] = None PROVE next'[m] = m
      OBVIOUS
    <3>1. m # i /\ owner[m] = None /\ next[m] = m
      BY <1>1, <1>2, RingAssumption DEF IInv, TypeOK, OneRing
    <3>2. m # p
      BY <1>1, <1>3, <3>1, RingAssumption DEF RingOf
    <3> QED BY <1>1, <1>2, <3>1, <3>2 DEF IInv, TypeOK, Nodes
  <2> QED BY <2>5, <2>6 DEF OneRing
<1>9. \A d \in Contexts : FrameInv(d)'
  BY <1>7 DEF FrameInv, Idle, NoCall
<1>10. Ordered32'
  <2> SUFFICES ASSUME NEW m \in Members, owner'[m] # None, Order[owner'[m]] = "w32",
                      next'[m] \in Members
               PROVE  key[m][1] <= key[next'[m]][1]
    BY <1>2 DEF Ordered32
  <2>1. CASE m = i
    BY <1>1, <1>2, <1>3, <1>4, <2>1 DEF IInv, TypeOK
  <2>2. CASE m = p
    BY <1>1, <1>2, <1>3, <1>4, <2>2, RingAssumption DEF IInv, TypeOK, RingOf
  <2>3. CASE m # i /\ m # p
    BY <1>1, <1>2, <2>3 DEF IInv, TypeOK, Ordered32, Nodes
  <2> QED BY <2>1, <2>2, <2>3
<1>11. NeverCorrupt'
  BY <1>2 DEF NeverCorrupt
<1> QED BY <1>5, <1>6, <1>7, <1>8, <1>9, <1>10, <1>11 DEF IInv

(* The stores of a removal.                                                *)
LEMMA UnlinkStep ==
  ASSUME IInv, NEW c \in Contexts, Unlink(c)
  PROVE  IInv'
<1> DEFINE f == call[c]
<1>1. PICK i \in Members, a \in Nodes, p \in Nodes : f.node = i /\ f.at = a /\ f.ref = p
  BY DEF IInv, TypeOK, Unlink, Frame, NoCall
<1>2. /\ next' = [next EXCEPT ![p] = a, ![i] = i]
      /\ previous' = [previous EXCEPT ![a] = p, ![i] = i]
      /\ owner' = [owner EXCEPT ![i] = None]
      /\ call' = [call EXCEPT ![c] = NoCall]
      /\ result' = "ok" /\ key' = key
  BY <1>1 DEF Unlink
<1>3. /\ a = next[i] /\ p = previous[i] /\ a # i /\ i \in Nodes /\ i \notin Heads
      /\ next[p] = i /\ previous[a] = i /\ p # i
  BY <1>1, RingAssumption DEF IInv, FrameInv, Unlink, RemovalFrame, LinksAgree, Nodes
<1>4. TypeOK'
  BY <1>1, <1>2, <1>3 DEF IInv, TypeOK
<1>5. LinksAgree'
  BY <1>1, <1>2, <1>3 DEF IInv, TypeOK, LinksAgree
<1>6. OneCall' /\ \A d \in Contexts : Idle(d)'
  BY <1>1, <1>2 DEF IInv, TypeOK, OneCall, Idle, Contexts, NoCall, Frame, Unlink
<1>7. OneRing'
  <2>1. \A n \in Nodes : next[n] \in Nodes /\ previous[n] \in Nodes
    BY DEF IInv, TypeOK
  <2>2. \A n \in Nodes : (next[n] = i => n = p) /\ (previous[n] = i => n = a)
    BY <1>1, <1>3 DEF IInv, LinksAgree
  <2>3. ASSUME NEW n \in Nodes
        PROVE  RingOf(next[n])' = RingOf(n)' /\ RingOf(previous[n])' = RingOf(n)'
    <3>1. next'[n] = (IF n = i THEN i ELSE IF n = p THEN a ELSE next[n])
      BY <1>1, <1>2, <1>3 DEF IInv, TypeOK
    <3>2. previous'[n] = (IF n = i THEN i ELSE IF n = a THEN p ELSE previous[n])
      BY <1>1, <1>2, <1>3 DEF IInv, TypeOK
    <3>3. \A x \in Nodes \ {i} : (IF x \in Heads THEN x ELSE owner'[x]) = RingOf(x)
      BY <1>1, <1>2, <1>3 DEF IInv, TypeOK, RingOf, Nodes
    <3>4. CASE n = i
      BY <3>4, <3>1, <3>2 DEF RingOf
    <3>5. CASE n # i
      <4>1. next'[n] \in Nodes \ {i} /\ previous'[n] \in Nodes \ {i}
        BY <1>1, <1>3, <2>1, <2>2, <3>1, <3>2, <3>5
      <4>2. RingOf(next'[n]) = RingOf(n) /\ RingOf(previous'[n]) = RingOf(n)
        BY <1>1, <1>3, <3>1, <3>2, <3>5 DEF IInv, OneRing
      <4>3. RingOf(n)' = RingOf(n)
        BY <3>3, <3>5 DEF RingOf
      <4>4. RingOf(next[n])' = RingOf(next'[n]) /\ RingOf(previous[n])' = RingOf(previous'[n])
        BY <3>3, <4>1 DEF RingOf
      <4> QED BY <4>2, <4>3, <4>4
    <3> QED BY <3>4, <3>5
  <2>4. \A m \in Members : owner'[m] = None => next'[m] = m
    <3> SUFFICES ASSUME NEW m \in Members, owner'[m] = None, m # i PROVE next'[m] = m
      BY <1>1, <1>2, <1>3 DEF IInv, TypeOK
    <3>1. next[m] = m
      BY <1>1, <1>2 DEF IInv, TypeOK, OneRing
    <3> QED BY <1>1, <1>2, <1>3, <3>1 DEF IInv, TypeOK, Nodes
  <2> QED BY <2>3, <2>4 DEF OneRing
<1>8. \A d \in Contexts : FrameInv(d)'
  BY <1>6 DEF FrameInv, Idle, NoCall
<1>9. Ordered32'
  <2> SUFFICES ASSUME NEW m \in Members, owner'[m] # None, Order[owner'[m]] = "w32",
                      next'[m] \in Members
               PROVE  key[m][1] <= key[next'[m]][1]
    BY <1>2 DEF Ordered32
  <2>1. m # i /\ owner'[m] = owner[m]
    BY <1>1, <1>2, RingAssumption DEF IInv, TypeOK
  <2>2. CASE m # p
    BY <1>1, <1>2, <2>1, <2>2 DEF IInv, TypeOK, Ordered32, Nodes
  <2>3. CASE m = p
    <3>1. next'[m] = a /\ next[m] = i /\ next[i] = a
      BY <1>1, <1>2, <1>3, <2>1, <2>3 DEF IInv, TypeOK
    <3>2. owner[i] = owner[m]
      BY <1>3, <2>1, <2>3, RingAssumption DEF IInv, OneRing, RingOf, Nodes
    <3>3. key[m][1] <= key[i][1] /\ key[i][1] <= key[a][1]
      BY <1>1, <3>1, <3>2, <2>1 DEF IInv, Ordered32
    <3>4. key[m][1] \in Nat /\ key[i][1] \in Nat /\ key[a][1] \in Nat
      BY <1>1, <3>1, KeyWords DEF IInv, TypeOK
    <3> QED BY <3>1, <3>3, <3>4
  <2> QED BY <2>2, <2>3
<1>10. NeverCorrupt'
  BY <1>2 DEF NeverCorrupt
<1> QED BY <1>4, <1>5, <1>6, <1>7, <1>8, <1>9, <1>10 DEF IInv

(* A call that starts finds every frame idle, as no interrupt comes inside *)
(* another call, and leaves the links and the history as they are.         *)
LEMMA EnterStep ==
  ASSUME IInv, NEW c \in Contexts, Idle("thread"), Idle("irq"),
         UNCHANGED <<next, previous, owner>>, TypeOK', NeverCorrupt', Ordered32',
         \A d \in Contexts \ {c} : call'[d] = call[d], FrameInv(c)'
  PROVE  IInv'
<1>1. \A d \in Contexts : Idle(d)
  BY DEF Contexts
<1>2. OneCall'
  BY <1>1 DEF OneCall, Idle, Contexts
<1>3. \A d \in Contexts \ {c} : FrameInv(d)'
  BY <1>1 DEF FrameInv, Idle, NoCall
<1>4. LinksAgree' /\ OneRing'
  BY DEF IInv, LinksAgree, OneRing, RingOf
<1> QED BY <1>2, <1>3, <1>4 DEF IInv

(* A call that is refused by its first checks only reports it.             *)
LEMMA ReturnStep ==
  ASSUME IInv, NEW c \in Contexts, NEW i \in Members, NEW res \in {"linked", "unlinked"},
         MayCall(c, i), ~Preemptible,
         Return(c, res)
  PROVE  IInv'
<1>1. Idle("thread") /\ Idle("irq")
  BY DEF MayCall, Runs, Contexts
<1>2. TypeOK' /\ NeverCorrupt' /\ Ordered32'
  BY DEF IInv, Return, TypeOK, NeverCorrupt, Ordered32
<1>3. FrameInv(c)' /\ \A d \in Contexts \ {c} : call'[d] = call[d]
  BY DEF IInv, Return, TypeOK, FrameInv, Idle, NoCall
<1> QED BY <1>1, <1>2, <1>3, EnterStep DEF Return

(* What an insertion next to a reference node loads into its frame.        *)
LEMMA InsertStep ==
  ASSUME IInv, NEW c \in Contexts, NEW i \in Members, MayCall(c, i), ~Preemptible,
         NEW r \in Heads, NEW a \in Nodes, NEW p \in Nodes,
         Unlinked(i), Order[r] = "none", RingOf(p) = r, next[p] = a, previous[a] = p, p # i,
         Enter(c, "link", i, r, a, p), UNCHANGED <<next, previous, key, owner>>
  PROVE  IInv'
<1> DEFINE f == [op |-> "link", node |-> i, ring |-> r, at |-> a, ref |-> p]
<1>1. Idle("thread") /\ Idle("irq")
  BY DEF MayCall, Runs, Contexts
<1>2. f \in Frame
  BY DEF Frame
<1>3. call'[c] = f /\ \A d \in Contexts \ {c} : call'[d] = call[d]
  BY DEF Enter, IInv, TypeOK
<1>4. TypeOK' /\ NeverCorrupt' /\ Ordered32'
  BY <1>2 DEF IInv, Enter, TypeOK, NeverCorrupt, Ordered32
<1>5. a # i
  BY DEF Unlinked, IInv, LinksAgree
<1>6. InsertionFrame(f)' /\ WalkedPast(f)' /\ StoppedAt(f)'
  BY <1>5 DEF InsertionFrame, WalkedPast, StoppedAt, Unlinked, RingOf
<1>7. FrameInv(c)'
  BY <1>3, <1>6 DEF FrameInv, Idle, NoCall
<1> QED BY <1>1, <1>3, <1>4, <1>7, EnterStep

(* ring_queue.insert_before, up to its stores.                             *)
LEMMA InsertBeforeStep ==
  ASSUME IInv, NEW c \in Contexts, NEW i \in Members, NEW r \in References \ {i}, ~Preemptible,
         InsertBefore(c, i, r)
  PROVE  IInv'
<1>1. /\ r \in Nodes /\ previous[r] \in Nodes /\ next[previous[r]] = r
      /\ RingOf(previous[r]) = RingOf(r)
  BY DEF References, IInv, TypeOK, LinksAgree, OneRing
<1>2. RingOf(r) \in Heads /\ Order[RingOf(r)] = "none"
  BY <1>1, RingAssumption DEF References, RingOf, IInv, TypeOK, Nodes
<1>3. CASE ~Unlinked(i)
  BY <1>3, ReturnStep DEF InsertBefore
<1>4. CASE Unlinked(i)
  <2>1. previous[r] # i
    BY <1>1, <1>4 DEF Unlinked
  <2> QED BY <1>1, <1>2, <1>4, <2>1, InsertStep DEF InsertBefore
<1> QED BY <1>3, <1>4

(* ring_queue.insert_after, up to its stores.                              *)
LEMMA InsertAfterStep ==
  ASSUME IInv, NEW c \in Contexts, NEW i \in Members, NEW r \in References \ {i}, ~Preemptible,
         InsertAfter(c, i, r)
  PROVE  IInv'
<1>1. r \in Nodes /\ next[r] \in Nodes /\ previous[next[r]] = r
  BY DEF References, IInv, TypeOK, LinksAgree
<1>2. RingOf(r) \in Heads /\ Order[RingOf(r)] = "none"
  BY <1>1, RingAssumption DEF References, RingOf, IInv, TypeOK, Nodes
<1>3. CASE ~Unlinked(i)
  BY <1>3, ReturnStep DEF InsertAfter
<1>4. CASE Unlinked(i)
  BY <1>1, <1>2, <1>4, InsertStep DEF InsertAfter
<1> QED BY <1>3, <1>4

(* link_ordered_64 and _32, up to the first comparison: the new ordering   *)
(* value is that of a node in no ring, or of one that no ring reaches.     *)
LEMMA LinkOrderedStep ==
  ASSUME IInv, NEW c \in Contexts, NEW i \in Members, NEW r \in Heads, NEW k \in KeysOf[r],
         ~Preemptible, LinkOrdered(c, i, r, k)
  PROVE  IInv'
<1>1. CASE ~Unlinked(i)
  BY <1>1, ReturnStep DEF LinkOrdered
<1>2. CASE Unlinked(i)
  <2> DEFINE f == [op |-> "walk", node |-> i, ring |-> r, at |-> next[r], ref |-> r]
  <2>1. /\ Idle("thread") /\ Idle("irq")
        /\ call' = [call EXCEPT ![c] = f] /\ result' = "none"
        /\ key' = [key EXCEPT ![i] = k] /\ UNCHANGED <<next, previous, owner>>
    BY <1>2 DEF LinkOrdered, Enter, MayCall, Runs, Contexts
  <2>2. /\ r \in Nodes /\ next[r] \in Nodes /\ previous[next[r]] = r /\ k \in Key
        /\ i \in Nodes /\ i # r /\ r \notin Members /\ next[r] # i
    BY <1>2, RingAssumption DEF IInv, TypeOK, LinksAgree, Nodes, Key, Unlinked
  <2>3. f \in Frame
    BY <2>2 DEF Frame
  <2>4. TypeOK'
    BY <2>1, <2>2, <2>3 DEF IInv, TypeOK
  <2>5. Ordered32'
    <3> SUFFICES ASSUME NEW m \in Members, owner[m] # None, Order[owner[m]] = "w32",
                        next[m] \in Members
                 PROVE  key'[m][1] <= key'[next[m]][1]
      BY <2>1 DEF Ordered32
    <3>1. CASE m = i
      BY <1>2, <2>1, <2>2, <3>1, KeyWords DEF IInv, TypeOK, Unlinked
    <3>2. CASE m # i
      <4>1. next[m] # i
        BY <1>2, <3>2 DEF IInv, LinksAgree, Unlinked, Nodes
      <4> QED BY <2>1, <3>2, <4>1 DEF IInv, TypeOK, Ordered32
    <3> QED BY <3>1, <3>2
  <2>6. FrameInv(c)'
    <3>1. call'[c] = f /\ \A d \in Contexts \ {c} : call'[d] = call[d]
      BY <2>1 DEF IInv, TypeOK
    <3> QED BY <1>2, <2>1, <2>2, <3>1
            DEF FrameInv, Idle, NoCall, InsertionFrame, WalkedPast, Unlinked, RingOf
  <2>7. NeverCorrupt' /\ \A d \in Contexts \ {c} : call'[d] = call[d]
    BY <2>1 DEF NeverCorrupt, IInv, TypeOK
  <2> QED BY <2>1, <2>4, <2>5, <2>6, <2>7, EnterStep
<1> QED BY <1>1, <1>2

(* ring_queue.remove, up to its stores.                                    *)
LEMMA RemoveStep ==
  ASSUME IInv, NEW c \in Contexts, NEW i \in Members, ~Preemptible, Remove(c, i)
  PROVE  IInv'
<1>1. /\ i \in Nodes /\ next[i] \in Nodes /\ previous[i] \in Nodes
      /\ previous[next[i]] = i /\ next[previous[i]] = i
  BY DEF IInv, TypeOK, LinksAgree, Nodes
<1>2. CASE next[i] = i
  BY <1>1, <1>2, ReturnStep DEF Remove
<1>3. CASE next[i] # i
  <2> DEFINE f == [op |-> "unlink", node |-> i, ring |-> owner[i], at |-> next[i],
                   ref |-> previous[i]]
  <2>1. /\ Idle("thread") /\ Idle("irq")
        /\ call' = [call EXCEPT ![c] = f] /\ result' = "none"
        /\ UNCHANGED <<next, previous, key, owner>>
    BY <1>1, <1>3 DEF Remove, Enter, MayCall, Runs, Contexts
  <2>2. owner[i] \in Heads
    BY <1>3 DEF IInv, TypeOK, OneRing
  <2>3. f \in Frame
    BY <1>1, <2>2 DEF Frame
  <2>4. TypeOK' /\ NeverCorrupt' /\ Ordered32'
    BY <2>1, <2>3 DEF IInv, TypeOK, NeverCorrupt, Ordered32
  <2>5. FrameInv(c)'
    <3>1. call'[c] = f
      BY <2>1 DEF IInv, TypeOK
    <3> QED BY <1>3, <2>1, <3>1 DEF FrameInv, Idle, NoCall, RemovalFrame
  <2>6. \A d \in Contexts \ {c} : call'[d] = call[d]
    BY <2>1 DEF IInv, TypeOK
  <2> QED BY <2>1, <2>4, <2>5, <2>6, EnterStep
<1> QED BY <1>2, <1>3

(* One turn of the walk of an ordered insertion: the pair of nodes in its  *)
(* registers moves on to the next pair of neighbours of the same ring.     *)
LEMMA WalkStep ==
  ASSUME IInv, NEW c \in Contexts, Walk(c)
  PROVE  IInv'
<1> DEFINE f == call[c]
<1>1. PICK i \in Members, r \in Heads, a \in Nodes, p \in Nodes :
        f = [op |-> "walk", node |-> i, ring |-> r, at |-> a, ref |-> p]
  BY DEF IInv, TypeOK, Walk, Frame, NoCall
<1>2. /\ InsertionFrame(f) /\ WalkedPast(f)
      /\ Unlinked(i) /\ next[p] = a /\ previous[a] = p /\ p # i /\ a # i /\ RingOf(p) = r
  BY <1>1 DEF IInv, FrameInv, Walk, InsertionFrame
<1>3. UNCHANGED <<next, previous, key, owner, result>>
  BY <1>1, <1>2 DEF Walk
<1>4. RingOf(a) = r /\ next[a] \in Nodes /\ previous[next[a]] = a /\ next[a] # i
  BY <1>1, <1>2 DEF IInv, TypeOK, OneRing, LinksAgree, Unlinked
<1>5. \A d \in Contexts \ {c} : Idle(d)
  BY <1>1 DEF IInv, OneCall, Contexts, Idle, NoCall
<1>6. ASSUME NEW g \in Frame, call' = [call EXCEPT ![c] = g],
             g.op = "walk" => InsertionFrame(g) /\ WalkedPast(g),
             g.op = "link" => InsertionFrame(g) /\ WalkedPast(g) /\ StoppedAt(g),
             g.op \in {"walk", "link"}
      PROVE  IInv'
  <2>1. TypeOK'
    BY <1>3, <1>6 DEF IInv, TypeOK
  <2>2. LinksAgree' /\ OneRing' /\ Ordered32' /\ NeverCorrupt'
    BY <1>3 DEF IInv, LinksAgree, OneRing, RingOf, Ordered32, NeverCorrupt
  <2>3. call'[c] = g /\ \A d \in Contexts \ {c} : call'[d] = call[d]
    BY <1>6 DEF IInv, TypeOK
  <2>4. OneCall' /\ \A d \in Contexts \ {c} : Idle(d)'
    BY <1>5, <2>3 DEF OneCall, Contexts, Idle
  <2>5. InsertionFrame(g)' = InsertionFrame(g) /\ WalkedPast(g)' = WalkedPast(g)
        /\ StoppedAt(g)' = StoppedAt(g)
    BY <1>3 DEF InsertionFrame, WalkedPast, StoppedAt, Unlinked, RingOf
  <2>6. FrameInv(c)'
    BY <1>6, <2>3, <2>5 DEF FrameInv
  <2>7. \A d \in Contexts \ {c} : FrameInv(d)'
    BY <2>4 DEF FrameInv, Idle, NoCall
  <2> QED BY <2>1, <2>2, <2>4, <2>6, <2>7 DEF IInv
<1>7. CASE a = r \/ (a \in Members /\ StopsAt(r, key[i], key[a]))
  <2> DEFINE g == [op |-> "link", node |-> i, ring |-> r, at |-> a, ref |-> p]
  <2>1. g \in Frame /\ call' = [call EXCEPT ![c] = g]
    BY <1>1, <1>2, <1>7 DEF Walk, Frame, IInv, TypeOK
  <2>2. InsertionFrame(g) /\ WalkedPast(g)
    BY <1>1, <1>2 DEF InsertionFrame, WalkedPast
  <2>3. StoppedAt(g)
    BY <1>1, <1>7, RingAssumption DEF StoppedAt, StopsAt, StopsAt32
  <2> QED BY <1>6, <2>1, <2>2, <2>3
<1>8. CASE ~(a = r \/ (a \in Members /\ StopsAt(r, key[i], key[a])))
  <2> DEFINE g == [op |-> "walk", node |-> i, ring |-> r, at |-> next[a], ref |-> a]
  <2>1. g \in Frame /\ call' = [call EXCEPT ![c] = g]
    BY <1>1, <1>2, <1>4, <1>8 DEF Walk, Frame, IInv, TypeOK
  <2>2. InsertionFrame(g)
    BY <1>2, <1>4 DEF InsertionFrame
  <2>3. WalkedPast(g)
    <3> SUFFICES ASSUME Order[r] = "w32", a \in Members PROVE key[a][1] <= key[i][1]
      BY DEF WalkedPast
    <3>1. ~(key[i][1] <= key[a][1])
      BY <1>8 DEF StopsAt, StopsAt32
    <3>2. key[i][1] \in Nat /\ key[a][1] \in Nat
      BY <1>1, KeyWords DEF IInv, TypeOK
    <3> QED BY <3>1, <3>2
  <2> QED BY <1>6, <2>1, <2>2, <2>3
<1> QED BY <1>7, <1>8

(* Every step of the library preserves the invariant when no interrupt     *)
(* arrives inside a thread's call.                                         *)
LEMMA NextStep ==
  ASSUME IInv, ~Preemptible, [Next]_vars
  PROVE  IInv'
<1>1. CASE UNCHANGED vars
  BY <1>1 DEF vars, IInv, TypeOK, LinksAgree, OneCall, OneRing, RingOf, FrameInv, InsertionFrame,
     WalkedPast, StoppedAt, RemovalFrame, Unlinked, Ordered32, NeverCorrupt, Idle
<1>2. ASSUME NEW c \in Contexts, Begin(c) PROVE IInv'
  BY <1>2, InsertBeforeStep, InsertAfterStep, LinkOrderedStep, RemoveStep DEF Begin
<1>3. ASSUME NEW c \in Contexts, Continue(c) PROVE IInv'
  BY <1>3, WalkStep, LinkStep, UnlinkStep DEF Continue
<1> QED BY <1>1, <1>2, <1>3 DEF Next

LEMMA Inductive ==
  ASSUME ~Preemptible
  PROVE  Spec => []IInv
<1>1. IInv /\ [Next]_vars => IInv'
  BY NextStep
<1> QED BY <1>1, InitIInv, PTL DEF Spec

(* The registers and links always hold what their types say.               *)
THEOREM TypeCorrect ==
  ASSUME ~Preemptible
  PROVE  Spec => []TypeOK
<1>1. IInv => TypeOK
  BY DEF IInv
<1> QED BY <1>1, Inductive, PTL

(* Without interrupts inside its procedures the ring library keeps both    *)
(* directions of every ring in agreement, whatever sequence of calls is    *)
(* made, so that none of its sanity checks on neighbours ever fails.       *)
THEOREM RingsStaySound ==
  ASSUME ~Preemptible
  PROVE  Spec => [](LinksAgree /\ NeverCorrupt)
<1>1. IInv => LinksAgree /\ NeverCorrupt
  BY DEF IInv
<1> QED BY <1>1, Inductive, PTL

(* Under the same condition no node is ever in two rings, and a removed    *)
(* node points to itself again.                                            *)
THEOREM NodesStayApart ==
  ASSUME ~Preemptible
  PROVE  Spec => []OneRing
<1>1. IInv => OneRing
  BY DEF IInv
<1> QED BY <1>1, Inductive, PTL

(* Under the same condition a ring filled by link_ordered_32 is sorted.    *)
THEOREM ReadyRingSorted ==
  ASSUME ~Preemptible
  PROVE  Spec => []Ordered32
<1>1. IInv => Ordered32
  BY DEF IInv
<1> QED BY <1>1, Inductive, PTL

-----------------------------------------------------------------------------
(* The rings as sequences.                                                 *)
Follows(nx, r, s) == \A j \in 0 .. Len(s) : nx[NodeAt(r, s, j)] = NodeAt(r, s, j + 1)

(* R[r] has the members of ring r, each once, in the order of next.        *)
Linked(R) ==
  /\ R \in [Heads -> Seq(Members)]
  /\ \A r \in Heads :
       /\ Follows(next, r, R[r])
       /\ \A i, j \in 1 .. Len(R[r]) : R[r][i] = R[r][j] => i = j
       /\ \A m \in Members : owner[m] = r <=> \E j \in 1 .. Len(R[r]) : m = R[r][j]

(* The comparison of link_ordered, as its comments mean it: what it passes *)
(* over, and what it may stop at.                                          *)
Passes(r, other, k) == AbstractRings!Less(r, other, k)
Stops(r, other, k) == ~AbstractRings!Less(r, other, k) \/ AbstractRings!Carried(r, other, k)

(* A call that inserts has found a place between p and p + 1, and the      *)
(* members up to p are lower; when it goes on to link, the next one has    *)
(* stopped it.                                                             *)
Between(R, f, p) ==
  /\ f.ref = NodeAt(f.ring, R[f.ring], p) /\ f.at = NodeAt(f.ring, R[f.ring], p + 1)
  /\ Order[f.ring] # "none" =>
       /\ \A j \in 1 .. p : Passes(f.ring, key[R[f.ring][j]], key[f.node])
       /\ f.op = "link" /\ p < Len(R[f.ring]) =>
            Stops(f.ring, key[R[f.ring][p + 1]], key[f.node])

Inserting(R, c) ==
  /\ call[c].op = "walk" => Order[call[c].ring] # "none"
  /\ call[c].op \in {"walk", "link"} =>
       \E p \in 0 .. Len(R[call[c].ring]) : Between(R, call[c], p)

InOrder(R) == Linked(R) /\ \A c \in Contexts : Inserting(R, c)

LEMMA LeastOf ==
  ASSUME NEW B, B \subseteq Nat, B # {}
  PROVE  \E x \in B : \A y \in B : x <= y
<1> DEFINE Below == {ss \in Nat \X Nat : ss[1] < ss[2]}
<1>1. IsWellFoundedOn(Below, Nat)
  BY NatLessThanWellFounded DEF OpToRel
<1>2. PICK x \in B : \A y \in B : ~(<<y, x>> \in Below)
  BY <1>1, WFMin, Zenon
<1>3. ASSUME NEW y \in B
      PROVE  x <= y
  <2>1. x \in Nat /\ y \in Nat /\ <<y, x>> \in Nat \X Nat
    OBVIOUS
  <2>2. ~(<<y, x>>[1] < <<y, x>>[2])
    BY <1>2, <2>1, Zenon
  <2> QED BY <2>1, <2>2
<1> QED BY <1>3

LEMMA ChainPrefix ==
  ASSUME NEW nx, NEW r \in Heads, NEW s \in Seq(Members), NEW t \in Seq(Members),
         Follows(nx, r, s), Follows(nx, r, t)
  PROVE  Len(s) <= Len(t) /\ \A j \in 1 .. Len(s) : s[j] = t[j]
<1>1. r \notin Members
  BY RingAssumption
<1>2. \A j \in 0 .. Len(s) : j <= Len(t) => NodeAt(r, s, j) = NodeAt(r, t, j)
  <2> DEFINE B == {j \in 0 .. Len(s) : j <= Len(t) /\ NodeAt(r, s, j) # NodeAt(r, t, j)}
  <2>1. ASSUME B # {}
        PROVE  FALSE
    <3>1. B \subseteq Nat
      OBVIOUS
    <3>2. PICK x \in B : \A y \in B : x <= y
      BY <2>1, <3>1, LeastOf, Zenon
    <3>3. CASE x = 0
      BY <3>3 DEF NodeAt
    <3>4. CASE x # 0
      <4>1. /\ x - 1 \in 0 .. Len(s) /\ x - 1 \in 0 .. Len(t) /\ (x - 1) + 1 = x
            /\ ~(x <= x - 1)
        BY <3>4
      <4>2. PICK y \in 0 .. Len(s) : y = x - 1
        BY <4>1
      <4>3. y \notin B
        BY <3>2, <4>1, <4>2
      <4>4. NodeAt(r, s, y) = NodeAt(r, t, y)
        BY <4>1, <4>2, <4>3
      <4>5. NodeAt(r, s, y + 1) = NodeAt(r, t, y + 1)
        BY <4>1, <4>2, <4>4 DEF Follows
      <4> QED BY <4>1, <4>2, <4>5
    <3> QED BY <3>3, <3>4
  <2> QED BY <2>1
<1>3. Len(s) <= Len(t)
  <2>1. ASSUME ~(Len(s) <= Len(t))
        PROVE  FALSE
    <3>1. /\ Len(t) \in 0 .. Len(s) /\ Len(t) \in 0 .. Len(t)
          /\ Len(t) + 1 \in 1 .. Len(s) /\ Len(t) + 1 \notin 1 .. Len(t)
      BY <2>1
    <3>2. NodeAt(r, s, Len(t)) = NodeAt(r, t, Len(t))
      BY <1>2, <3>1
    <3>3. NodeAt(r, s, Len(t) + 1) = NodeAt(r, t, Len(t) + 1)
      BY <3>1, <3>2 DEF Follows
    <3>4. NodeAt(r, s, Len(t) + 1) \in Members /\ NodeAt(r, t, Len(t) + 1) = r
      BY <3>1 DEF NodeAt
    <3> QED BY <1>1, <3>3, <3>4
  <2> QED BY <2>1
<1>4. ASSUME NEW j \in 1 .. Len(s)
      PROVE  s[j] = t[j]
  <2>1. j \in 0 .. Len(s) /\ j \in 1 .. Len(t)
    BY <1>3
  <2> QED BY <1>2, <2>1 DEF NodeAt
<1> QED BY <1>3, <1>4

(* There is one way to follow next from a head and come back to it.        *)
LEMMA OneChain ==
  ASSUME NEW nx, NEW r \in Heads, NEW s \in Seq(Members), NEW t \in Seq(Members),
         Follows(nx, r, s), Follows(nx, r, t)
  PROVE  s = t
<1>1. Len(s) <= Len(t) /\ \A j \in 1 .. Len(s) : s[j] = t[j]
  BY ChainPrefix
<1>2. Len(t) <= Len(s)
  BY ChainPrefix
<1> QED BY <1>1, <1>2

(* A ring has no more members than there are.                              *)
LEMMA ShortChain ==
  ASSUME NEW s \in Seq(Members), \A i, j \in 1 .. Len(s) : s[i] = s[j] => i = j
  PROVE  s \in Chains
<1>1. s \in [1 .. Len(s) -> Members] /\ Len(s) \in Nat
  OBVIOUS
<1>2. s \in Injection(1 .. Len(s), Members)
  BY <1>1 DEF Injection, IsInjective
<1>3. IsFiniteSet(Members)
  BY RingAssumption
<1>4. Cardinality(1 .. Len(s)) <= Cardinality(Members)
  BY <1>2, <1>3, FS_Injection, Zenon
<1>5. Cardinality(1 .. Len(s)) = Len(s)
  <2>1. 1 \in Int /\ Len(s) \in Int
    BY <1>1
  <2>2. Cardinality(1 .. Len(s)) = IF 1 > Len(s) THEN 0 ELSE Len(s) - 1 + 1
    BY <2>1, FS_Interval
  <2> QED BY <1>1, <2>2
<1>6. Cardinality(Members) \in Nat
  BY <1>3, FS_CardinalityType
<1>7. Len(s) \in 0 .. Cardinality(Members)
  BY <1>1, <1>4, <1>5, <1>6
<1> QED BY <1>1, <1>7 DEF Chains

(* The members RingSeqs finds are those of R.                              *)
LEMMA Mapped ==
  ASSUME NEW R \in [Heads -> Seq(Members)], NEW nx,
         \A r \in Heads : /\ Follows(nx, r, R[r])
                          /\ \A i, j \in 1 .. Len(R[r]) : R[r][i] = R[r][j] => i = j
  PROVE  [r \in Heads |-> CHOOSE s \in Chains : Follows(nx, r, s)] = R
<1>1. ASSUME NEW r \in Heads
      PROVE  (CHOOSE s \in Chains : Follows(nx, r, s)) = R[r]
  <2>1. R[r] \in Seq(Members) /\ R[r] \in Chains /\ Follows(nx, r, R[r])
    BY ShortChain
  <2>2. Chains \subseteq Seq(Members)
    BY DEF Chains
  <2>3. \A s \in Chains : Follows(nx, r, s) => s = R[r]
    BY <2>1, <2>2, OneChain
  <2> QED BY <2>1, <2>3
<1> QED BY <1>1

LEMMA RingSeqsAre == ASSUME NEW R, Linked(R) PROVE RingSeqs = R
<1>1. RingSeqs = [r \in Heads |-> CHOOSE s \in Chains : Follows(next, r, s)]
  BY DEF RingSeqs, IsChain, Follows
<1>2. /\ R \in [Heads -> Seq(Members)]
      /\ \A r \in Heads : /\ Follows(next, r, R[r])
                          /\ \A i, j \in 1 .. Len(R[r]) : R[r][i] = R[r][j] => i = j
  BY DEF Linked
<1>3. [r \in Heads |-> CHOOSE s \in Chains : Follows(next, r, s)] = R
  BY <1>2, Mapped, Zenon
<1> QED BY <1>1, <1>3, Zenon

LEMMA RingSeqsBecome == ASSUME NEW R, Linked(R)' PROVE RingSeqs' = R
<1>1. RingSeqs' = [r \in Heads |-> CHOOSE s \in Chains : Follows(next', r, s)]
  BY DEF RingSeqs, IsChain, Follows
<1>2. /\ R \in [Heads -> Seq(Members)]
      /\ \A r \in Heads : /\ Follows(next', r, R[r])
                          /\ \A i, j \in 1 .. Len(R[r]) : R[r][i] = R[r][j] => i = j
  BY DEF Linked, Follows
<1>3. [r \in Heads |-> CHOOSE s \in Chains : Follows(next', r, s)] = R
  BY <1>2, Mapped, Zenon
<1> QED BY <1>1, <1>3, Zenon

-----------------------------------------------------------------------------
(* The effect of the stores of an insertion and of a removal on a chain.   *)

LEMMA JoinElements ==
  ASSUME NEW S, NEW a \in Seq(S), NEW b \in Seq(S)
  PROVE  /\ a \o b \in Seq(S)
         /\ Len(a \o b) = Len(a) + Len(b)
         /\ \A j \in 1 .. Len(a) : (a \o b)[j] = a[j]
         /\ \A j \in 1 .. Len(b) : (a \o b)[Len(a) + j] = b[j]
OBVIOUS

(* d is s with e after position p, or without position p.                  *)
Opened(d, s, p, e) ==
  /\ d \in Seq(Members) /\ Len(d) = Len(s) + 1
  /\ \A j \in 1 .. p : d[j] = s[j]
  /\ d[p + 1] = e
  /\ \A j \in p + 1 .. Len(s) : d[j + 1] = s[j]
Closed(d, s, p) ==
  /\ d \in Seq(Members) /\ Len(d) = Len(s) - 1
  /\ \A j \in 1 .. p - 1 : d[j] = s[j]
  /\ \A j \in p .. Len(s) - 1 : d[j] = s[j + 1]

LEMMA ElementsInserted ==
  ASSUME NEW s \in Seq(Members), NEW e \in Members, NEW p \in 0 .. Len(s),
         NEW d, d = AbstractRings!InsertAt(s, p + 1, e)
  PROVE  Opened(d, s, p, e)
<1> DEFINE a == SubSeq(s, 1, p)
           b == SubSeq(s, p + 1, Len(s))
<1>1. a \in Seq(Members) /\ Len(a) = p /\ \A j \in 1 .. p : a[j] = s[j]
  OBVIOUS
<1>2. b \in Seq(Members) /\ Len(b) = Len(s) - p /\ \A j \in 1 .. Len(s) - p : b[j] = s[p + j]
  OBVIOUS
<1>0. d = a \o <<e>> \o b
  <2>1. (p + 1) - 1 = p
    OBVIOUS
  <2> QED BY <2>1 DEF AbstractRings!InsertAt
<1> HIDE DEF a, b
<1>3. <<e>> \in Seq(Members) /\ Len(<<e>>) = 1 /\ <<e>>[1] = e
  OBVIOUS
<1> DEFINE c == a \o <<e>>
<1>4. /\ c \in Seq(Members) /\ Len(c) = p + 1
      /\ \A j \in 1 .. p : c[j] = s[j]
      /\ c[p + 1] = e
  BY <1>1, <1>3
<1>5. d = c \o b
  BY <1>0
<1> HIDE DEF c
<1>6. /\ d \in Seq(Members) /\ Len(d) = Len(c) + Len(b)
      /\ \A j \in 1 .. Len(c) : d[j] = c[j]
      /\ \A j \in 1 .. Len(b) : d[Len(c) + j] = b[j]
  <2>1. c \in Seq(Members) /\ b \in Seq(Members)
    BY <1>2, <1>4
  <2>2. /\ c \o b \in Seq(Members) /\ Len(c \o b) = Len(c) + Len(b)
        /\ \A j \in 1 .. Len(c) : (c \o b)[j] = c[j]
        /\ \A j \in 1 .. Len(b) : (c \o b)[Len(c) + j] = b[j]
    BY <2>1, JoinElements
  <2> QED BY <1>5, <2>2, Zenon
<1>7. ASSUME NEW j \in p + 1 .. Len(s)
      PROVE  d[j + 1] = s[j]
  <2>1. j - p \in 1 .. Len(s) - p /\ p + 1 + (j - p) = j + 1 /\ p + (j - p) = j
    OBVIOUS
  <2>2. PICK k \in 1 .. Len(s) - p : p + 1 + k = j + 1 /\ p + k = j
    BY <2>1, Zenon
  <2>3. d[p + 1 + k] = b[k] /\ b[k] = s[p + k]
    BY <1>2, <1>4, <1>6
  <2> QED BY <2>2, <2>3
<1>8. Len(d) = Len(s) + 1 /\ \A j \in 1 .. p + 1 : d[j] = c[j]
  BY <1>2, <1>4, <1>6
<1> QED BY <1>4, <1>6, <1>7, <1>8 DEF Opened

LEMMA ElementsRemoved ==
  ASSUME NEW s \in Seq(Members), NEW p \in 1 .. Len(s),
         NEW d, d = AbstractRings!RemoveAt(s, p)
  PROVE  Closed(d, s, p)
<1> DEFINE a == SubSeq(s, 1, p - 1)
           b == SubSeq(s, p + 1, Len(s))
<1>1. a \in Seq(Members) /\ Len(a) = p - 1 /\ \A j \in 1 .. p - 1 : a[j] = s[j]
  OBVIOUS
<1>2. b \in Seq(Members) /\ Len(b) = Len(s) - p /\ \A j \in 1 .. Len(s) - p : b[j] = s[p + j]
  OBVIOUS
<1>0. d = a \o b
  BY DEF AbstractRings!RemoveAt
<1> HIDE DEF a, b
<1>3. /\ d \in Seq(Members) /\ Len(d) = Len(a) + Len(b)
      /\ \A j \in 1 .. Len(a) : d[j] = a[j]
      /\ \A j \in 1 .. Len(b) : d[Len(a) + j] = b[j]
  <2>1. a \in Seq(Members) /\ b \in Seq(Members)
    BY <1>1, <1>2
  <2>2. /\ a \o b \in Seq(Members) /\ Len(a \o b) = Len(a) + Len(b)
        /\ \A j \in 1 .. Len(a) : (a \o b)[j] = a[j]
        /\ \A j \in 1 .. Len(b) : (a \o b)[Len(a) + j] = b[j]
    BY <2>1, JoinElements
  <2> QED BY <1>0, <2>2, Zenon
<1>4. ASSUME NEW j \in p .. Len(s) - 1
      PROVE  d[j] = s[j + 1]
  <2>1. j - p + 1 \in 1 .. Len(s) - p /\ p - 1 + (j - p + 1) = j /\ p + (j - p + 1) = j + 1
    OBVIOUS
  <2>2. PICK k \in 1 .. Len(s) - p : p - 1 + k = j /\ p + k = j + 1
    BY <2>1, Zenon
  <2>3. d[p - 1 + k] = b[k] /\ b[k] = s[p + k]
    BY <1>1, <1>2, <1>3
  <2> QED BY <2>2, <2>3
<1>5. Len(d) = Len(s) - 1 /\ \A j \in 1 .. p - 1 : d[j] = s[j]
  BY <1>1, <1>2, <1>3
<1> QED BY <1>3, <1>4, <1>5 DEF Closed

LEMMA NodesOfChain ==
  ASSUME NEW r \in Heads, NEW s \in Seq(Members)
  PROVE  /\ \A j \in Nat : NodeAt(r, s, j) \in Nodes
         /\ NodeAt(r, s, 0) = r /\ NodeAt(r, s, Len(s) + 1) = r
         /\ \A j \in 1 .. Len(s) : NodeAt(r, s, j) = s[j] /\ s[j] \in Members /\ s[j] # r
BY RingAssumption DEF NodeAt, Nodes

(* The node after position p gets a new neighbour.                         *)
LEMMA ChainInserted ==
  ASSUME NEW nx, NEW ny, NEW r \in Heads, NEW s \in Seq(Members), Follows(nx, r, s),
         \A i, j \in 1 .. Len(s) : s[i] = s[j] => i = j,
         NEW e \in Members, \A j \in 1 .. Len(s) : s[j] # e,
         NEW p \in 0 .. Len(s), NEW d, d = AbstractRings!InsertAt(s, p + 1, e),
         ny[NodeAt(r, s, p)] = e, ny[e] = NodeAt(r, s, p + 1),
         \A n \in Nodes \ {e, NodeAt(r, s, p)} : ny[n] = nx[n]
  PROVE  Follows(ny, r, d)
<1>1. /\ d \in Seq(Members) /\ Len(d) = Len(s) + 1
      /\ \A j \in 1 .. p : d[j] = s[j]
      /\ d[p + 1] = e
      /\ \A j \in p + 1 .. Len(s) : d[j + 1] = s[j]
  <2>1. Opened(d, s, p, e)
    BY ElementsInserted, Zenon
  <2> QED BY <2>1 DEF Opened
<1>2. r # e /\ r \in Nodes
  BY RingAssumption DEF Nodes
<1>3. \A j \in 0 .. p : NodeAt(r, d, j) = NodeAt(r, s, j)
  BY <1>1 DEF NodeAt
<1>4. NodeAt(r, d, p + 1) = e
  BY <1>1 DEF NodeAt
<1>5. \A j \in p + 1 .. Len(s) + 1 : NodeAt(r, d, j + 1) = NodeAt(r, s, j)
  BY <1>1 DEF NodeAt
<1>6. ASSUME NEW j \in 0 .. Len(s), j # p
      PROVE  ny[NodeAt(r, s, j)] = NodeAt(r, s, j + 1)
  <2>1. NodeAt(r, s, j) # NodeAt(r, s, p) /\ NodeAt(r, s, j) # e
    <3>1. CASE j = 0
      BY <1>2, <1>6, <3>1, NodesOfChain DEF NodeAt
    <3>2. CASE p = 0
      BY <1>2, <1>6, <3>2, NodesOfChain DEF NodeAt
    <3>3. CASE j # 0 /\ p # 0
      BY <1>6, <3>3 DEF NodeAt
    <3> QED BY <3>1, <3>2, <3>3
  <2>2. NodeAt(r, s, j) \in Nodes
    BY NodesOfChain
  <2> QED BY <2>1, <2>2 DEF Follows
<1>7. ASSUME NEW j \in 0 .. Len(d)
      PROVE  ny[NodeAt(r, d, j)] = NodeAt(r, d, j + 1)
  <2>1. CASE j < p
    <3>1. j \in 0 .. Len(s) /\ j # p /\ j \in 0 .. p /\ j + 1 \in 0 .. p
      BY <2>1
    <3> QED BY <1>3, <1>6, <3>1
  <2>2. CASE j = p
    BY <1>3, <1>4, <2>2
  <2>3. CASE j = p + 1
    <3>1. p + 1 \in p + 1 .. Len(s) + 1
      OBVIOUS
    <3> QED BY <1>4, <1>5, <2>3, <3>1
  <2>4. CASE j > p + 1
    <3>1. PICK k \in 0 .. Len(s) : j = k + 1 /\ k # p /\ k \in p + 1 .. Len(s) + 1 /\ k + 1 \in p + 1 .. Len(s) + 1
      <4>1. /\ j - 1 \in 0 .. Len(s) /\ j = (j - 1) + 1 /\ j - 1 # p
            /\ j - 1 \in p + 1 .. Len(s) + 1 /\ (j - 1) + 1 \in p + 1 .. Len(s) + 1
        BY <1>1, <2>4
      <4> QED BY <4>1
    <3>2. NodeAt(r, d, k + 1) = NodeAt(r, s, k) /\ NodeAt(r, d, k + 1 + 1) = NodeAt(r, s, k + 1)
      BY <1>5, <3>1
    <3> QED BY <1>6, <3>1, <3>2
  <2> QED BY <2>1, <2>2, <2>3, <2>4
<1> QED BY <1>7 DEF Follows

LEMMA ChainRemoved ==
  ASSUME NEW nx, NEW ny, NEW r \in Heads, NEW s \in Seq(Members), Follows(nx, r, s),
         \A i, j \in 1 .. Len(s) : s[i] = s[j] => i = j,
         NEW p \in 1 .. Len(s), NEW d, d = AbstractRings!RemoveAt(s, p),
         ny[NodeAt(r, s, p - 1)] = NodeAt(r, s, p + 1),
         \A n \in Nodes \ {s[p], NodeAt(r, s, p - 1)} : ny[n] = nx[n]
  PROVE  Follows(ny, r, d)
<1>1. /\ d \in Seq(Members) /\ Len(d) = Len(s) - 1
      /\ \A j \in 1 .. p - 1 : d[j] = s[j]
      /\ \A j \in p .. Len(s) - 1 : d[j] = s[j + 1]
  <2>1. Closed(d, s, p)
    BY ElementsRemoved, Zenon
  <2> QED BY <2>1 DEF Closed
<1>2. r \notin Members /\ r \in Nodes
  BY RingAssumption DEF Nodes
<1>3. \A j \in 0 .. p - 1 : NodeAt(r, d, j) = NodeAt(r, s, j)
  BY <1>1 DEF NodeAt
<1>4. \A j \in p .. Len(s) : NodeAt(r, d, j) = NodeAt(r, s, j + 1)
  BY <1>1 DEF NodeAt
<1>5. ASSUME NEW j \in 0 .. Len(s), j # p, j # p - 1
      PROVE  ny[NodeAt(r, s, j)] = NodeAt(r, s, j + 1)
  <2>1. NodeAt(r, s, j) # NodeAt(r, s, p - 1) /\ NodeAt(r, s, j) # s[p]
    <3>1. CASE j = 0
      BY <1>2, <1>5, <3>1 DEF NodeAt
    <3>2. CASE p - 1 = 0
      BY <1>2, <1>5, <3>2 DEF NodeAt
    <3>3. CASE j # 0 /\ p - 1 # 0
      <4>1. j \in 1 .. Len(s) /\ p - 1 \in 1 .. Len(s)
        BY <3>3
      <4>2. NodeAt(r, s, j) = s[j] /\ NodeAt(r, s, p - 1) = s[p - 1]
        BY <4>1 DEF NodeAt
      <4> QED BY <1>5, <4>1, <4>2
    <3> QED BY <3>1, <3>2, <3>3
  <2>2. NodeAt(r, s, j) \in Nodes
    BY NodesOfChain
  <2> QED BY <2>1, <2>2 DEF Follows
<1>6. ASSUME NEW j \in 0 .. Len(d)
      PROVE  ny[NodeAt(r, d, j)] = NodeAt(r, d, j + 1)
  <2>1. CASE j < p - 1
    <3>1. j \in 0 .. Len(s) /\ j # p /\ j # p - 1 /\ j \in 0 .. p - 1 /\ j + 1 \in 0 .. p - 1
      BY <2>1
    <3> QED BY <1>3, <1>5, <3>1
  <2>2. CASE j = p - 1
    <3>1. j \in 0 .. p - 1 /\ j + 1 \in p .. Len(s) /\ j + 1 = p
      BY <2>2
    <3> QED BY <1>3, <1>4, <2>2, <3>1
  <2>3. CASE j > p - 1
    <3>1. j \in p .. Len(s) /\ j + 1 \in p .. Len(s) /\ j + 1 \in 0 .. Len(s) /\ j + 1 # p /\ j + 1 # p - 1
      BY <1>1, <2>3
    <3> QED BY <1>4, <1>5, <3>1
  <2> QED BY <2>1, <2>2, <2>3
<1> QED BY <1>6 DEF Follows

-----------------------------------------------------------------------------
(* Every step of ring.asm is a step of the sequences, or none.             *)

AbstractStep == [AbstractRings!Next]_<<RingSeqs, key>>

LEMMA RingOfNode ==
  ASSUME NEW R, Linked(R), NEW r \in Heads, NEW j \in Nat
  PROVE  RingOf(NodeAt(r, R[r], j)) = r
<1>1. R[r] \in Seq(Members)
  BY DEF Linked
<1>2. CASE j \in 1 .. Len(R[r])
  BY <1>1, <1>2, RingAssumption DEF NodeAt, RingOf, Linked
<1>3. CASE j \notin 1 .. Len(R[r])
  BY <1>3 DEF NodeAt, RingOf
<1> QED BY <1>2, <1>3

LEMMA HasPlace ==
  ASSUME NEW R, Linked(R), NEW n \in Nodes, NEW r \in Heads, RingOf(n) = r
  PROVE  \E p \in 0 .. Len(R[r]) : n = NodeAt(r, R[r], p) /\ next[n] = NodeAt(r, R[r], p + 1)
<1>1. R[r] \in Seq(Members) /\ Follows(next, r, R[r])
  BY DEF Linked
<1>2. \E p \in 0 .. Len(R[r]) : n = NodeAt(r, R[r], p)
  <2>1. CASE n \in Heads
    BY <1>1, <2>1 DEF RingOf, NodeAt
  <2>2. CASE n \notin Heads
    <3>1. PICK j \in 1 .. Len(R[r]) : n = R[r][j]
      BY <2>2 DEF Linked, RingOf, Nodes
    <3> QED BY <1>1, <3>1 DEF NodeAt
  <2> QED BY <2>1, <2>2
<1> QED BY <1>1, <1>2 DEF Follows

LEMMA NotInChains ==
  ASSUME NEW R, Linked(R), NEW i \in Members, next[i] = i
  PROVE  \A r \in Heads : \A j \in 1 .. Len(R[r]) : R[r][j] # i
<1> SUFFICES ASSUME NEW r \in Heads, NEW j \in 1 .. Len(R[r]), R[r][j] = i
             PROVE  FALSE
  OBVIOUS
<1>1. R[r] \in Seq(Members) /\ Follows(next, r, R[r]) /\ r # i
  BY RingAssumption DEF Linked
<1>2. next[i] = NodeAt(r, R[r], j + 1)
  BY <1>1 DEF Follows, NodeAt
<1>3. CASE j + 1 \in 1 .. Len(R[r])
  <2>1. R[r][j + 1] = R[r][j]
    BY <1>2, <1>3 DEF NodeAt
  <2>2. j + 1 = j
    BY <1>3, <2>1 DEF Linked
  <2> QED BY <1>1, <2>2
<1>4. CASE j + 1 \notin 1 .. Len(R[r])
  BY <1>1, <1>2, <1>4 DEF NodeAt
<1> QED BY <1>3, <1>4

LEMMA LinkedKept ==
  ASSUME NEW R, Linked(R), UNCHANGED <<next, owner>>
  PROVE  Linked(R)'
<1>1. \A r \in Heads : Follows(next, r, R[r])'
  BY DEF Linked
<1> QED BY <1>1 DEF Linked

LEMMA NothingMoved ==
  ASSUME NEW R, InOrder(R), UNCHANGED <<next, owner, key>>,
         \A c \in Contexts : Inserting(R, c)'
  PROVE  InOrder(R)' /\ AbstractStep
<1>1. Linked(R)
  BY DEF InOrder
<1>2. Linked(R)'
  BY <1>1, LinkedKept
<1>4. RingSeqs = R /\ RingSeqs' = R
  BY <1>1, <1>2, RingSeqsAre, RingSeqsBecome
<1> QED BY <1>2, <1>4 DEF InOrder, AbstractStep

(* A call in which nothing is inserted asks nothing of the chains.         *)
LEMMA NotInserting ==
  ASSUME NEW R, NEW c \in Contexts, call'[c].op \notin {"walk", "link"}
  PROVE  Inserting(R, c)'
BY DEF Inserting

LEMMA IdleCall ==
  ASSUME NEW c \in Contexts
  PROVE  Idle(c) => call[c].op = "idle"
BY DEF Idle, NoCall

LEMMA AllIdle ==
  ASSUME NEW c \in Contexts, NEW i \in Members, MayCall(c, i), ~Preemptible
  PROVE  \A d \in Contexts : Idle(d) /\ call[d].op = "idle"
<1>1. \A d \in Contexts : Idle(d)
  BY DEF MayCall, Runs, Contexts
<1> QED BY <1>1, IdleCall

LEMMA ReturnMoves ==
  ASSUME IInv, NEW R, InOrder(R), NEW c \in Contexts, NEW i \in Members, NEW x, MayCall(c, i),
         ~Preemptible, Return(c, x)
  PROVE  InOrder(R)' /\ AbstractStep
<1>1. call'[c].op = "idle" /\ \A d \in Contexts \ {c} : call'[d] = call[d]
  BY DEF Return, IInv, TypeOK, NoCall
<1>2. \A d \in Contexts : call'[d].op = "idle"
  BY <1>1, AllIdle
<1>3. \A d \in Contexts : Inserting(R, d)'
  BY <1>2, NotInserting
<1> QED BY <1>3, NothingMoved DEF Return

LEMMA InsertMoves ==
  ASSUME IInv, NEW R, InOrder(R), NEW c \in Contexts, NEW i \in Members, MayCall(c, i),
         ~Preemptible, NEW r \in Heads, NEW a \in Nodes, NEW p \in Nodes,
         Order[r] = "none", RingOf(p) = r, next[p] = a,
         Enter(c, "link", i, r, a, p), UNCHANGED <<next, previous, key, owner>>
  PROVE  InOrder(R)' /\ AbstractStep
<1> DEFINE f == [op |-> "link", node |-> i, ring |-> r, at |-> a, ref |-> p]
<1>1. call'[c] = f /\ \A d \in Contexts \ {c} : call'[d] = call[d]
  BY DEF Enter, IInv, TypeOK
<1>2. \A d \in Contexts \ {c} : Inserting(R, d)'
  BY <1>1, AllIdle, NotInserting
<1>3. PICK q \in 0 .. Len(R[r]) : p = NodeAt(r, R[r], q) /\ a = NodeAt(r, R[r], q + 1)
  BY HasPlace DEF InOrder
<1>4. Between(R, f, q)'
  BY <1>3 DEF Between
<1>5. Inserting(R, c)'
  BY <1>1, <1>4 DEF Inserting
<1> QED BY <1>2, <1>5, NothingMoved

LEMMA InsertBeforeMoves ==
  ASSUME IInv, NEW R, InOrder(R), NEW c \in Contexts, NEW i \in Members,
         NEW r \in References \ {i}, ~Preemptible, InsertBefore(c, i, r)
  PROVE  InOrder(R)' /\ AbstractStep
<1>1. /\ r \in Nodes /\ previous[r] \in Nodes /\ next[previous[r]] = r
      /\ RingOf(previous[r]) = RingOf(r)
  BY DEF References, IInv, TypeOK, LinksAgree, OneRing
<1>2. RingOf(r) \in Heads /\ Order[RingOf(r)] = "none"
  BY <1>1, RingAssumption DEF References, RingOf, IInv, TypeOK, Nodes
<1>3. CASE ~Unlinked(i)
  BY <1>3, ReturnMoves DEF InsertBefore
<1>4. CASE Unlinked(i)
  BY <1>1, <1>2, <1>4, InsertMoves DEF InsertBefore
<1> QED BY <1>3, <1>4

LEMMA InsertAfterMoves ==
  ASSUME IInv, NEW R, InOrder(R), NEW c \in Contexts, NEW i \in Members,
         NEW r \in References \ {i}, ~Preemptible, InsertAfter(c, i, r)
  PROVE  InOrder(R)' /\ AbstractStep
<1>1. r \in Nodes /\ next[r] \in Nodes /\ previous[next[r]] = r
  BY DEF References, IInv, TypeOK, LinksAgree
<1>2. RingOf(r) \in Heads /\ Order[RingOf(r)] = "none"
  BY <1>1, RingAssumption DEF References, RingOf, IInv, TypeOK, Nodes
<1>3. CASE ~Unlinked(i)
  BY <1>3, ReturnMoves DEF InsertAfter
<1>4. CASE Unlinked(i)
  BY <1>1, <1>2, <1>4, InsertMoves DEF InsertAfter
<1> QED BY <1>3, <1>4

LEMMA RemoveMoves ==
  ASSUME IInv, NEW R, InOrder(R), NEW c \in Contexts, NEW i \in Members, ~Preemptible,
         Remove(c, i)
  PROVE  InOrder(R)' /\ AbstractStep
<1>1. /\ i \in Nodes /\ next[i] \in Nodes /\ previous[i] \in Nodes
      /\ previous[next[i]] = i /\ next[previous[i]] = i
  BY DEF IInv, TypeOK, LinksAgree, Nodes
<1>2. CASE next[i] = i
  BY <1>1, <1>2, ReturnMoves DEF Remove
<1>3. CASE next[i] # i
  <2> DEFINE f == [op |-> "unlink", node |-> i, ring |-> owner[i], at |-> next[i],
                   ref |-> previous[i]]
  <2>1. /\ MayCall(c, i) /\ call' = [call EXCEPT ![c] = f]
        /\ UNCHANGED <<next, previous, key, owner>>
    BY <1>1, <1>3 DEF Remove, Enter
  <2>2. call'[c] = f /\ \A d \in Contexts \ {c} : call'[d] = call[d]
    BY <2>1 DEF IInv, TypeOK
  <2>3. \A d \in Contexts : call'[d].op \notin {"walk", "link"}
    BY <2>1, <2>2, AllIdle
  <2> QED BY <2>1, <2>3, NotInserting, NothingMoved
<1> QED BY <1>2, <1>3

(* The code's comparison and the one its comments mean.                    *)
LEMMA Comparisons ==
  ASSUME NEW r \in Heads, Order[r] # "none", NEW j \in Key, NEW k \in Key
  PROVE  IF StopsAt(r, k, j) THEN Stops(r, j, k) ELSE Passes(r, j, k)
<1>1. j[1] \in Nat /\ j[2] \in Nat /\ k[1] \in Nat /\ k[2] \in Nat
  BY KeyWords
<1>2. Order[r] = "w32" \/ Order[r] = "w64"
  BY RingAssumption
<1>3. CASE Order[r] = "w64"
  BY <1>1, <1>3 DEF StopsAt, StopsAt32, Stops, Passes, AbstractRings!Less, AbstractRings!Carried
<1>4. CASE Order[r] = "w32"
  BY <1>1, <1>4 DEF StopsAt, StopsAt32, Stops, Passes, AbstractRings!Less, AbstractRings!Carried
<1> QED BY <1>2, <1>3, <1>4

LEMMA LinkOrderedMoves ==
  ASSUME IInv, NEW R, InOrder(R), NEW c \in Contexts, NEW i \in Members, NEW r \in Heads,
         NEW k \in KeysOf[r], ~Preemptible, LinkOrdered(c, i, r, k)
  PROVE  InOrder(R)' /\ AbstractStep
<1>1. CASE ~Unlinked(i)
  BY <1>1, ReturnMoves DEF LinkOrdered
<1>2. CASE Unlinked(i)
  <2> DEFINE f == [op |-> "walk", node |-> i, ring |-> r, at |-> next[r], ref |-> r]
  <2>1. /\ MayCall(c, i) /\ Order[r] # "none" /\ next[i] = i
        /\ call' = [call EXCEPT ![c] = f]
        /\ key' = [key EXCEPT ![i] = k] /\ UNCHANGED <<next, previous, owner>>
    BY <1>2 DEF LinkOrdered, Enter, Unlinked
  <2>2. call'[c] = f /\ \A d \in Contexts \ {c} : call'[d] = call[d]
    BY <2>1 DEF IInv, TypeOK
  <2>3. key'[i] = k /\ \A m \in Members \ {i} : key'[m] = key[m]
    BY <2>1 DEF IInv, TypeOK
  <2>4. Linked(R) /\ R \in [Heads -> Seq(Members)]
    BY DEF InOrder, Linked
  <2>5. \A h \in Heads : \A j \in 1 .. Len(R[h]) : R[h][j] \in Members \ {i}
    <3>1. \A h \in Heads : \A j \in 1 .. Len(R[h]) : R[h][j] # i
      BY <2>1, <2>4, NotInChains
    <3>2. \A h \in Heads : R[h] \in Seq(Members)
      BY <2>4
    <3>3. \A h \in Heads : \A j \in 1 .. Len(R[h]) : R[h][j] \in Members
      BY <3>2
    <3> QED BY <3>1, <3>3
  <2>6. Linked(R)'
    BY <2>1, <2>4, LinkedKept
  <2>8. \A d \in Contexts \ {c} : Inserting(R, d)'
    BY <2>1, <2>2, AllIdle, NotInserting
  <2>9. Between(R, f, 0)'
    <3>1. R[r] \in Seq(Members) /\ Follows(next, r, R[r])
      BY <2>4 DEF Linked
    <3>2. r = NodeAt(r, R[r], 0) /\ next[r] = NodeAt(r, R[r], 0 + 1)
      <4>1. r = NodeAt(r, R[r], 0)
        BY DEF NodeAt
      <4>2. 0 \in 0 .. Len(R[r])
        BY <3>1
      <4> QED BY <3>1, <4>1, <4>2 DEF Follows
    <3> QED BY <2>1, <2>3, <3>2 DEF Between
  <2>10. Inserting(R, c)'
    <3>1. 0 \in 0 .. Len(R[r])
      BY <2>4
    <3> QED BY <2>1, <2>2, <2>9, <3>1 DEF Inserting
  <2>11. RingSeqs = R /\ RingSeqs' = R
    BY <2>4, <2>6, RingSeqsAre, RingSeqsBecome
  <2>12. AbstractRings!Rekey(i)
    <3>1. AbstractRings!Free(i)
      <4>1. \A h \in Heads : i \notin AbstractRings!ToSet(R[h])
        BY <2>4, <2>5 DEF AbstractRings!ToSet
      <4> QED BY <2>11, <4>1 DEF AbstractRings!Free
    <3> QED BY <2>1, <2>11, <3>1 DEF AbstractRings!Rekey
  <2>13. AbstractStep
    BY <2>12 DEF AbstractStep, AbstractRings!Next
  <2> QED BY <2>6, <2>8, <2>10, <2>13 DEF InOrder
<1> QED BY <1>1, <1>2

LEMMA WalkMoves ==
  ASSUME IInv, NEW R, InOrder(R), NEW c \in Contexts, Walk(c)
  PROVE  InOrder(R)' /\ AbstractStep
<1> DEFINE f == call[c]
<1>1. PICK i \in Members, r \in Heads, a \in Nodes, p \in Nodes :
        f = [op |-> "walk", node |-> i, ring |-> r, at |-> a, ref |-> p]
  BY DEF IInv, TypeOK, Walk, Frame, NoCall
<1>2. previous[a] = p /\ UNCHANGED <<next, previous, key, owner, result>>
  BY <1>1 DEF IInv, FrameInv, Walk, InsertionFrame
<1>3. \A d \in Contexts \ {c} : call'[d] = call[d] /\ call[d].op = "idle"
  BY <1>1, IdleCall DEF IInv, OneCall, Contexts, Idle, NoCall, Walk, TypeOK
<1>4. \A d \in Contexts \ {c} : Inserting(R, d)'
  BY <1>3, NotInserting
<1> DEFINE s == R[r]
<1>5. /\ s \in Seq(Members) /\ Order[r] # "none" /\ r \notin Members
      /\ key[i] \in Key /\ \A j \in 1 .. Len(s) : key[s[j]] \in Key
  <2>1. s \in Seq(Members)
    BY DEF InOrder, Linked
  <2>2. Order[r] # "none"
    BY <1>1 DEF InOrder, Inserting
  <2>3. key \in [Members -> Key]
    BY DEF IInv, TypeOK
  <2>4. \A j \in 1 .. Len(s) : s[j] \in Members
    BY <2>1
  <2>5. r \notin Members
    BY RingAssumption
  <2> QED BY <2>1, <2>2, <2>3, <2>4, <2>5
<1>6. PICK q \in 0 .. Len(s) :
        /\ p = NodeAt(r, s, q) /\ a = NodeAt(r, s, q + 1)
        /\ \A j \in 1 .. q : Passes(r, key[s[j]], key[i])
  <2>1. Inserting(R, c)
    BY DEF InOrder
  <2>2. \E q \in 0 .. Len(s) : Between(R, f, q)
    BY <1>1, <2>1 DEF Inserting
  <2>3. PICK q \in 0 .. Len(s) : Between(R, f, q)
    BY <2>2
  <2>4. /\ p = NodeAt(r, s, q) /\ a = NodeAt(r, s, q + 1)
        /\ \A j \in 1 .. q : Passes(r, key[s[j]], key[i])
    BY <1>1, <1>5, <2>3 DEF Between
  <2> QED BY <2>4
<1> HIDE DEF s
<1>7. a = NodeAt(r, s, q + 1) /\ (q + 1 \in 1 .. Len(s) => a = s[q + 1] /\ a # r /\ a \in Members)
      /\ (q = Len(s) => a = r)
  BY <1>5, <1>6 DEF NodeAt
<1>8. CASE a = r \/ (a \in Members /\ StopsAt(r, key[i], key[a]))
  <2> DEFINE g == [op |-> "link", node |-> i, ring |-> r, at |-> a, ref |-> p]
  <2>1. call'[c] = g
    BY <1>1, <1>2, <1>8 DEF Walk, IInv, TypeOK
  <2>2. ASSUME q < Len(s)
        PROVE  Stops(r, key[s[q + 1]], key[i])
    <3>1. q + 1 \in 1 .. Len(s)
      BY <2>2
    <3>2. StopsAt(r, key[i], key[a]) /\ a = s[q + 1]
      BY <1>7, <1>8, <3>1
    <3> QED BY <1>5, <3>1, <3>2, Comparisons
  <2>3. Between(R, g, q)'
    BY <1>2, <1>6, <2>2 DEF Between, s
  <2>4. Inserting(R, c)'
    BY <2>1, <2>3 DEF Inserting, s
  <2> QED BY <1>2, <1>4, <2>4, NothingMoved
<1>9. CASE ~(a = r \/ (a \in Members /\ StopsAt(r, key[i], key[a])))
  <2> DEFINE g == [op |-> "walk", node |-> i, ring |-> r, at |-> next[a], ref |-> a]
  <2>1. call'[c] = g
    BY <1>1, <1>2, <1>9 DEF Walk, IInv, TypeOK
  <2>2. q + 1 \in 1 .. Len(s) /\ q + 1 \in 0 .. Len(s)
    BY <1>5, <1>7, <1>9
  <2>3. Passes(r, key[a], key[i])
    <3>1. ~StopsAt(r, key[i], key[a]) /\ key[a] \in Key
      BY <1>5, <1>7, <1>9, <2>2
    <3> QED BY <1>5, <3>1, Comparisons
  <2>4. \A j \in 1 .. q + 1 : Passes(r, key[s[j]], key[i])
    <3>1. \A j \in 1 .. q + 1 : j = q + 1 \/ j \in 1 .. q
      OBVIOUS
    <3> QED BY <1>6, <1>7, <2>2, <2>3, <3>1
  <2>5. next[a] = NodeAt(r, s, q + 1 + 1)
    <3>1. Follows(next, r, s)
      BY DEF InOrder, Linked, s
    <3> QED BY <1>7, <2>2, <3>1 DEF Follows
  <2>6. Between(R, g, q + 1)'
    BY <1>2, <1>6, <1>7, <2>4, <2>5 DEF Between, s
  <2>7. Inserting(R, c)'
    BY <1>2, <1>5, <2>1, <2>2, <2>6 DEF Inserting, s
  <2> QED BY <1>2, <1>4, <2>7, NothingMoved
<1> QED BY <1>8, <1>9

LEMMA LinkMoves ==
  ASSUME IInv, NEW R, InOrder(R), NEW c \in Contexts, Link(c)
  PROVE  (\E Q : InOrder(Q)' /\ AbstractStep)
<1> DEFINE f == call[c]
<1>1. PICK i \in Members, r \in Heads, a \in Nodes, p \in Nodes :
        f = [op |-> "link", node |-> i, ring |-> r, at |-> a, ref |-> p]
  BY DEF IInv, TypeOK, Link, Frame, NoCall
<1>2. /\ next' = [next EXCEPT ![i] = a, ![p] = i]
      /\ owner' = [owner EXCEPT ![i] = r]
      /\ call' = [call EXCEPT ![c] = NoCall]
      /\ key' = key
  BY <1>1 DEF Link
<1>3. /\ next[i] = i /\ p # i /\ RingOf(p) = r /\ i \in Nodes /\ i \notin Heads
  BY <1>1, RingAssumption DEF IInv, FrameInv, Link, InsertionFrame, Unlinked, Nodes
<1>4. /\ next'[p] = i /\ next'[i] = a /\ \A n \in Nodes \ {i, p} : next'[n] = next[n]
      /\ owner'[i] = r /\ \A m \in Members \ {i} : owner'[m] = owner[m]
  BY <1>1, <1>2, <1>3 DEF IInv, TypeOK
<1>5. Linked(R) /\ R \in [Heads -> Seq(Members)] /\ R[r] \in Seq(Members)
  BY DEF InOrder, Linked
<1>0. PICK s \in Seq(Members) : s = R[r]
  BY <1>5
<1>6. \A h \in Heads : \A j \in 1 .. Len(R[h]) : R[h][j] # i
  BY <1>3, <1>5, <1>0, NotInChains
<1>7. PICK q \in 0 .. Len(s) :
        /\ p = NodeAt(r, s, q) /\ a = NodeAt(r, s, q + 1)
        /\ Order[r] # "none" =>
             /\ \A j \in 1 .. q : Passes(r, key[s[j]], key[i])
             /\ q < Len(s) => Stops(r, key[s[q + 1]], key[i])
  <2>1. Inserting(R, c)
    BY DEF InOrder
  <2>2. \E q \in 0 .. Len(s) : Between(R, f, q)
    BY <1>0, <1>1, <2>1 DEF Inserting
  <2>3. PICK q \in 0 .. Len(s) : Between(R, f, q)
    BY <2>2
  <2>4. /\ p = NodeAt(r, s, q) /\ a = NodeAt(r, s, q + 1)
        /\ Order[r] # "none" =>
             /\ \A j \in 1 .. q : Passes(r, key[s[j]], key[i])
             /\ q < Len(s) => Stops(r, key[s[q + 1]], key[i])
    BY <1>0, <1>1, <2>3 DEF Between
  <2> QED BY <2>4
<1>8. PICK d : d = AbstractRings!InsertAt(s, q + 1, i)
  OBVIOUS
<1>9. Opened(d, s, q, i)
  BY <1>5, <1>0, <1>8, ElementsInserted, Zenon
<1>10. /\ d \in Seq(Members) /\ Len(d) = Len(s) + 1
       /\ \A j \in 1 .. q : d[j] = s[j]
       /\ d[q + 1] = i
       /\ \A j \in q + 1 .. Len(s) : d[j + 1] = s[j]
  BY <1>9 DEF Opened
<1>11. PICK Q : Q = [R EXCEPT ![r] = d]
  OBVIOUS
<1>12. Q \in [Heads -> Seq(Members)] /\ Q[r] = d /\ \A h \in Heads \ {r} : Q[h] = R[h]
  BY <1>5, <1>0, <1>10, <1>11
(* Where the elements of d are in the old chain. *)
<1>13. \A j \in 1 .. Len(d) : \/ j = q + 1
                              \/ j \in 1 .. q /\ j \in 1 .. Len(s)
                              \/ \E l \in q + 1 .. Len(s) : j = l + 1
  <2>1. ASSUME NEW j \in 1 .. Len(d)
        PROVE  \/ j = q + 1
               \/ j \in 1 .. q /\ j \in 1 .. Len(s)
               \/ \E l \in q + 1 .. Len(s) : j = l + 1
    <3>1. j <= q => j \in 1 .. q /\ j \in 1 .. Len(s)
      OBVIOUS
    <3>2. j > q + 1 => j - 1 \in q + 1 .. Len(s) /\ j = (j - 1) + 1
      BY <1>10
    <3>3. j <= q \/ j = q + 1 \/ j > q + 1
      OBVIOUS
    <3> QED BY <3>1, <3>2, <3>3, Zenon
  <2> QED BY <2>1, Zenon
<1>14. Follows(next', r, d)
  <2>1. Follows(next, r, s) /\ \A j, l \in 1 .. Len(s) : s[j] = s[l] => j = l
    BY <1>5, <1>0 DEF Linked
  <2>2. next'[NodeAt(r, s, q)] = i /\ next'[i] = NodeAt(r, s, q + 1)
    BY <1>4, <1>7
  <2>3. \A n \in Nodes \ {i, NodeAt(r, s, q)} : next'[n] = next[n]
    BY <1>4, <1>7
  <2>4. \A j \in 1 .. Len(s) : s[j] # i
    BY <1>0, <1>6
  <2> QED BY <1>8, <2>1, <2>2, <2>3, <2>4, ChainInserted, Zenon
<1>15. ASSUME NEW h \in Heads, h # r
       PROVE  Follows(next', h, R[h])
  <2>1. R[h] \in Seq(Members) /\ Follows(next, h, R[h]) /\ h # i
    BY <1>3, <1>5 DEF Linked
  <2>2. ASSUME NEW j \in 0 .. Len(R[h])
        PROVE  next'[NodeAt(h, R[h], j)] = next[NodeAt(h, R[h], j)]
    <3>1. NodeAt(h, R[h], j) \in Nodes /\ RingOf(NodeAt(h, R[h], j)) = h
      BY <1>5, <1>0, <2>1, RingOfNode, NodesOfChain
    <3>2. NodeAt(h, R[h], j) # i
      BY <1>6, <2>1 DEF NodeAt
    <3> QED BY <1>3, <1>4, <1>15, <3>1, <3>2
  <2> QED BY <2>1, <2>2 DEF Follows
<1>16. \A j, l \in 1 .. Len(d) : d[j] = d[l] => j = l
  <2>1. \A j, l \in 1 .. Len(s) : s[j] = s[l] => j = l
    BY <1>5, <1>0 DEF Linked
  <2>2. ASSUME NEW j \in 1 .. Len(d)
        PROVE  \/ j = q + 1 /\ d[j] = i
               \/ \E u \in 1 .. Len(s) : d[j] = s[u] /\ u = IF j <= q THEN j ELSE j - 1
    <3>1. CASE j = q + 1
      BY <1>10, <3>1
    <3>2. CASE j \in 1 .. q /\ j \in 1 .. Len(s)
      <4>1. d[j] = s[j] /\ j <= q
        BY <1>10, <3>2
      <4> QED BY <3>2, <4>1
    <3>3. ASSUME NEW l \in q + 1 .. Len(s), j = l + 1
          PROVE  \E u \in 1 .. Len(s) : d[j] = s[u] /\ u = IF j <= q THEN j ELSE j - 1
      <4>1. l \in 1 .. Len(s) /\ d[j] = s[l] /\ l = j - 1 /\ ~(j <= q)
        BY <1>10, <3>3
      <4> QED BY <4>1
    <3> QED BY <1>13, <3>1, <3>2, <3>3
  <2> SUFFICES ASSUME NEW j \in 1 .. Len(d), NEW l \in 1 .. Len(d), d[j] = d[l], j # l
               PROVE  FALSE
    OBVIOUS
  <2>0. \A u \in 1 .. Len(s) : s[u] # i
    BY <1>0, <1>6
  <2>3. CASE j = q + 1
    <3>1. d[j] = i /\ ~(l = q + 1)
      BY <1>10, <2>3
    <3>2. \E u \in 1 .. Len(s) : d[l] = s[u]
      BY <2>2, <3>1, Zenon
    <3> QED BY <2>0, <3>1, <3>2
  <2>4. CASE l = q + 1
    <3>1. d[l] = i /\ ~(j = q + 1)
      BY <1>10, <2>4
    <3>2. \E u \in 1 .. Len(s) : d[j] = s[u]
      BY <2>2, <3>1, Zenon
    <3> QED BY <2>0, <3>1, <3>2
  <2>5. CASE j # q + 1 /\ l # q + 1
    <3>1. PICK u \in 1 .. Len(s) : d[j] = s[u] /\ u = IF j <= q THEN j ELSE j - 1
      BY <2>2, <2>5
    <3>2. PICK v \in 1 .. Len(s) : d[l] = s[v] /\ v = IF l <= q THEN l ELSE l - 1
      BY <2>2, <2>5
    <3>3. u = v
      BY <2>1, <3>1, <3>2
    <3> QED BY <2>5, <3>1, <3>2, <3>3
  <2> QED BY <2>3, <2>4, <2>5
<1>17. \A m \in Members : owner'[m] = r <=> \E j \in 1 .. Len(d) : m = d[j]
  <2>1. \A m \in Members : owner[m] = r <=> \E j \in 1 .. Len(s) : m = s[j]
    BY <1>5, <1>0 DEF Linked
  <2>2. q + 1 \in 1 .. Len(d)
    BY <1>5, <1>0, <1>10
  <2>3. ASSUME NEW l \in 1 .. Len(s)
        PROVE  \E j \in 1 .. Len(d) : s[l] = d[j]
    <3>1. CASE l <= q
      BY <1>5, <1>0, <1>10, <3>1
    <3>2. CASE l > q
      <4>1. l \in q + 1 .. Len(s) /\ l + 1 \in 1 .. Len(d)
        BY <1>5, <1>0, <1>10, <3>2
      <4> QED BY <1>10, <4>1
    <3> QED BY <1>5, <1>0, <3>1, <3>2
  <2>4. ASSUME NEW m \in Members, owner'[m] = r
        PROVE  \E j \in 1 .. Len(d) : m = d[j]
    BY <1>4, <1>10, <2>1, <2>2, <2>3, <2>4
  <2>5. ASSUME NEW j \in 1 .. Len(d), NEW m \in Members, m = d[j]
        PROVE  owner'[m] = r
    <3>1. CASE j = q + 1
      BY <1>4, <1>10, <2>5, <3>1
    <3>2. CASE j # q + 1
      <4>1. \E u \in 1 .. Len(s) : d[j] = s[u]
        <5>1. CASE j \in 1 .. q /\ j \in 1 .. Len(s)
          BY <1>10, <5>1
        <5>2. ASSUME NEW l \in q + 1 .. Len(s), j = l + 1
              PROVE  \E u \in 1 .. Len(s) : d[j] = s[u]
          <6>1. l \in 1 .. Len(s) /\ d[j] = s[l]
            BY <1>10, <5>2
          <6> QED BY <6>1
        <5> QED BY <1>13, <3>2, <5>1, <5>2
      <4> QED BY <1>4, <1>6, <2>1, <2>5, <4>1
    <3> QED BY <3>1, <3>2
  <2> QED BY <2>4, <2>5
<1>18. ASSUME NEW h \in Heads, h # r
       PROVE  \A m \in Members : owner'[m] = h <=> \E j \in 1 .. Len(R[h]) : m = R[h][j]
  BY <1>4, <1>5, <1>0, <1>6, <1>18 DEF Linked
<1>19. Linked(Q)'
  <2>1. ASSUME NEW h \in Heads
        PROVE  /\ Follows(next', h, Q[h])
               /\ \A j, l \in 1 .. Len(Q[h]) : Q[h][j] = Q[h][l] => j = l
               /\ \A m \in Members : owner'[m] = h <=> \E j \in 1 .. Len(Q[h]) : m = Q[h][j]
    <3>1. CASE h = r
      BY <1>12, <1>14, <1>16, <1>17, <3>1
    <3>2. CASE h # r
      <4>1. PICK t : t = R[h] /\ Q[h] = t
        BY <1>12, <3>2
      <4>2. \A j, l \in 1 .. Len(t) : t[j] = t[l] => j = l
        BY <1>5, <4>1 DEF Linked
      <4>3. Follows(next', h, t)
        BY <1>15, <3>2, <4>1, Zenon
      <4>4. \A m \in Members : owner'[m] = h <=> \E j \in 1 .. Len(t) : m = t[j]
        BY <1>18, <3>2, <4>1
      <4> QED BY <4>1, <4>2, <4>3, <4>4
    <3> QED BY <3>1, <3>2
  <2>2. \A h \in Heads : Follows(next, h, Q[h])' = Follows(next', h, Q[h])
    BY DEF Follows
  <2> QED BY <1>12, <2>1, <2>2 DEF Linked
<1>21. \A e \in Contexts : Inserting(Q, e)'
  <2>1. \A e \in Contexts \ {c} : call'[e] = call[e] /\ Idle(e)
    BY <1>1, <1>2 DEF IInv, TypeOK, OneCall, Contexts, Idle, NoCall
  <2>2. call'[c].op = "idle"
    BY <1>2 DEF IInv, TypeOK, NoCall
  <2>3. \A e \in Contexts : call'[e].op = "idle"
    BY <2>1, <2>2, IdleCall
  <2> QED BY <2>3, NotInserting
<1>22. RingSeqs = R /\ RingSeqs' = Q
  BY <1>5, <1>0, <1>19, RingSeqsAre, RingSeqsBecome
<1>23. AbstractRings!Insert(i, r)
  <2>1. AbstractRings!Free(i)
    <3>1. \A h \in Heads : i \notin AbstractRings!ToSet(R[h])
      BY <1>5, <1>0, <1>6 DEF AbstractRings!ToSet
    <3> QED BY <1>22, <3>1 DEF AbstractRings!Free
  <2>2. ASSUME Order[r] # "none"
        PROVE  /\ \A j \in 1 .. q : AbstractRings!Less(r, key[s[j]], key[i])
               /\ q < Len(s) => \/ ~AbstractRings!Less(r, key[s[q + 1]], key[i])
                                \/ AbstractRings!Carried(r, key[s[q + 1]], key[i])
    BY <1>7, <2>2 DEF Passes, Stops
  <2>3. AbstractRings!Place(i, r, q)
    BY <1>0, <1>8, <1>11, <1>22 DEF AbstractRings!Place
  <2>4. q \in 0 .. Len(RingSeqs[r]) /\ RingSeqs[r] = s /\ key' = key
    BY <1>0, <1>2, <1>22
  <2> QED BY <2>1, <2>2, <2>3, <2>4, Zenon DEF AbstractRings!Insert
<1>24. AbstractStep
  BY <1>23 DEF AbstractStep, AbstractRings!Next
<1> QED BY <1>19, <1>21, <1>24 DEF InOrder

LEMMA UnlinkMoves ==
  ASSUME IInv, NEW R, InOrder(R), NEW c \in Contexts, Unlink(c)
  PROVE  (\E Q : InOrder(Q)' /\ AbstractStep)
<1> DEFINE f == call[c]
<1>1. PICK i \in Members, a \in Nodes, p \in Nodes : f.node = i /\ f.at = a /\ f.ref = p
  BY DEF IInv, TypeOK, Unlink, Frame, NoCall
<1>2. /\ next' = [next EXCEPT ![p] = a, ![i] = i]
      /\ owner' = [owner EXCEPT ![i] = None]
      /\ call' = [call EXCEPT ![c] = NoCall]
      /\ key' = key
  BY <1>1 DEF Unlink
<1>3. /\ a = next[i] /\ a # i /\ i \in Nodes /\ i \notin Heads /\ next[p] = i /\ p # i
      /\ owner[i] # None
  BY <1>1, RingAssumption DEF IInv, FrameInv, Unlink, RemovalFrame, LinksAgree, Nodes, OneRing
<1>4. /\ next'[p] = a /\ \A n \in Nodes \ {i, p} : next'[n] = next[n]
      /\ owner'[i] = None /\ \A m \in Members \ {i} : owner'[m] = owner[m]
  BY <1>1, <1>2, <1>3 DEF IInv, TypeOK
<1>5. Linked(R) /\ R \in [Heads -> Seq(Members)]
  BY DEF InOrder, Linked
<1>6. PICK r \in Heads : r = owner[i] /\ r # None
  BY <1>3, RingAssumption DEF IInv, TypeOK
<1>0. PICK s \in Seq(Members) : s = R[r]
  BY <1>5
<1>7. /\ Follows(next, r, s)
      /\ \A j, l \in 1 .. Len(s) : s[j] = s[l] => j = l
      /\ \A m \in Members : owner[m] = r <=> \E j \in 1 .. Len(s) : m = s[j]
  BY <1>0, <1>5 DEF Linked
<1>8. PICK q \in 1 .. Len(s) : i = s[q]
  BY <1>6, <1>7
<1>9. NodeAt(r, s, q - 1) = p /\ NodeAt(r, s, q + 1) = a
  <2>1. NodeAt(r, s, q) = i
    BY <1>8 DEF NodeAt
  <2>2. q \in 0 .. Len(s) /\ q - 1 \in 0 .. Len(s) /\ (q - 1) + 1 = q /\ q - 1 \in Nat
    OBVIOUS
  <2>3. next[NodeAt(r, s, q - 1)] = i /\ next[i] = NodeAt(r, s, q + 1)
    BY <1>7, <2>1, <2>2 DEF Follows
  <2>4. NodeAt(r, s, q - 1) \in Nodes
    BY <2>2, NodesOfChain
  <2> QED BY <1>3, <2>3, <2>4 DEF IInv, LinksAgree
<1>10. PICK d : d = AbstractRings!RemoveAt(s, q)
  OBVIOUS
<1>11. Closed(d, s, q)
  BY <1>10, ElementsRemoved, Zenon
<1>12. /\ d \in Seq(Members) /\ Len(d) = Len(s) - 1
       /\ \A j \in 1 .. q - 1 : d[j] = s[j]
       /\ \A j \in q .. Len(s) - 1 : d[j] = s[j + 1]
  BY <1>11 DEF Closed
<1>13. PICK Q : Q = [R EXCEPT ![r] = d]
  OBVIOUS
<1>14. Q \in [Heads -> Seq(Members)] /\ Q[r] = d /\ \A h \in Heads \ {r} : Q[h] = R[h]
  BY <1>5, <1>12, <1>13
(* Where the elements of d are in the old chain. *)
<1>15. ASSUME NEW j \in 1 .. Len(d)
       PROVE  \E u \in 1 .. Len(s) : d[j] = s[u] /\ u # q /\ u = IF j < q THEN j ELSE j + 1
  <2>1. CASE j < q
    <3>1. j \in 1 .. q - 1 /\ j \in 1 .. Len(s)
      BY <2>1
    <3> QED BY <1>12, <2>1, <3>1
  <2>2. CASE ~(j < q)
    <3>1. j \in q .. Len(s) - 1 /\ j + 1 \in 1 .. Len(s) /\ j + 1 # q
      BY <1>12, <2>2
    <3> QED BY <1>12, <2>2, <3>1
  <2> QED BY <2>1, <2>2
<1>16. Follows(next', r, d)
  <2>1. next'[NodeAt(r, s, q - 1)] = NodeAt(r, s, q + 1)
    BY <1>4, <1>9
  <2>2. \A n \in Nodes \ {s[q], NodeAt(r, s, q - 1)} : next'[n] = next[n]
    BY <1>4, <1>8, <1>9
  <2> QED BY <1>7, <1>10, <2>1, <2>2, ChainRemoved, Zenon
<1>17. ASSUME NEW h \in Heads, h # r
       PROVE  Follows(next', h, R[h])
  <2>1. PICK t \in Seq(Members) : t = R[h] /\ Follows(next, h, t) /\ h # i
    BY <1>3, <1>5 DEF Linked
  <2>2. ASSUME NEW j \in 0 .. Len(t)
        PROVE  next'[NodeAt(h, t, j)] = next[NodeAt(h, t, j)]
    <3>1. NodeAt(h, t, j) \in Nodes /\ RingOf(NodeAt(h, t, j)) = h
      BY <1>5, <2>1, RingOfNode, NodesOfChain
    <3>2. RingOf(i) = r /\ RingOf(p) = r
      <4>1. RingOf(i) = r
        BY <1>3, <1>6 DEF RingOf
      <4> QED BY <1>3, <4>1 DEF IInv, OneRing
    <3> QED BY <1>4, <1>17, <3>1, <3>2
  <2> QED BY <2>1, <2>2 DEF Follows
<1>18. \A j, l \in 1 .. Len(d) : d[j] = d[l] => j = l
  <2> SUFFICES ASSUME NEW j \in 1 .. Len(d), NEW l \in 1 .. Len(d), d[j] = d[l]
               PROVE  j = l
    OBVIOUS
  <2>1. PICK u \in 1 .. Len(s) : d[j] = s[u] /\ u # q /\ u = IF j < q THEN j ELSE j + 1
    BY <1>15
  <2>2. PICK v \in 1 .. Len(s) : d[l] = s[v] /\ v # q /\ v = IF l < q THEN l ELSE l + 1
    BY <1>15
  <2>3. u = v
    BY <1>7, <2>1, <2>2
  <2> QED BY <2>1, <2>2, <2>3
<1>19. \A m \in Members : owner'[m] = r <=> \E j \in 1 .. Len(d) : m = d[j]
  <2>1. ASSUME NEW j \in 1 .. Len(d), NEW m \in Members, m = d[j]
        PROVE  owner'[m] = r
    <3>1. PICK u \in 1 .. Len(s) : d[j] = s[u] /\ u # q
      BY <1>15
    <3>2. m # i /\ owner[m] = r
      BY <1>7, <1>8, <2>1, <3>1
    <3> QED BY <1>4, <3>2
  <2>2. ASSUME NEW m \in Members, owner'[m] = r
        PROVE  \E j \in 1 .. Len(d) : m = d[j]
    <3>1. m # i /\ owner[m] = r
      BY <1>4, <1>6, <2>2
    <3>2. PICK l \in 1 .. Len(s) : m = s[l]
      BY <1>7, <3>1
    <3>3. l # q
      BY <1>8, <3>1, <3>2
    <3>4. CASE l < q
      <4>1. l \in 1 .. q - 1 /\ l \in 1 .. Len(d)
        BY <1>12, <3>4
      <4> QED BY <1>12, <3>2, <4>1
    <3>5. CASE l > q
      <4>1. l - 1 \in q .. Len(s) - 1 /\ l - 1 \in 1 .. Len(d) /\ (l - 1) + 1 = l
        BY <1>12, <3>5
      <4> QED BY <1>12, <3>2, <4>1
    <3> QED BY <3>3, <3>4, <3>5
  <2> QED BY <2>1, <2>2
<1>20. ASSUME NEW h \in Heads, h # r
       PROVE  \A m \in Members : owner'[m] = h <=> \E j \in 1 .. Len(R[h]) : m = R[h][j]
  <2>1. h # None
    BY RingAssumption
  <2>2. \A m \in Members : owner'[m] = h <=> owner[m] = h
    BY <1>4, <1>6, <1>20, <2>1
  <2>3. \A m \in Members : owner[m] = h <=> \E j \in 1 .. Len(R[h]) : m = R[h][j]
    BY <1>5 DEF Linked
  <2> QED BY <2>2, <2>3
<1>21. Linked(Q)'
  <2>1. ASSUME NEW h \in Heads
        PROVE  /\ Follows(next', h, Q[h])
               /\ \A j, l \in 1 .. Len(Q[h]) : Q[h][j] = Q[h][l] => j = l
               /\ \A m \in Members : owner'[m] = h <=> \E j \in 1 .. Len(Q[h]) : m = Q[h][j]
    <3>1. CASE h = r
      BY <1>14, <1>16, <1>18, <1>19, <3>1
    <3>2. CASE h # r
      <4>1. PICK t : t = R[h] /\ Q[h] = t
        BY <1>14, <3>2
      <4>2. \A j, l \in 1 .. Len(t) : t[j] = t[l] => j = l
        BY <1>5, <4>1 DEF Linked
      <4>3. Follows(next', h, t)
        BY <1>17, <3>2, <4>1, Zenon
      <4>4. \A m \in Members : owner'[m] = h <=> \E j \in 1 .. Len(t) : m = t[j]
        BY <1>20, <3>2, <4>1
      <4> QED BY <4>1, <4>2, <4>3, <4>4
    <3> QED BY <3>1, <3>2
  <2>2. \A h \in Heads : Follows(next, h, Q[h])' = Follows(next', h, Q[h])
    BY DEF Follows
  <2> QED BY <1>14, <2>1, <2>2 DEF Linked
<1>23. \A e \in Contexts : Inserting(Q, e)'
  <2>1. \A e \in Contexts \ {c} : call'[e] = call[e] /\ Idle(e)
    BY <1>1, <1>2 DEF IInv, TypeOK, OneCall, Contexts, Idle, NoCall, Unlink
  <2>2. call'[c].op = "idle"
    BY <1>2 DEF IInv, TypeOK, NoCall
  <2>3. \A e \in Contexts : call'[e].op = "idle"
    BY <2>1, <2>2, IdleCall
  <2> QED BY <2>3, NotInserting
<1>24. RingSeqs = R /\ RingSeqs' = Q
  BY <1>5, <1>21, RingSeqsAre, RingSeqsBecome
<1>25. AbstractRings!Take(i)
  <2>1. q \in 1 .. Len(RingSeqs[r]) /\ RingSeqs[r][q] = i /\ key' = key
    BY <1>0, <1>2, <1>8, <1>24
  <2>2. RingSeqs' = [RingSeqs EXCEPT ![r] = AbstractRings!RemoveAt(@, q)]
    BY <1>0, <1>10, <1>13, <1>24
  <2> QED BY <2>1, <2>2, Zenon DEF AbstractRings!Take
<1>26. AbstractStep
  BY <1>25 DEF AbstractStep, AbstractRings!Next
<1> QED BY <1>21, <1>23, <1>26 DEF InOrder

-----------------------------------------------------------------------------

LEMMA InitInOrder ==
  ASSUME Init
  PROVE  InOrder([r \in Heads |-> <<>>]) /\ AbstractRings!Init
<1> DEFINE R == [r \in Heads |-> <<>>]
<1>1. R \in [Heads -> Seq(Members)] /\ \A r \in Heads : R[r] = <<>> /\ Len(R[r]) = 0
  OBVIOUS
<1>2. \A r \in Heads : next[r] = r /\ r \in Nodes
  BY DEF Init, Nodes
<1>3. \A r \in Heads : Follows(next, r, R[r])
  BY <1>1, <1>2 DEF Follows, NodeAt
<1>4. \A m \in Members : owner[m] \notin Heads
  BY RingAssumption DEF Init
<1>5. Linked(R)
  BY <1>1, <1>3, <1>4 DEF Linked
<1>7. \A c \in Contexts : Inserting(R, c)
  BY DEF Init, Inserting, NoCall
<1>8. RingSeqs = R
  BY <1>5, RingSeqsAre
<1>9. AbstractRings!Init
  BY <1>8 DEF Init, AbstractRings!Init, Key
<1> QED BY <1>5, <1>7, <1>9 DEF InOrder

LEMMA StepMoves ==
  ASSUME IInv, ~Preemptible, NEW R, InOrder(R), [Next]_vars
  PROVE  (\E Q : InOrder(Q)' /\ AbstractStep)
<1>1. CASE UNCHANGED vars
  <2>1. \A c \in Contexts : Inserting(R, c)'
    BY <1>1 DEF vars, InOrder, Inserting, Between
  <2> QED BY <1>1, <2>1, NothingMoved DEF vars
<1>2. ASSUME NEW c \in Contexts, Begin(c) PROVE InOrder(R)' /\ AbstractStep
  BY <1>2, InsertBeforeMoves, InsertAfterMoves, LinkOrderedMoves, RemoveMoves DEF Begin
<1>3. ASSUME NEW c \in Contexts, Continue(c) PROVE \E Q : InOrder(Q)' /\ AbstractStep
  <2>1. CASE Walk(c)
    BY <2>1, WalkMoves
  <2>2. CASE Link(c)
    BY <2>2, LinkMoves
  <2>3. CASE Unlink(c)
    BY <2>3, UnlinkMoves
  <2> QED BY <1>3, <2>1, <2>2, <2>3 DEF Continue
<1> QED BY <1>1, <1>2, <1>3 DEF Next

(* What ring.asm does with pointers is what Rings says of sequences: every *)
(* call puts one free node where its value belongs, takes one node out, or *)
(* does nothing, and the chain from a head to itself has all nodes of the  *)
(* ring, on both sides of a carry into the high word of the times too.     *)
(* Assumed is that interrupts come between calls.                          *)
THEOREM RingsImplemented ==
  ASSUME ~Preemptible
  PROVE  Spec => ImplementsRings
<1> DEFINE Inv == IInv /\ \E R : InOrder(R)
<1>1. Init => Inv /\ AbstractRings!Init
  BY InitIInv, InitInOrder
<1>2. Inv /\ [Next]_vars => Inv' /\ AbstractStep
  <2> SUFFICES ASSUME IInv, NEW R, InOrder(R), [Next]_vars
               PROVE  Inv' /\ AbstractStep
    OBVIOUS
  <2>1. IInv'
    BY NextStep
  <2>2. PICK Q : InOrder(Q)' /\ AbstractStep
    BY StepMoves
  <2> QED BY <2>1, <2>2
<1>3. Spec => AbstractRings!Init /\ [][AbstractRings!Next]_<<RingSeqs, key>>
  BY <1>1, <1>2, PTL DEF Spec, AbstractStep
<1> QED BY <1>3 DEF ImplementsRings, AbstractRings!Spec
=============================================================================
