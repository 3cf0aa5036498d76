----------------------------- MODULE RingQueue -----------------------------
(***************************************************************************)
(* The ring queue library, lib/queue/ring.asm: circular lists threaded     *)
(* through next/previous pointers, one head per queue.  Every queue of the *)
(* kernel is one of them: the scheduler's timer_ring (ordered on 64 bits), *)
(* its ready_for_execution ring (ordered on 32 bits), the thread pools and *)
(* the client ring of each IRQ (not ordered).                              *)
(*                                                                         *)
(* A procedure works on pointers it has loaded into registers, and the     *)
(* scheduler calls it both from threads, with interrupts enabled, and from *)
(* the PIT interrupt.  So a call is kept as a frame (the registers) of one *)
(* of two contexts, and takes one step to load and check its neighbours,   *)
(* one per member that an ordered insertion walks over, and one to write   *)
(* the links.  The code is built with SANITY_CHECKS, as ring.asm defines   *)
(* it itself.                                                              *)
(***************************************************************************)
EXTENDS Naturals, Sequences, FiniteSets

CONSTANTS
  Heads,        \* the ring heads
  Members,      \* the nodes that callers link into the rings
  Order,        \* Order[r] is "none", "w32" or "w64": how callers insert in r
  KeysOf,       \* KeysOf[r]: the ordering values callers give a node of r
  Preemptible,  \* may an interrupt arrive inside a thread's call?
  None          \* no ring

(* An ordering value: the high word (offset -4) and the low word (-8).     *)
Key == UNION {KeysOf[r] : r \in Heads}

ASSUME RingAssumption ==
  /\ Heads \cap Members = {}
  /\ IsFiniteSet(Members)
  /\ None \notin Heads
  /\ Order \in [Heads -> {"none", "w32", "w64"}]
  /\ KeysOf \in [Heads -> SUBSET (Nat \X Nat)]
  /\ Preemptible \in BOOLEAN

Nodes == Heads \cup Members
Contexts == {"thread", "irq"}

VARIABLES
  next, previous,  \* the links of every node
  key,             \* the ordering value of every member
  call,            \* the frame of each context's call in progress
  owner,           \* (history) the head of the ring a member was linked to
  result           \* how the last call that ended returned

vars == <<next, previous, key, call, owner, result>>

(* at and ref are the pointers the new node goes between: ecx and edx in   *)
(* the ordered insertions.  "lost": the procedure jumped through a word    *)
(* that is not its return table and never comes back to its caller.        *)
Frame == [op : {"walk", "link", "unlink", "lost"},
          node : Members, ring : Heads, at : Nodes, ref : Nodes]
NoCall == [op |-> "idle"]

Unlinked(n) == next[n] = n /\ previous[n] = n

(* The rings are given as single self-linked heads (def_ring_queue) and a  *)
(* node is looped onto itself before its first insertion.                  *)
Init ==
  /\ next = [n \in Nodes |-> n]
  /\ previous = [n \in Nodes |-> n]
  /\ key \in [Members -> Key]
  /\ call = [c \in Contexts |-> NoCall]
  /\ owner = [m \in Members |-> None]
  /\ result = "none"

Idle(c) == call[c] = NoCall

(* An interrupt handler runs to its end before the thread goes on, and a   *)
(* context makes one call at a time.                                       *)
Runs(c) == c = "thread" => Idle("irq")

(* No caller passes a node i for which another call is in progress: an     *)
(* interrupt handler works on nodes it found in a ring or took from one.   *)
MayCall(c, i) ==
  /\ Runs(c)
  /\ Idle(c)
  /\ c = "irq" => Preemptible \/ Idle("thread")
  /\ \A d \in Contexts : ~Idle(d) => call[d].node # i

Return(c, r) ==
  /\ call' = [call EXCEPT ![c] = NoCall]
  /\ result' = r
  /\ UNCHANGED <<next, previous, key, owner>>

Enter(c, o, i, r, a, p) ==
  /\ call' = [call EXCEPT ![c] =
                [op |-> o, node |-> i, ring |-> r, at |-> a, ref |-> p]]
  /\ result' = "none"

(* The ring a reference node stands for.                                   *)
RingOf(n) == IF n \in Heads THEN n ELSE owner[n]

(* What callers insert next to: a head, or a node already in a ring whose  *)
(* order they do not rely on.                                              *)
References == {n \in Nodes : RingOf(n) # None /\ Order[RingOf(n)] = "none"}

(* ring_queue.insert_before: A <-> I <-> R.                                *)
InsertBefore(c, i, r) ==
  /\ MayCall(c, i)
  /\ IF ~Unlinked(i)
     THEN Return(c, "linked")
     ELSE IF next[previous[r]] # r
     THEN Return(c, "corrupt")
     ELSE /\ Enter(c, "link", i, RingOf(r), r, previous[r])
          /\ UNCHANGED <<next, previous, key, owner>>

(* ring_queue.insert_after: R <-> I <-> A.                                 *)
InsertAfter(c, i, r) ==
  /\ MayCall(c, i)
  /\ IF ~Unlinked(i)
     THEN Return(c, "linked")
     ELSE IF previous[next[r]] # r
     THEN Return(c, "corrupt")
     ELSE /\ Enter(c, "link", i, RingOf(r), next[r], r)
          /\ UNCHANGED <<next, previous, key, owner>>

(* ring_queue.link_ordered_64 and _32, up to the first comparison.  The    *)
(* callers store the ordering value k in the node just before the call.    *)
LinkOrdered(c, i, r, k) ==
  /\ MayCall(c, i)
  /\ Order[r] # "none"
  /\ IF ~Unlinked(i)
     THEN Return(c, "linked")
     ELSE /\ Enter(c, "walk", i, r, next[r], r)
          /\ key' = [key EXCEPT ![i] = k]
          /\ UNCHANGED <<next, previous, owner>>

(* Mistakes of comparison: the wrong jump for the 32-bit value, and a new  *)
(* node put after those it ties with.                                      *)
StopsAtHigher(r, k, other) == k[1] >= other[1] /\ k[2] <= other[2]
StopsAtLower(r, k, other) == k[1] < other[1] \/ (k[1] = other[1] /\ k[2] < other[2])

(* The walk of link_ordered_32 is that of link_ordered_64 but for its one  *)
(* comparison, "value is lower or equal".                                  *)
StopsAt32(k, other) == k[1] <= other[1]

(* "value is lower, insert prior": the comparison that stops the walk.     *)
StopsAt(r, k, other) ==
  CASE Order[r] = "w64" -> k[1] < other[1] \/ k[2] <= other[2]
    [] Order[r] = "w32" -> StopsAt32(k, other)
    [] OTHER            -> TRUE

(* A walk that reloads the first member at every turn.                     *)
WalkStuck(c) ==
  LET f == call[c] IN
  /\ Runs(c)
  /\ f.op = "walk"
  /\ IF f.at = f.ring \/ (f.at \in Members /\ StopsAt(f.ring, key[f.node], key[f.at]))
     THEN call' = [call EXCEPT ![c].op = "link"]
     ELSE call' = [call EXCEPT ![c].at = next[f.ring], ![c].ref = f.ring]
  /\ UNCHANGED <<next, previous, key, owner, result>>

(* One turn of .check_complete_round.  When a back link is wrong the       *)
(* procedure returns with edi and esi still on the stack: the word it pops *)
(* as its return table is a saved register.                                *)
Walk(c) ==
  LET f == call[c] IN
  /\ Runs(c)
  /\ f.op = "walk"
  /\ IF previous[f.at] # f.ref
     THEN /\ call' = [call EXCEPT ![c].op = "lost"]
          /\ result' = "corrupt"
     ELSE IF f.at = f.ring \/ (f.at \in Members /\ StopsAt(f.ring, key[f.node], key[f.at]))
     THEN call' = [call EXCEPT ![c].op = "link"] /\ UNCHANGED result
     ELSE /\ call' = [call EXCEPT ![c].at = next[f.at], ![c].ref = f.at]
          /\ UNCHANGED result
  /\ UNCHANGED <<next, previous, key, owner>>

(* The four stores that end every insertion.                               *)
Link(c) ==
  LET f == call[c] IN
  /\ Runs(c)
  /\ f.op = "link"
  /\ next' = [next EXCEPT ![f.node] = f.at, ![f.ref] = f.node]
  /\ previous' = [previous EXCEPT ![f.node] = f.ref, ![f.at] = f.node]
  /\ owner' = [owner EXCEPT ![f.node] = f.ring]
  /\ call' = [call EXCEPT ![c] = NoCall]
  /\ result' = "ok"
  /\ UNCHANGED key

(* ring_queue.remove, up to its stores.                                    *)
Remove(c, i) ==
  /\ MayCall(c, i)
  /\ IF previous[next[i]] # i \/ next[previous[i]] # i
     THEN Return(c, "corrupt")
     ELSE IF next[i] = i
     THEN Return(c, "unlinked")
     ELSE /\ Enter(c, "unlink", i, owner[i], next[i], previous[i])
          /\ UNCHANGED <<next, previous, key, owner>>

(* The removal of a build without SANITY_CHECKS, which leaves the node     *)
(* pointing into the ring, and one that closes the ring on one side only.  *)
UnlinkNoLoop(c) ==
  LET f == call[c] IN
  /\ Runs(c)
  /\ f.op = "unlink"
  /\ next' = [next EXCEPT ![f.ref] = f.at]
  /\ previous' = [previous EXCEPT ![f.at] = f.ref]
  /\ owner' = [owner EXCEPT ![f.node] = None]
  /\ call' = [call EXCEPT ![c] = NoCall]
  /\ result' = "ok"
  /\ UNCHANGED key
UnlinkHalf(c) ==
  LET f == call[c] IN
  /\ Runs(c)
  /\ f.op = "unlink"
  /\ next' = [next EXCEPT ![f.ref] = f.at, ![f.node] = f.node]
  /\ previous' = [previous EXCEPT ![f.node] = f.node]
  /\ owner' = [owner EXCEPT ![f.node] = None]
  /\ call' = [call EXCEPT ![c] = NoCall]
  /\ result' = "ok"
  /\ UNCHANGED key

(* The stores of ring_queue.remove: close the ring, loop the node back.    *)
Unlink(c) ==
  LET f == call[c] IN
  /\ Runs(c)
  /\ f.op = "unlink"
  /\ next' = [next EXCEPT ![f.ref] = f.at, ![f.node] = f.node]
  /\ previous' = [previous EXCEPT ![f.at] = f.ref, ![f.node] = f.node]
  /\ owner' = [owner EXCEPT ![f.node] = None]
  /\ call' = [call EXCEPT ![c] = NoCall]
  /\ result' = "ok"
  /\ UNCHANGED key

Begin(c) ==
  \E i \in Members :
    \/ \E r \in References \ {i} : InsertBefore(c, i, r) \/ InsertAfter(c, i, r)
    \/ \E r \in Heads : \E k \in KeysOf[r] : LinkOrdered(c, i, r, k)
    \/ Remove(c, i)

Continue(c) == Walk(c) \/ Link(c) \/ Unlink(c)

Next == \E c \in Contexts : Begin(c) \/ Continue(c)

Spec == Init /\ [][Next]_vars

(* A processor that is not halted goes on executing the procedure it is in.*)
FairSpec == Spec /\ \A c \in Contexts : WF_vars(Continue(c))

-----------------------------------------------------------------------------

(* Pointers lead to nodes, and a call is a frame of registers.             *)
TypeOK ==
  /\ next \in [Nodes -> Nodes]
  /\ previous \in [Nodes -> Nodes]
  /\ key \in [Members -> Key]
  /\ call \in [Contexts -> Frame \cup {NoCall}]
  /\ owner \in [Members -> Heads \cup {None}]
  /\ result \in {"none", "ok", "linked", "unlinked", "corrupt"}

(* The two directions of every ring agree: following next and then         *)
(* previous comes back to the same node, as the sanity checks of all five  *)
(* procedures of ring.asm assume.                                          *)
LinksAgree ==
  \A n \in Nodes : previous[next[n]] = n /\ next[previous[n]] = n

(* No call finds a neighbour that does not point back: the tests that end  *)
(* in .failed_sanity with "next member points back? if not, invalid next   *)
(* member" never fail.                                                     *)
NeverCorrupt == result # "corrupt"

(* The neighbours of every node, heads included, belong to the same ring as*)
(* it does, and a node that was never inserted, or was removed, points to  *)
(* itself: a walk of one ring never strays into another, nor into a node   *)
(* that its owner has taken back.                                          *)
OneRing ==
  /\ \A n \in Nodes : RingOf(next[n]) = RingOf(n) /\ RingOf(previous[n]) = RingOf(n)
  /\ \A m \in Members : owner[m] = None => next[m] = m

(* The members of a ring filled by link_ordered_32 are in the order of     *)
(* their 32-bit value: the ready ring's first thread has the highest       *)
(* priority.                                                               *)
Ordered32 ==
  \A m \in Members :
    owner[m] # None /\ Order[owner[m]] = "w32" /\ next[m] \in Members
      => key[m][1] <= key[next[m]][1]

Below64(j, k) == j[1] < k[1] \/ (j[1] = k[1] /\ j[2] <= k[2])

(* The members of a ring filled by link_ordered_64 are in the order of     *)
(* their 64-bit value: "the ordering value for both the ring list members  *)
(* and the thread is a 64bit value".                                       *)
Ordered64 ==
  \A m \in Members :
    owner[m] # None /\ Order[owner[m]] = "w64" /\ next[m] \in Members
      => Below64(key[m], key[next[m]])

(* The nodes of ring r as a sequence s of members: 1 .. Len(s), and the    *)
(* head at both ends.                                                      *)
NodeAt(r, s, j) == IF j \in 1 .. Len(s) THEN s[j] ELSE r

(* Following next from the head meets the members of s and then the head.  *)
IsChain(r, s) == \A j \in 0 .. Len(s) : next[NodeAt(r, s, j)] = NodeAt(r, s, j + 1)

Chains == UNION {[1 .. k -> Members] : k \in 0 .. Cardinality(Members)}

RingSeqs == [r \in Heads |-> CHOOSE s \in Chains : IsChain(r, s)]

AbstractRings == INSTANCE Rings WITH rings <- RingSeqs

(* The pointers implement sequences: each procedure of ring.asm, whatever  *)
(* the steps it takes, has the effect of one abstract operation, and no    *)
(* member of a ring is ever lost from the chain its head reaches.          *)
ImplementsRings == AbstractRings!Spec

(* Every call returns: the walk of an ordered insertion comes back to the  *)
(* head or stops before it, and is never thrown off by a broken ring.      *)
EveryCallReturns == \A c \in Contexts : ~Idle(c) ~> Idle(c)
=============================================================================
