------------------------------- MODULE Rings -------------------------------
(***************************************************************************)
(* What the ring queue library promises its callers, without pointers: a   *)
(* ring is a sequence of distinct members, a member is in at most one      *)
(* ring, and a new member of an ordered ring goes in before the first that *)
(* is not less, but no further than the first later time on the other side *)
(* of a carry into the high word.  The scheduler's modules are written on  *)
(* this view.                                                              *)
(***************************************************************************)
EXTENDS Naturals, Sequences, SequencesExt

CONSTANTS Heads, Members, Order, KeysOf

VARIABLES rings, key

(* Order of the values callers store, as the procedures document it.       *)
Less(r, j, k) ==
  CASE Order[r] = "w64" -> j[1] < k[1] \/ (j[1] = k[1] /\ j[2] < k[2])
    [] Order[r] = "w32" -> j[1] < k[1]

(* The first word is less and the second is not: k is later than j, but    *)
(* its low word has been carried over.                                     *)
Carried(r, j, k) == Order[r] = "w64" /\ j[1] < k[1] /\ k[2] <= j[2]

Free(m) == \A r \in Heads : m \notin ToSet(rings[r])

Init ==
  /\ rings = [r \in Heads |-> <<>>]
  /\ key \in [Members -> UNION {KeysOf[r] : r \in Heads}]

(* A caller stores a new ordering value in a node it has not linked.       *)
Rekey(m) ==
  /\ Free(m)
  /\ \E r \in Heads : \E k \in KeysOf[r] : key' = [key EXCEPT ![m] = k]
  /\ UNCHANGED rings

(* Members put m at position p + 1 of ring r.                              *)
Place(m, r, p) == rings' = [rings EXCEPT ![r] = InsertAt(@, p + 1, m)]

Insert(m, r) ==
  /\ Free(m)
  /\ \E p \in 0 .. Len(rings[r]) :
       /\ Order[r] # "none" =>
            /\ \A j \in 1 .. p : Less(r, key[rings[r][j]], key[m])
            /\ p < Len(rings[r]) =>
                 LET other == key[rings[r][p + 1]] IN
                 ~Less(r, other, key[m]) \/ Carried(r, other, key[m])
       /\ Place(m, r, p)
  /\ UNCHANGED key

Take(m) ==
  /\ \E r \in Heads : \E p \in 1 .. Len(rings[r]) :
       /\ rings[r][p] = m
       /\ rings' = [rings EXCEPT ![r] = RemoveAt(@, p)]
  /\ UNCHANGED key

Next == \E m \in Members : Rekey(m) \/ Take(m) \/ \E r \in Heads : Insert(m, r)

Spec == Init /\ [][Next]_<<rings, key>>
=============================================================================
