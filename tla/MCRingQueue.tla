---------------------------- MODULE MCRingQueue ----------------------------
(***************************************************************************)
(* Small instances of RingQueue.                                           *)
(***************************************************************************)
EXTENDS RingQueue

CONSTANTS Timer, Ready, Plain

MCOrder == [r \in Heads |-> CASE r = Timer -> "w64" [] r = Ready -> "w32" [] OTHER -> "none"]

(* Times on both sides of a carry into the high word; two priorities.      *)
MCKeys ==
  [r \in Heads |-> CASE r = Timer -> {<<0, 0>>, <<0, 1>>, <<1, 0>>}
                     [] r = Ready -> {<<0, 0>>, <<1, 0>>}
                     [] OTHER     -> {}]
=============================================================================
