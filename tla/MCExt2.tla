------------------------------- MODULE MCExt2 -------------------------------
(***************************************************************************)
(* Ext2 for TLC: file names are interchangeable.                           *)
(***************************************************************************)
EXTENDS Ext2

Symmetry == Permutations(Names)
=============================================================================
