---------------------------- MODULE MCWhiteboard ----------------------------
(* Instances of Whiteboard for TLC. *)
EXTENDS Whiteboard, TLC

IdSymmetry == Permutations(Ids)
=============================================================================
