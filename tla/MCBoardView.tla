---------------------------- MODULE MCBoardView -----------------------------
(* BoardView with users that are interchangeable *)
EXTENDS BoardView, TLC
Symmetry == Permutations(Users)
=============================================================================
