--------------------------- MODULE MCRoomRouting ----------------------------
(* Instances of RoomRouting for TLC. *)
EXTENDS RoomRouting, TLC

Symmetry == Permutations(Servers) \cup Permutations(Clients)

\* Once a client has gone astray the properties say nothing any more, so
\* what comes after is not explored.
Straight == ~astray
=============================================================================
