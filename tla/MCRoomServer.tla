---------------------------- MODULE MCRoomServer ----------------------------
(* Instances of RoomServer for TLC. *)
EXTENDS RoomServer, Naturals, TLC

CONSTANTS
    Reconnecting,   \* the users who may open more than one connection
    Connections     \* how many

\* Connection i of user u
MCSessions == (Users \X {1}) \cup (Reconnecting \X (1..Connections))
MCUserOf == [s \in MCSessions |-> s[1]]

\* Bound of the runs about sessions and seats: states with a camera or a
\* microphone on are not explored further.
Quiet == \A r \in Rooms : camera[r] = {} /\ audio[r] = {}

UserSymmetry == Permutations(Users)
=============================================================================
