------------------------------- MODULE Floor --------------------------------
(***************************************************************************)
(* What a chat server promises about membership and screen sharing: a room *)
(* has a floor that at most one of its members holds, that is only taken   *)
(* when it is free, and that its holder gives up before leaving.           *)
(***************************************************************************)
CONSTANTS Users, Rooms, NoUser

VARIABLES
    members,   \* who is in each room
    holder     \* whose screen the room sees

vars == <<members, holder>>

Init ==
    /\ members = [r \in Rooms |-> {}]
    /\ holder = [r \in Rooms |-> NoUser]

Enter(r, u) ==
    /\ members' = [members EXCEPT ![r] = @ \cup {u}]
    /\ UNCHANGED holder

Take(r, u) ==
    /\ u \in members[r]
    /\ holder[r] = NoUser
    /\ holder' = [holder EXCEPT ![r] = u]
    /\ UNCHANGED members

Yield(r, u) ==
    /\ holder[r] = u
    /\ holder' = [holder EXCEPT ![r] = NoUser]
    /\ UNCHANGED members

\* u leaves the rooms of R at once, none of which sees u's screen.
Exit(R, u) ==
    /\ \A r \in R : holder[r] # u
    /\ members' = [r \in Rooms |-> IF r \in R THEN members[r] \ {u} ELSE members[r]]
    /\ UNCHANGED holder

Next ==
    \E u \in Users :
        \/ \E r \in Rooms : Enter(r, u) \/ Take(r, u) \/ Yield(r, u)
        \/ \E R \in SUBSET Rooms : Exit(R, u)

Spec == Init /\ [][Next]_vars
=============================================================================
