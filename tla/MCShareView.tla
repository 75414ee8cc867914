---------------------------- MODULE MCShareView -----------------------------
(* Instances of ShareView for TLC. *)
EXTENDS ShareView, TLC

\* Users are interchangeable.
Symmetry == Permutations(Users)

\* Once the inputs are used up, a window that has a packet and no other event
\* to come takes it before anything else happens.  Nothing is lost: until it
\* does, its user is not Quiet, and no step of another user or of a handler
\* reads what it changes, except a packet behind those it may send; so taking
\* the packet later leads to the same states.
WindowsFirst ==
    LET ready == {u \in Users : inbox[u] # <<>> /\ dialog[u] = <<>> /\ u \notin failing}
    IN  inputs = MaxInputs /\ ready # {} => \E u \in ready : Len(inbox'[u]) < Len(inbox[u])

Joins(u) == Len(out'[u]) > Len(out[u]) /\ out'[u][Len(out'[u])].op = "JOIN_ROOM"
Informed(u) == u \in (here \cap members) \ blind

\* Bound of the run: a user who is in the room and sees it joins it again with
\* the first input or not at all.  The server may read that packet at any time.
RejoinsFirst == inputs > 0 => \A u \in Users : Informed(u) => ~Joins(u)
=============================================================================
