----------------------------- MODULE DrawEvents -----------------------------
(***************************************************************************)
(* Whiteboard events and the rule by which undo events erase drawings      *)
(* (server/features/whiteboard.py).  An event is a record with at least a  *)
(* sequence number seq and a target: target_seq of an undo, 0 in a         *)
(* drawing.                                                                *)
(***************************************************************************)
EXTENDS Naturals

Undos(E) == {e \in E : e.target # 0}
Drawings(E) == {e \in E : e.target = 0}
UpToSeq(E, n) == {e \in E : e.seq <= n}
AfterSeq(E, n) == {e \in E : e.seq > n}
Seqs(E) == {e.seq : e \in E}

\* Mutant of Skipped: an undo is skipped when any later undo aims at it.
SkippedOnce(E) == [n \in Seqs(E) |-> \E u \in Undos(E) : u.seq > n /\ u.target = n]

\* The reverse traversal of _recalculate_undone_seqs and get_active_events:
\* an undo is skipped when a later undo that was not skipped aims at it.
Skipped(E) ==
    LET skipped[n \in Seqs(E)] ==
            \E u \in Undos(E) : u.seq > n /\ u.target = n /\ ~skipped[u.seq]
    IN skipped

UndoneSeqs(E) == {u.target : u \in {v \in Undos(E) : ~Skipped(E)[v.seq]}}

\* get_active_events
Active(E) == {e \in Drawings(E) : e.seq \notin UndoneSeqs(E)}
=============================================================================
