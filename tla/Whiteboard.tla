----------------------------- MODULE Whiteboard -----------------------------
(***************************************************************************)
(* The whiteboard of one room: WhiteboardState (server/features/           *)
(* whiteboard.py) with its snapshot thread, the two database tables it     *)
(* works on, and the handlers that draw, synchronise and export            *)
(* (server/client_handler.py).                                             *)
(*                                                                         *)
(* A WhiteboardState lives as long as its room is open.  Its lock is held  *)
(* for one method at a time, so the snapshot thread (read the sequence     *)
(* number, render, write the database, prune), a joining client (snapshot, *)
(* then events) and an export (events, then snapshot) interleave with      *)
(* add_event.  stop() only resets a flag: a snapshot thread that is past   *)
(* its last look at the flag still writes the database, by then perhaps    *)
(* under the next WhiteboardState of the room.                             *)
(*                                                                         *)
(* A DM room is not pinned to a server, and a regular one may go astray    *)
(* (RoomRouting), so a second server may have a WhiteboardState of its own *)
(* on the same rows.  Here that is `away'; the two know of each other only *)
(* what they find in the database.                                         *)
(*                                                                         *)
(* A picture is the set of drawings painted into it; what a drawing looks  *)
(* like is left out, and so is an event type other than "draw" and "undo". *)
(***************************************************************************)
EXTENDS DrawEvents, Naturals, FiniteSets, Sequences

CONSTANTS
    Ids,           \* client_event_ids
    NoId,          \* a packet without one
    HistoryLimit,  \* length of _event_id_history (1000 in the code)
    MaxEvents,     \* bound: events accepted in a behaviour
    Broken,        \* the events, by uid, whose payload render_png raises on
    Elsewhere,     \* TRUE: the room may be open on a second server too
    DbFails        \* TRUE: any database access of WhiteboardState may raise

ASSUME WhiteboardAssumption ==
    /\ NoId \notin Ids
    /\ HistoryLimit \in Nat
    /\ MaxEvents \in Nat
    /\ Broken \subseteq Nat
    /\ Elsewhere \in BOOLEAN
    /\ DbFails \in BOOLEAN

VARIABLES
    \* WhiteboardState
    open,             \* the room has one
    events,           \* _events
    lastSeq,          \* _last_seq
    lastSnapshotSeq,  \* _last_snapshot_seq
    snapshot,         \* _snapshot_png_bytes; {} is also None, a blank canvas
    history,          \* _event_id_history, whose ids are _processed_event_ids
    \* its snapshot thread
    step,             \* where the thread is
    upTo,             \* current_last_seq
    png,              \* png_bytes
    late,             \* database writes threads of earlier states may still do
    \* PostgreSQL
    rows,             \* table whiteboard_events
    stored,           \* the room's row of whiteboard_snapshots
    \* a second server
    split,            \* it has had the room open at the same time
    away,             \* its WhiteboardState: cache, snapshot and last number
    \* a handler thread reading the board
    reader,           \* what it is doing
    got,              \* what it has read so far
    \* history variables
    accepted,         \* how many events were ever accepted
    known,            \* all events this WhiteboardState loaded or accepted
    sent,             \* the ids of the events it accepted, in order
    due,              \* drawings on the board when the reader began
    missed            \* ... that the last read of a kind did not return

boardVars == <<open, events, lastSeq, lastSnapshotSeq, snapshot, accepted, known>>
idVars == <<history, sent>>
threadVars == <<step, upTo, png, late>>
dbVars == <<rows, stored>>
awayVars == <<split, away>>
readVars == <<reader, got, due, missed>>
vars == <<boardVars, idVars, threadVars, dbVars, awayVars, readVars>>

-----------------------------------------------------------------------------
(* Events and pictures *)

\* An accepted event.  uid is its place in the order of acceptance, which a
\* sequence number is not when a failed load restarts the count.  target is
\* target_seq of an undo, 0 in a drawing.
Event == [uid: Nat, seq: Nat, target: Nat]
Picture == SUBSET Nat
Snapshot == [seq: Nat, png: Picture]
Board == [events: SUBSET Event, png: Picture, seq: Nat]

Uids(E) == {e.uid : e \in E}

\* render_png: the events on top of the last snapshot
Paint(picture, E) == picture \cup Uids(Active(E))

\* It raises on the first event of a picture whose payload it cannot paint:
\* _handle_draw_event only looks at the event's type.
Paintable(E) == Uids(Active(E)) \cap Broken = {}

\* What the board shows, and what a set of events asks it to show for sure:
\* the drawings no undo aims at.
Visible == Paint(snapshot, events)
Untargeted(E) == {e \in Drawings(E) : \A u \in Undos(E) : u.target # e.seq}

TypeOK ==
    /\ open \in BOOLEAN
    /\ events \in SUBSET Event
    /\ \A e, f \in events : e.seq = f.seq => e = f
    /\ lastSeq \in Nat
    /\ lastSnapshotSeq \in Nat
    /\ snapshot \in Picture
    /\ history \in Seq(Ids) /\ Len(history) <= HistoryLimit
    /\ sent \in Seq(Ids)
    /\ step \in {"sleep", "render", "save", "prune"}
    /\ upTo \in Nat
    /\ png \in Picture
    /\ late \in SUBSET Snapshot
    /\ rows \in SUBSET Event
    /\ stored \in Snapshot
    /\ split \in BOOLEAN
    /\ away \in Board
    /\ reader \in {"idle", "sync", "export"}
    /\ got \in Picture
    /\ accepted \in Nat
    /\ known \in SUBSET Event
    /\ due \in Picture
    /\ missed \in [{"sync", "export"} -> Picture]

Init ==
    /\ open = FALSE
    /\ events = {} /\ known = {} /\ accepted = 0
    /\ lastSeq = 0 /\ lastSnapshotSeq = 0 /\ snapshot = {}
    /\ history = <<>> /\ sent = <<>>
    /\ step = "sleep" /\ upTo = 0 /\ png = {} /\ late = {}
    /\ rows = {} /\ stored = [seq |-> 0, png |-> {}]
    /\ split = FALSE /\ away = [events |-> {}, png |-> {}, seq |-> 0]
    /\ reader = "idle" /\ got = {} /\ due = {}
    /\ missed = [kind \in {"sync", "export"} |-> {}]

-----------------------------------------------------------------------------
(* Lifetime of a WhiteboardState *)

\* The values load_from_db may build _events from: of several rows with one
\* sequence number the one that happens to be read last.
Loads(R) ==
    {E \in SUBSET R : /\ Seqs(E) = Seqs(R)
                      /\ \A e, f \in E : e.seq = f.seq => e = f}

\* Mutant of Loaded: the numbers of the events are not looked at.
LoadedSnapshotSeq(s, E) ==
    /\ events' = E
    /\ known' = E
    /\ snapshot' = s.png
    /\ lastSnapshotSeq' = s.seq
    /\ lastSeq' = s.seq

\* The state after reading the snapshot s and the events E.
Loaded(s, E) ==
    /\ events' = E
    /\ known' = E
    /\ snapshot' = s.png
    /\ lastSnapshotSeq' = s.seq
    /\ \E n \in {s.seq} \cup Seqs(E) :
          lastSeq' = n /\ \A m \in Seqs(E) : m <= n

\* The first user joins and the state is made.  An exception leaves what was
\* read before it: nothing, or the snapshot without the events.
OpenRoom ==
    /\ ~open
    /\ open' = TRUE
    /\ \/ \E E \in Loads(AfterSeq(rows, stored.seq)) : Loaded(stored, E)
       \/ DbFails /\ Loaded(stored, {})
       \/ DbFails /\ Loaded([seq |-> 0, png |-> {}], {})
    /\ UNCHANGED <<accepted, idVars, threadVars, dbVars, awayVars, readVars>>

\* The write the snapshot thread has ahead of it when its state is stopped.  A
\* thread about to wake up does not look at _running again.
LastWrite ==
    LET n == IF step = "sleep" THEN lastSeq ELSE upTo IN
    [seq |-> n, png |-> IF step = "save" THEN png
                        ELSE Paint(snapshot, UpToSeq(events, n))]

\* That write will come, unless there is nothing new, it has been made, or
\* the rendering raises.
Writes ==
    CASE step = "sleep"  -> lastSeq > lastSnapshotSeq /\ Paintable(events)
      [] step = "render" -> Paintable(UpToSeq(events, upTo))
      [] step = "save"   -> TRUE
      [] step = "prune"  -> FALSE

\* The last user leaves: _stop_audio_state calls stop() and the state is
\* dropped.  A crash of the server does the same and loses the late writes,
\* which is a behaviour in which they are never made.
CloseRoom ==
    /\ open
    /\ reader = "idle"   \* a client that is being served is taken to be in the room
    /\ open' = FALSE
    /\ late' = IF Writes THEN late \cup {LastWrite} ELSE late
    /\ step' = "sleep" /\ upTo' = 0 /\ png' = {}
    /\ events' = {} /\ known' = {} /\ snapshot' = {}
    /\ lastSeq' = 0 /\ lastSnapshotSeq' = 0
    /\ history' = <<>> /\ sent' = <<>>
    /\ UNCHANGED <<accepted, dbVars, awayVars, readVars>>

-----------------------------------------------------------------------------
(* Mutants of the definitions below, for testing the properties *)

\* The oldest id is never dropped.
RememberAll(id) == history' = Append(history, id)

\* The oldest id is dropped one too early.
RememberLess(id) ==
    LET longer == Append(history, id) IN
    history' = IF Len(longer) >= HistoryLimit THEN Tail(longer) ELSE longer

\* _snapshot_png_bytes is not replaced.
SnapshotPruneForgets ==
    /\ step = "prune"
    /\ step' = "sleep"
    /\ events' = AfterSeq(events, upTo)
    /\ lastSnapshotSeq' = upTo
    /\ UNCHANGED <<open, lastSeq, snapshot, accepted, known, idVars, upTo, png, late,
                   dbVars, awayVars, readVars>>

\* The whole cache is pruned, with what came in during the rendering.
SnapshotPruneAll ==
    /\ step = "prune"
    /\ step' = "sleep"
    /\ events' = {}
    /\ lastSnapshotSeq' = upTo
    /\ snapshot' = png
    /\ UNCHANGED <<open, lastSeq, accepted, known, idVars, upTo, png, late, dbVars, awayVars, readVars>>

\* The picture is stored under the number of the latest event.
SnapshotSaveLatest ==
    /\ step = "save"
    /\ step' = "prune"
    /\ stored' = [seq |-> lastSeq, png |-> png]
    /\ UNCHANGED <<boardVars, idVars, upTo, png, late, rows, awayVars, readVars>>

\* The thread goes back to sleep after the write.
SnapshotSaveOnly ==
    /\ step = "save"
    /\ step' = "sleep"
    /\ stored' = [seq |-> upTo, png |-> png]
    /\ UNCHANGED <<boardVars, idVars, upTo, png, late, rows, awayVars, readVars>>

-----------------------------------------------------------------------------
(* add_event, called by _handle_draw_event *)

\* The id joins the history, from which the oldest one is dropped.
Remember(id) ==
    LET longer == Append(history, id) IN
    history' = IF Len(longer) > HistoryLimit THEN Tail(longer) ELSE longer

\* A new event: it is cached, then inserted; a failed insert is only logged.
\* An event whose id is in the history is answered and nothing else happens.
AddEvent(target, id) ==
    LET seq == lastSeq + 1
        e == [uid |-> accepted + 1, seq |-> seq, target |-> target]
    IN
    /\ open
    /\ accepted < MaxEvents
    /\ \A i \in 1..Len(history) : history[i] # id
    /\ events' = events \cup {e}
    /\ known' = known \cup {e}
    /\ accepted' = accepted + 1
    /\ lastSeq' = seq
    /\ \/ rows' = rows \cup {e}
       \/ DbFails /\ UNCHANGED rows
    /\ IF id = NoId
       THEN UNCHANGED idVars
       ELSE Remember(id) /\ sent' = Append(sent, id)
    /\ UNCHANGED <<open, lastSnapshotSeq, snapshot, threadVars, stored, awayVars, readVars>>

-----------------------------------------------------------------------------
(* _periodic_snapshot_loop *)

SnapshotBegin ==
    /\ open
    /\ step = "sleep"
    /\ lastSeq > lastSnapshotSeq
    /\ step' = "render"
    /\ upTo' = lastSeq
    /\ UNCHANGED <<boardVars, idVars, png, late, dbVars, awayVars, readVars>>

\* On an exception the thread goes back to sleep, and will meet the same event
\* in the next round.
SnapshotRender ==
    /\ step = "render"
    /\ IF Paintable(UpToSeq(events, upTo))
       THEN step' = "save" /\ png' = Paint(snapshot, UpToSeq(events, upTo))
       ELSE step' = "sleep" /\ UNCHANGED png
    /\ UNCHANGED <<boardVars, idVars, upTo, late, dbVars, awayVars, readVars>>

\* The row is replaced whatever it holds.  On an exception the thread goes
\* back to sleep and nothing is pruned.
SnapshotSave ==
    /\ step = "save"
    /\ \/ step' = "prune" /\ stored' = [seq |-> upTo, png |-> png]
       \/ DbFails /\ step' = "sleep" /\ UNCHANGED stored
    /\ UNCHANGED <<boardVars, idVars, upTo, png, late, rows, awayVars, readVars>>

SnapshotPrune ==
    /\ step = "prune"
    /\ step' = "sleep"
    /\ events' = AfterSeq(events, upTo)
    /\ lastSnapshotSeq' = upTo
    /\ snapshot' = png
    /\ UNCHANGED <<open, lastSeq, accepted, known, idVars, upTo, png, late, dbVars, awayVars, readVars>>

\* The thread of a state that was stopped comes to its database write.
LateSave(w) ==
    /\ w \in late
    /\ late' = late \ {w}
    /\ stored' = w
    /\ UNCHANGED <<boardVars, idVars, step, upTo, png, rows, awayVars, readVars>>

-----------------------------------------------------------------------------
(* The second server.  A round of its snapshot thread is one step, the write: *)
(* nobody here sees the others.                                               *)

OpenElsewhere ==
    /\ Elsewhere
    /\ open
    /\ split' = TRUE
    /\ \E E \in Loads(AfterSeq(rows, stored.seq)) :
          \E n \in {stored.seq} \cup Seqs(E) :
             /\ \A m \in Seqs(E) : m <= n
             /\ away' = [events |-> E, png |-> stored.png, seq |-> n]
    /\ UNCHANGED <<boardVars, idVars, threadVars, dbVars, readVars>>

AddElsewhere(target) ==
    LET e == [uid |-> accepted + 1, seq |-> away.seq + 1, target |-> target] IN
    /\ split
    /\ accepted < MaxEvents
    /\ accepted' = accepted + 1
    /\ rows' = rows \cup {e}
    /\ away' = [away EXCEPT !.events = @ \cup {e}, !.seq = @ + 1]
    /\ UNCHANGED <<open, events, lastSeq, lastSnapshotSeq, snapshot, known, idVars,
                   threadVars, stored, split, readVars>>

\* The round began when n was the last number.
SaveElsewhere(n) ==
    LET picture == Paint(away.png, UpToSeq(away.events, n)) IN
    /\ split
    /\ Paintable(UpToSeq(away.events, n))
    /\ stored' = [seq |-> n, png |-> picture]
    /\ away' = [away EXCEPT !.events = AfterSeq(@, n), !.png = picture]
    /\ UNCHANGED <<boardVars, idVars, threadVars, rows, split, readVars>>

-----------------------------------------------------------------------------
(* Readers *)

\* The second half of a read has returned picture.
Deliver(kind, picture) ==
    /\ reader' = "idle"
    /\ missed' = [missed EXCEPT ![kind] =
                     (due \cap Uids(Untargeted(known))) \ picture]
    /\ got' = {} /\ due' = {}
    /\ UNCHANGED <<boardVars, idVars, threadVars, dbVars, awayVars>>

Begin(kind, picture) ==
    /\ open
    /\ reader = "idle"
    /\ reader' = kind
    /\ got' = picture
    /\ due' = Uids(Untargeted(known))
    /\ UNCHANGED <<missed, boardVars, idVars, threadVars, dbVars, awayVars>>

\* _handle_join_room: get_snapshot_b64, then get_active_events
SyncBegin == Begin("sync", snapshot)
SyncEnd == reader = "sync" /\ Deliver("sync", Paint(got, events))

\* _handle_export_request: render_png takes the active events, then the
\* snapshot under them
ExportBegin == Begin("export", Uids(Active(events)))
ExportEnd ==
    /\ reader = "export"
    /\ got \cap Broken = {}
    /\ Deliver("export", got \cup snapshot)

\* render_png raises: the answer is an ERROR
ExportFails ==
    /\ reader = "export"
    /\ got \cap Broken # {}
    /\ reader' = "idle" /\ got' = {} /\ due' = {}
    /\ UNCHANGED <<missed, boardVars, idVars, threadVars, dbVars, awayVars>>

-----------------------------------------------------------------------------
Next ==
    \/ OpenRoom \/ CloseRoom
    \/ \E target \in 0..lastSeq, id \in Ids \cup {NoId} : AddEvent(target, id)
    \/ SnapshotBegin \/ SnapshotRender \/ SnapshotSave \/ SnapshotPrune
    \/ \E w \in late : LateSave(w)
    \/ OpenElsewhere
    \/ \E target \in 0..away.seq : AddElsewhere(target)
    \/ \E n \in Seqs(away.events) : SaveElsewhere(n)
    \/ SyncBegin \/ SyncEnd \/ ExportBegin \/ ExportEnd \/ ExportFails

Spec == Init /\ [][Next]_vars

\* The snapshot thread is scheduled, and wakes up every 60 seconds.
Fairness ==
    WF_vars(SnapshotBegin \/ SnapshotRender \/ SnapshotSave \/ SnapshotPrune)

FairSpec == Spec /\ Fairness

-----------------------------------------------------------------------------
(* Properties *)

\* No drawing gets lost between the cache and the snapshot, however drawing
\* interleaves with the steps of the snapshot thread and whatever the
\* database does: the board still shows what nobody has tried to undo.
NoLostDraw == Uids(Untargeted(known)) \subseteq Visible

\* A WhiteboardState made now would show every stored drawing that nobody has
\* tried to undo, also while a thread of an earlier state still overwrites the
\* snapshot: for a database that does not fail, and as long as no second server
\* has had the room open at the same time, whose snapshot hides what is drawn
\* here from the next load.
Recoverable ==
    split \/ \A e \in Untargeted(rows) : e.uid \in stored.png \/ e.seq > stored.seq

\* Sequence numbers order the events: the cache holds exactly the numbers
\* after the snapshot's, and no number is given out twice over the lives of a
\* room: for a database that does not fail, and as long as no second server
\* counts on its own over the same rows, which have no unique key.
SeqsAreDense ==
    ~split =>
        /\ open => Seqs(events) = (lastSnapshotSeq + 1)..lastSeq
        /\ \A e, f \in rows : e.seq = f.seq => e = f

\* An exported picture has every drawing that was on the board when the
\* export began, although it is put together from two reads.
ExportComplete == missed["export"] = {}

\* An event that a client sends again is not drawn again: between two
\* acceptances of one client_event_id by a WhiteboardState there are at least
\* as many others as the history holds.
AcceptedOnce ==
    \A i, j \in 1..Len(sent) : i < j /\ sent[i] = sent[j] => j - i > HistoryLimit

\* Undo and redo of any depth: a new drawing adds itself to the board, and
\* undoing an event of the cache, itself an undo or not, leaves the board as if
\* that event had never been accepted.
UndoIsErasure ==
    [][\A e \in events' :
          e.uid = accepted' /\ accepted' # accepted =>
              Visible' = IF e.target = 0 THEN Visible \cup {e.uid}
                         ELSE Paint(snapshot, {f \in events : f.seq # e.target})]_vars

\* "This keeps memory usage flat regardless of how long the room is open":
\* when drawing pauses, and with MaxEvents it must, nothing stays in the cache,
\* unless the board has an event on it that render_png cannot paint.
CacheIsPruned == []<>(events = {} \/ ~Paintable(events))

-----------------------------------------------------------------------------
(* What the documentation promises and the code does not keep *)

\* docs/RESEARCH.md: "Server seq_num defines canonical draw order"; two servers
\* give out the same ones.
OneNumberEach == \A e, f \in rows : e.seq = f.seq => e = f

\* docs/FEATURE_LOGIC.md on WHITEBOARD_SYNC: "sends full whiteboard state to
\* a joining participant".
SyncComplete == missed["sync"] = {}
=============================================================================
