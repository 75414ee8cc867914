----------------------------- MODULE BoardView ------------------------------
(***************************************************************************)
(* The whiteboard as the users of one room see it: WhiteboardWidget with   *)
(* its canvas and its undo and redo stacks (client/ui/                     *)
(* whiteboard_widget.py), WhiteboardEngine, the handlers of                *)
(* ScreenShareWidget for DRAW_BROADCAST and WHITEBOARD_SYNC, and the       *)
(* server's _handle_draw_event, whose threads accept an event, read the    *)
(* list of active events and send the broadcast to one user after the      *)
(* other, each in a step of its own.  Whiteboard models the server's board *)
(* in detail; here it is a set of events and a snapshot.                   *)
(*                                                                         *)
(* What is drawn is a number.  An inbox is what a user was sent and the    *)
(* window has not handled yet.  The window shows one room at a time: a     *)
(* user may turn it to another room and back, which asks the server for    *)
(* nothing, and meanwhile it drops what comes for this one.                *)
(***************************************************************************)
EXTENDS DrawEvents, Sequences, FiniteSets

CONSTANTS
    Users,
    MaxRequests,   \* bound: DRAW_EVENTs sent
    MaxMoves       \* bound: joins after the first and changes to another
                   \* room, together

ASSUME BoardAssumption == MaxRequests \in Nat /\ MaxMoves \in Nat

VARIABLES
    events,      \* WhiteboardState._events
    lastSeq,     \* _last_seq
    picture,     \* the drawings in the snapshot
    ids,         \* _processed_event_ids
    step,        \* what a user's handler thread does
    msg,         \* ... the packet it is making or sending
    todo,        \* ... and the users it still has to send it to
    out,         \* the DRAW_EVENTs of a user on their way to the server
    inbox,
    here,        \* the users whose ScreenShareWidget._room_code is the room
    items,       \* _scene_items, without the snapshot
    backdrop,    \* the drawings in the snapshot under them
    drawn,       \* _my_drawn_seqs
    undone,      \* _my_undone_seqs
    redo,        \* _undo_to_redo_map, as a set of pairs
    counter,     \* WhiteboardEngine._local_counter
    requests,    \* DRAW_EVENTs sent so far
    moves,
    newest,      \* history: the newest state a user was sent
    outOfOrder,  \* history: the users who were sent an older one after it
    blind,       \* history: the users whose window was cleared or was at
                 \* another room since the last sync it handled
    reused       \* history: a client_event_id came a second time

server == <<events, lastSeq, picture, ids>>
handler == <<step, msg, todo>>
canvas == <<items, backdrop>>
stacks == <<drawn, undone, redo>>
input == <<out, counter, requests>>
history == <<newest, outOfOrder, reused>>
window == <<here, blind>>
vars == <<server, handler, inbox, canvas, stacks, input, moves, history, window>>

Request == [id: Nat, target: Nat, art: Nat]
Item == [seq: Nat, art: Nat]
Packet == [kind: {"draw", "undo", "sync"}, by: Users, seq: Nat, target: Nat, art: Nat,
           list: SUBSET Item, backdrop: SUBSET Nat]

NoDuplicates(s) == \A i, j \in DOMAIN s : s[i] = s[j] => i = j

\* The state is well formed; in particular no drawing is on the stacks of a
\* user twice, so neither button acts on one twice.
TypeOK ==
    /\ lastSeq \in 0 .. MaxRequests
    /\ \A e \in events : e.seq \in 1 .. lastSeq /\ e.target \in 0 .. (e.seq - 1)
    /\ \A e, f \in events : e.seq = f.seq => e = f
    /\ step \in [Users -> {"read", "list", "send", "sync", "sync_list"}]
    /\ here \subseteq Users /\ blind \subseteq Users
    /\ \A u \in Users :
          /\ step[u] # "read" => msg[u] \in Packet
          /\ todo[u] # {} => step[u] = "send"
          /\ \A i \in 1 .. Len(out[u]) : out[u][i] \in Request
          /\ \A i \in 1 .. Len(inbox[u]) : inbox[u][i] \in Packet
          /\ \A x, y \in items[u] : x.seq = y.seq => x = y
          /\ \A p, q \in redo[u] : p[1] = q[1] => p = q
          /\ reused \/ NoDuplicates(drawn[u] \o undone[u])

\* Everyone has joined and the board is empty.
Init ==
    /\ events = {} /\ lastSeq = 0 /\ picture = {} /\ ids = {}
    /\ step = [u \in Users |-> "read"]
    /\ msg = [u \in Users |-> <<>>]
    /\ todo = [u \in Users |-> {}]
    /\ out = [u \in Users |-> <<>>]
    /\ inbox = [u \in Users |-> <<>>]
    /\ items = [u \in Users |-> {}]
    /\ backdrop = [u \in Users |-> {}]
    /\ drawn = [u \in Users |-> <<>>]
    /\ undone = [u \in Users |-> <<>>]
    /\ redo = [u \in Users |-> {}]
    /\ counter = [u \in Users |-> 0]
    /\ requests = 0
    /\ moves = 0
    /\ here = Users /\ blind = {}
    /\ newest = [u \in Users |-> 0]
    /\ outOfOrder = {}
    /\ reused = FALSE

ItemsOf(E) == {[seq |-> e.seq, art |-> e.art] : e \in E}
Arts(E) == {e.art : e \in E}
Rest(s) == SubSeq(s, 1, Len(s) - 1)

-----------------------------------------------------------------------------
(* Mutants of the definitions below, for testing the properties *)

\* replace_events draws the list over what is there.
ReplaceOver(u, list) ==
    /\ items' = [items EXCEPT ![u] = {x \in @ : x.seq \notin Seqs(list)} \cup list]
    /\ backdrop' = [backdrop EXCEPT ![u] = {}]

\* record_own_undo takes its arguments the other way round.
RecordSwapped(u, target, seq) ==
    redo' = [redo EXCEPT ![u] = {p \in @ : p[1] # seq} \cup {<<seq, target>>}]

\* An undone drawing stays on the stack.
UndoKeeps(u) ==
    /\ u \in here
    /\ drawn[u] # <<>>
    /\ requests < MaxRequests
    /\ undone' = [undone EXCEPT ![u] = Append(@, drawn[u][Len(drawn[u])])]
    /\ requests' = requests + 1
    /\ counter' = [counter EXCEPT ![u] = @ + 1]
    /\ out' = [out EXCEPT ![u] = Append(@, [id |-> counter[u] + 1, art |-> requests + 1,
                                           target |-> drawn[u][Len(drawn[u])]])]
    /\ UNCHANGED <<server, handler, inbox, canvas, drawn, redo, moves, history, window>>

-----------------------------------------------------------------------------
(* Drawing: WhiteboardScene and the buttons of WhiteboardWidget *)

\* send_draw_event for this room, with the next client_event_id
SendDrawEvent(u, target) ==
    /\ u \in here
    /\ requests < MaxRequests
    /\ requests' = requests + 1
    /\ counter' = [counter EXCEPT ![u] = @ + 1]
    /\ out' = [out EXCEPT ![u] = Append(@, [id |-> counter[u] + 1, art |-> requests + 1,
                                           target |-> target])]

\* mouseReleaseEvent: a shape that is large enough is complete, which ends
\* the redo stack (_on_shape_completed), and goes to the server.
ShapeCompleted(u) ==
    /\ SendDrawEvent(u, 0)
    /\ undone' = [undone EXCEPT ![u] = <<>>]
    /\ redo' = [redo EXCEPT ![u] = {}]
    /\ UNCHANGED <<server, handler, inbox, canvas, drawn, moves, history, window>>

OnUndoClicked(u) ==
    /\ drawn[u] # <<>>
    /\ LET target == drawn[u][Len(drawn[u])] IN
          /\ drawn' = [drawn EXCEPT ![u] = Rest(@)]
          /\ undone' = [undone EXCEPT ![u] = Append(@, target)]
          /\ SendDrawEvent(u, target)
    /\ UNCHANGED <<server, handler, inbox, canvas, redo, moves, history, window>>

\* Without the number of the undo event, which is not known before its
\* broadcast has come back, the drawing is dropped from the stack.
OnRedoClicked(u) ==
    /\ undone[u] # <<>>
    /\ LET target == undone[u][Len(undone[u])]
           undo == {p \in redo[u] : p[1] = target}
       IN
       /\ undone' = [undone EXCEPT ![u] = Rest(@)]
       /\ \/ /\ undo = {}
             /\ UNCHANGED <<drawn, out, counter, requests>>
          \/ \E p \in undo :
                /\ SendDrawEvent(u, p[2])
                /\ drawn' = [drawn EXCEPT ![u] = Append(@, target)]
    /\ UNCHANGED <<server, handler, inbox, canvas, redo, moves, history, window>>

-----------------------------------------------------------------------------
(* The server: _handle_draw_event, the sync of a join, and the snapshots *)

\* add_event.  An id that was processed before is answered with the number of
\* the event that had it, or with the last number; the handler goes on with it
\* as with a new event.
AddEvent(u) ==
    /\ step[u] = "read"
    /\ out[u] # <<>>
    /\ LET r == out[u][1]
           again == <<u, r.id>> \in ids
           twin == {e \in events : e.by = u /\ e.id = r.id}
           seq == IF ~again THEN lastSeq + 1
                  ELSE IF twin # {} THEN CHOOSE n \in Seqs(twin) : TRUE ELSE lastSeq
       IN
       /\ lastSeq' = IF again THEN lastSeq ELSE seq
       /\ events' = IF again THEN events
                    ELSE events \cup {[seq |-> seq, target |-> r.target, art |-> r.art,
                                       by |-> u, id |-> r.id]}
       /\ ids' = ids \cup {<<u, r.id>>}
       /\ reused' = (reused \/ again)
       /\ msg' = [msg EXCEPT ![u] =
                    [kind |-> IF r.target = 0 THEN "draw" ELSE "undo", by |-> u,
                     seq |-> seq, target |-> r.target, art |-> r.art,
                     list |-> {}, backdrop |-> {}]]
       /\ step' = [step EXCEPT ![u] = IF r.target = 0 THEN "send" ELSE "list"]
       /\ todo' = [todo EXCEPT ![u] = IF r.target = 0 THEN Users ELSE {}]
    /\ out' = [out EXCEPT ![u] = Tail(@)]
    /\ UNCHANGED <<picture, inbox, canvas, stacks, counter, requests, moves,
                   newest, outOfOrder, window>>

\* The broadcast of an undo carries get_active_events, as of now.
ListActive(u) ==
    /\ step[u] = "list"
    /\ msg' = [msg EXCEPT ![u].list = ItemsOf(Active(events))]
    /\ step' = [step EXCEPT ![u] = "send"]
    /\ todo' = [todo EXCEPT ![u] = Users]
    /\ UNCHANGED <<server, inbox, canvas, stacks, input, moves, history, window>>

\* _handle_join_room reads the snapshot ...
SyncSnapshot(u) ==
    /\ step[u] = "sync"
    /\ msg' = [msg EXCEPT ![u].backdrop = picture]
    /\ step' = [step EXCEPT ![u] = "sync_list"]
    /\ UNCHANGED <<server, todo, inbox, canvas, stacks, input, moves, history, window>>

\* ... then the events.
SyncEvents(u) ==
    /\ step[u] = "sync_list"
    /\ msg' = [msg EXCEPT ![u].list = ItemsOf(Active(events)), ![u].seq = lastSeq]
    /\ step' = [step EXCEPT ![u] = "send"]
    /\ todo' = [todo EXCEPT ![u] = {u}]
    /\ UNCHANGED <<server, inbox, canvas, stacks, input, moves, history, window>>

\* _broadcast_to_room: the next user gets the packet.
Send(u, v) ==
    LET m == msg[u]
        late == IF m.kind = "sync" THEN m.seq < newest[v] ELSE m.seq <= newest[v]
    IN
    /\ v \in todo[u]
    /\ inbox' = [inbox EXCEPT ![v] = Append(@, m)]
    /\ todo' = [todo EXCEPT ![u] = @ \ {v}]
    /\ step' = [step EXCEPT ![u] = IF todo[u] = {v} THEN "read" ELSE "send"]
    /\ msg' = IF todo[u] = {v} THEN [msg EXCEPT ![u] = <<>>] ELSE msg
    /\ newest' = [newest EXCEPT ![v] = IF late THEN @ ELSE m.seq]
    /\ outOfOrder' = IF late THEN outOfOrder \cup {v}
                     ELSE IF m.kind = "sync" THEN outOfOrder \ {v} ELSE outOfOrder
    /\ UNCHANGED <<server, canvas, stacks, input, moves, reused, window>>

\* The snapshot thread paints the events up to a number and prunes them;
\* later ones may have been accepted since it read the number.
TakeSnapshot ==
    /\ \E n \in Seqs(events) :
          /\ picture' = picture \cup Arts(Active(UpToSeq(events, n)))
          /\ events' = AfterSeq(events, n)
    /\ UNCHANGED <<lastSeq, ids, handler, inbox, canvas, stacks, input, moves, history, window>>

-----------------------------------------------------------------------------
(* The window handles the next packet *)

Draw(u, item) ==
    /\ items' = [items EXCEPT ![u] = {x \in @ : x.seq # item.seq} \cup {item}]
    /\ UNCHANGED backdrop

\* scene.clear() and an apply_event for each event of the list
Replace(u, list) ==
    /\ items' = [items EXCEPT ![u] = list]
    /\ backdrop' = [backdrop EXCEPT ![u] = {}]

RecordOwnUndo(u, target, seq) ==
    redo' = [redo EXCEPT ![u] = {p \in @ : p[1] # target} \cup {<<target, seq>>}]

\* on_draw_broadcast
OnDrawBroadcast(u) ==
    /\ u \in here
    /\ inbox[u] # <<>>
    /\ LET m == inbox[u][1] IN
       \/ /\ m.kind = "draw"
          /\ Draw(u, [seq |-> m.seq, art |-> m.art])
          /\ drawn' = IF m.by = u THEN [drawn EXCEPT ![u] = Append(@, m.seq)] ELSE drawn
          /\ UNCHANGED redo
       \/ /\ m.kind = "undo"
          /\ Replace(u, m.list)
          /\ IF m.by = u THEN RecordOwnUndo(u, m.target, m.seq) ELSE UNCHANGED redo
          /\ UNCHANGED drawn
    /\ inbox' = [inbox EXCEPT ![u] = Tail(@)]
    /\ UNCHANGED <<server, handler, undone, out, counter, requests, moves, history, window>>

ClearStacks(u) ==
    /\ drawn' = [drawn EXCEPT ![u] = <<>>]
    /\ undone' = [undone EXCEPT ![u] = <<>>]
    /\ redo' = [redo EXCEPT ![u] = {}]

ApplySnapshot(u, png) == backdrop' = [backdrop EXCEPT ![u] = png]

\* on_whiteboard_sync: clear_all, then the snapshot and the events
OnWhiteboardSync(u) ==
    /\ u \in here
    /\ inbox[u] # <<>>
    /\ inbox[u][1].kind = "sync"
    /\ items' = [items EXCEPT ![u] = inbox[u][1].list]
    /\ ApplySnapshot(u, inbox[u][1].backdrop)
    /\ ClearStacks(u)
    /\ inbox' = [inbox EXCEPT ![u] = Tail(@)]
    /\ blind' = blind \ {u}
    /\ UNCHANGED <<server, handler, out, counter, requests, moves, history, here>>

\* Either packet, when the window is at another room
PacketDropped(u) ==
    /\ u \notin here
    /\ inbox[u] # <<>>
    /\ inbox' = [inbox EXCEPT ![u] = Tail(@)]
    /\ UNCHANGED <<server, handler, canvas, stacks, input, moves, history, window>>

-----------------------------------------------------------------------------
(* set_current_room: clear_all *)

ClearAll(u) ==
    /\ items' = [items EXCEPT ![u] = {}]
    /\ backdrop' = [backdrop EXCEPT ![u] = {}]
    /\ ClearStacks(u)
    /\ blind' = blind \cup {u}

\* The user chooses another room of the list, leaves this one, or is told of
\* the ROOM_STATE of another.
SelectOther(u) ==
    /\ u \in here
    /\ moves < MaxMoves
    /\ moves' = moves + 1
    /\ here' = here \ {u}
    /\ ClearAll(u)
    /\ UNCHANGED <<server, handler, inbox, input, history>>

\* The user chooses this one, which sends no JOIN_ROOM, or its ROOM_STATE comes.
SelectRoom(u) ==
    /\ u \notin here
    /\ here' = here \cup {u}
    /\ ClearAll(u)
    /\ UNCHANGED <<server, handler, inbox, input, moves, history>>

-----------------------------------------------------------------------------
(* Joining again *)

SyncStarts(u) ==
    /\ moves < MaxMoves
    /\ moves' = moves + 1
    /\ step[u] = "read"
    /\ msg' = [msg EXCEPT ![u] = [kind |-> "sync", by |-> u, seq |-> 0, target |-> 0,
                                  art |-> 0, list |-> {}, backdrop |-> {}]]

\* JOIN_ROOM for the room the user is in, over the same connection
JoinAgain(u) ==
    /\ SyncStarts(u)
    /\ out[u] = <<>>
    /\ step' = [step EXCEPT ![u] = "sync"]
    /\ UNCHANGED <<server, todo, inbox, canvas, stacks, input, history, window>>

\* Broadcasts in progress go to the handler of the old connection.
NewSession(u) ==
    /\ todo' = [v \in Users |-> todo[v] \ {u}]
    /\ step' = [v \in Users |-> IF v = u THEN "sync"
                                 ELSE IF todo[v] = {u} THEN "read" ELSE step[v]]

\* The connection is lost with what was on its way, and _reconnect_loop
\* joins again.
Reconnect(u) ==
    /\ SyncStarts(u)
    /\ \E n \in 0 .. Len(inbox[u]) : inbox' = [inbox EXCEPT ![u] = SubSeq(@, 1, n)]
    /\ out' = [out EXCEPT ![u] = <<>>]
    /\ NewSession(u)
    /\ UNCHANGED <<server, canvas, stacks, counter, requests, history, window>>

\* The program is started again, at no room; its event ids start from 1 again.
Restart(u) ==
    /\ SyncStarts(u)
    /\ inbox' = [inbox EXCEPT ![u] = <<>>]
    /\ out' = [out EXCEPT ![u] = <<>>]
    /\ NewSession(u)
    /\ counter' = [counter EXCEPT ![u] = 0]
    /\ here' = here \ {u}
    /\ ClearAll(u)
    /\ UNCHANGED <<server, requests, history>>

Next ==
    \/ \E u \in Users :
          \/ ShapeCompleted(u) \/ OnUndoClicked(u) \/ OnRedoClicked(u)
          \/ AddEvent(u) \/ ListActive(u) \/ SyncSnapshot(u) \/ SyncEvents(u)
          \/ \E v \in Users : Send(u, v)
          \/ OnDrawBroadcast(u) \/ OnWhiteboardSync(u) \/ PacketDropped(u)
          \/ SelectOther(u) \/ SelectRoom(u)
          \/ JoinAgain(u) \/ Reconnect(u) \/ Restart(u)
    \/ TakeSnapshot

Spec == Init /\ [][Next]_vars

-----------------------------------------------------------------------------
\* Nothing is on its way to or from u's window.
Quiet(u) ==
    /\ inbox[u] = <<>> /\ out[u] = <<>>
    /\ step[u] = "read"
    /\ \A v \in Users : step[v] # "list" /\ u \notin todo[v]

\* A user who was sent the broadcasts in the order of the sequence numbers
\* since the last sync, undo lists and all, and whose window has been at the
\* room since that sync, sees every active event that is not in the snapshot
\* yet, and as long as nothing is, the server's board to the letter.
\* (replace_events takes the snapshot off the canvas, so what is in there may
\* be missing; broadcasts of several threads may overtake each other, after
\* which a canvas may differ until the next sync; and the window of a user who
\* has looked at another room is empty when it comes back, also until then.)
InOrderView ==
    \A u \in Users : Quiet(u) /\ u \notin outOfOrder \cup blind =>
        /\ ItemsOf(Active(events)) \subseteq items[u]
        /\ lastSeq = Cardinality(events) => items[u] = ItemsOf(Active(events))

\* What Redo will aim at is the user's last undo event for that drawing,
\* once everything sent has been answered, however fast undo and redo were
\* clicked before.
RedoAimsAtLastUndo ==
    \A u \in Users : Quiet(u) /\ ~reused =>
        \A i \in 1 .. Len(undone[u]) : \E p \in redo[u] :
            /\ p[1] = undone[u][i]
            /\ \A e \in events : e.by = u /\ e.target = p[1] => e.seq <= p[2]

-----------------------------------------------------------------------------
(* What the documentation promises and the code does not keep *)

\* client/features/whiteboard_engine.py: "Generates unique client-side event
\* IDs to match incoming acknowledgments".
UniqueIds == ~reused
=============================================================================
