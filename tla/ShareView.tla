----------------------------- MODULE ShareView ------------------------------
(***************************************************************************)
(* A shared screen as the users of one room see it: ScreenShareWidget      *)
(* (client/ui/screen_share_widget.py) with its capture engine, its         *)
(* executor of remote input and the dialog that asks for consent, and the  *)
(* server's screen and remote control handlers (server/client_handler.py), *)
(* whose threads change the share and then send the news to one user after *)
(* the other.  RoomServer has the steps of the server in more detail.      *)
(*                                                                         *)
(* Every packet about the share carries the number of the change it is     *)
(* about; the program has no such number, it is here to tell whether       *)
(* packets of two threads have overtaken each other.                       *)
(***************************************************************************)
EXTENDS Naturals, Sequences

CONSTANTS
    Users,
    NoUser,
    MaxInputs   \* bound: clicks, remote input events and failures of a capture engine

ASSUME ShareAssumption == NoUser \notin Users /\ MaxInputs \in Nat

VARIABLES
    members,              \* room_data["clients"]
    sharer, controller,   \* ScreenRelayState._share
    pc, msg, todo,        \* a handler, the packet it sends, and whom to
    out, inbox,
    here,       \* the users whose window shows the room
    view,       \* _sharer_user_id and _controller_user_id
    engine,     \* the users whose capture engine runs
    executor,   \* ... whose executor runs
    input,      \* ... whose RemoteControlSender is attached
    failing,    \* ... whose engine has failed, which the window has not heard yet
    dialog,     \* the open questions of a window, the last one on top
    inputs,
    failed,     \* history: a capture engine has failed
    version,    \* history: the changes of the share so far
    silent,     \* history: the last of them gave the control to a user who left, and nobody was told
    newest,     \* history: the last change a user was told of
    overtaken,  \* history: users who were told of an older one after it
    blind,      \* history: users whose window was cleared of a share it knew nothing new of
    released,   \* history: users who gave up the control on their own
    hasty,      \* history: users who started a share while they were behind
    repeated,   \* history: a share was started over one that had a controller
    starts,     \* history: shares a user has tried to start
    share,      \* history: which of them is the one there is
    said,       \* history: in which share a user said yes to whom
    executed    \* history: in which share whose input was executed

relay == <<members, sharer, controller>>
handler == <<pc, msg, todo>>
window == <<here, view, engine, executor, input, failing, dialog>>
bounds == <<inputs, failed>>
order == <<version, silent, newest, overtaken>>
knowledge == <<blind, released, hasty, repeated>>
consent == <<starts, share, said, executed>>
vars == <<relay, handler, out, inbox, window, bounds, order, knowledge, consent>>

Someone == Users \cup {NoUser}
View(s, c) == [sharer |-> s, controller |-> c]
NoShare == View(NoUser, NoUser)
Ops == {"SCREEN_START", "SCREEN_STOP", "REMOTE_REQUEST", "REMOTE_GRANT", "REMOTE_EVENT",
        "JOIN_ROOM", "LEAVE_ROOM", "ROOM_STATE"}
Packet == [op : Ops, sharer : Someone, user : Someone, n : Nat]
NoPacket == [op |-> "none", sharer |-> NoUser, user |-> NoUser, n |-> 0]

\* The steps of LEAVE_ROOM, and the steps of a handler that has nothing to send
Leave == {"state", "leave", "bye", "gone"}
Idle == {"read", "grant", "gone"}

TypeOK ==
    /\ members \subseteq Users
    /\ sharer \in Someone
    /\ controller \in Users \cup {NoUser} /\ (sharer = NoUser => controller = NoUser)
    /\ pc \in [Users -> {"read", "clients", "send", "describe", "grant", "name"} \cup Leave]
    /\ \A u \in Users : pc[u] \notin Idle => msg[u] \in Packet
    /\ \A u \in Users : todo[u] # {} => pc[u] \in {"send", "bye"}
    /\ silent \in BOOLEAN
    /\ {here, engine, executor, input, failing} \subseteq SUBSET Users
    /\ view \in [Users -> [sharer : Someone, controller : Someone]]
    /\ \A u \in Users : u \notin here => view[u] = NoShare /\ u \notin input
    /\ \A u \in Users : \A i \in DOMAIN dialog[u] : dialog[u][i] \in Users \ {u}

\* Everyone is in the room and looks at it.
Init ==
    /\ members = Users
    /\ sharer = NoUser /\ controller = NoUser
    /\ pc = [u \in Users |-> "read"] /\ msg = [u \in Users |-> NoPacket]
    /\ todo = [u \in Users |-> {}]
    /\ out = [u \in Users |-> <<>>] /\ inbox = [u \in Users |-> <<>>]
    /\ here = Users
    /\ view = [u \in Users |-> NoShare]
    /\ engine = {} /\ executor = {} /\ input = {} /\ failing = {}
    /\ dialog = [u \in Users |-> <<>>]
    /\ inputs = 0 /\ failed = FALSE
    /\ version = 0 /\ silent = FALSE /\ newest = [u \in Users |-> 0] /\ overtaken = {}
    /\ blind = {} /\ released = {} /\ hasty = {} /\ repeated = FALSE
    /\ starts = [u \in Users |-> 0] /\ share = 0
    /\ said = [u \in Users |-> {}] /\ executed = [u \in Users |-> {}]

Post(u, op, v) ==
    out' = [out EXCEPT ![u] = Append(@, [op |-> op, sharer |-> u, user |-> v, n |-> starts'[u]])]

Input == inputs < MaxInputs /\ inputs' = inputs + 1

\* An open question blocks the window.
Click(u) == dialog[u] = <<>> /\ Input

\* _clear_share_state
ClearShareState(u) ==
    /\ view' = [view EXCEPT ![u] = NoShare]
    /\ input' = input \ {u}

-----------------------------------------------------------------------------
(* Mutants of the definitions below, for testing the properties *)

\* The engine is stopped whoever's share it was.
StopsAnyEngine(u) == TRUE

\* Closing the question grants the control, whatever the answer.
GrantsAnyway(v, yes) == v

\* Whoever joins learns of the share, not of its controller.
DescribedWithoutController(m) == View(m.sharer, NoUser)

-----------------------------------------------------------------------------
(* The buttons *)

\* u's window does not know how things stand: the end of a share, or the end
\* of u's stay, is under way, somebody else shares, or u is not in the room or
\* came back to it by way of the list.
Behind(u) ==
    \/ \E i \in DOMAIN out[u] : out[u][i].op \in {"SCREEN_STOP", "LEAVE_ROOM"}
    \/ pc[u] \in Leave
    \/ \E v \in Users : msg[v].op = "SCREEN_STOP"
    \/ \E i \in DOMAIN inbox[u] : inbox[u][i].op = "SCREEN_STOP"
    \/ sharer \notin {NoUser, u}
    \/ u \notin members \/ u \in blind

\* RemoteControlExecutor.start, which fails without pyautogui
StartExecutor(u) ==
    \/ executor' = executor \cup {u}
    \/ u \notin executor /\ UNCHANGED executor

\* _start_screen_share: capture starts, and the window takes it that the
\* server will agree.  (Message boxes are answered at once.)
StartScreenShare(u) ==
    /\ Click(u)
    /\ u \in here
    /\ view[u].sharer = NoUser
    /\ u \notin engine
    /\ engine' = engine \cup {u}
    /\ StartExecutor(u)
    /\ view' = [view EXCEPT ![u].sharer = u]
    /\ starts' = [starts EXCEPT ![u] = @ + 1]
    /\ hasty' = IF Behind(u) THEN hasty \cup {u} ELSE hasty
    /\ Post(u, "SCREEN_START", NoUser)
    /\ UNCHANGED <<relay, handler, inbox, here, input, failing, dialog, failed, order,
                   blind, released, repeated, share, said, executed>>

OnStopClicked(u) ==
    /\ Click(u)
    /\ u \in here
    /\ view[u].sharer = u
    /\ engine' = engine \ {u}
    /\ executor' = executor \ {u}
    /\ ClearShareState(u)
    /\ UNCHANGED consent
    /\ Post(u, "SCREEN_STOP", NoUser)
    /\ UNCHANGED <<relay, handler, inbox, here, failing, dialog, failed, order,
                   knowledge>>

OnRequestClicked(u) ==
    /\ Click(u)
    /\ view[u].sharer \notin {NoUser, u}
    /\ view[u].controller = NoUser
    /\ UNCHANGED consent
    /\ Post(u, "REMOTE_REQUEST", NoUser)
    /\ UNCHANGED <<relay, handler, inbox, window, failed, order, knowledge>>

\* The sharer takes the control back by way of the server; a controller who
\* gives it up tells nobody.
OnRevokeClicked(u) ==
    /\ Click(u)
    /\ \/ /\ view[u].sharer = u /\ view[u].controller # NoUser
          /\ UNCHANGED consent
          /\ Post(u, "REMOTE_GRANT", NoUser)
          /\ UNCHANGED <<view, input, released>>
       \/ /\ view[u].sharer # u /\ view[u].controller = u
          /\ view' = [view EXCEPT ![u].controller = NoUser]
          /\ input' = input \ {u}
          /\ released' = released \cup {u}
          /\ UNCHANGED <<out, consent>>
    /\ UNCHANGED <<relay, handler, inbox, here, engine, executor, failing, dialog, failed, order,
                   blind, hasty, repeated>>

\* Whom the sharer's answer gives the control
Granted(v, yes) == IF yes THEN v ELSE NoUser

\* The answer to the question on top
AnswerRequest(u, yes) ==
    LET v == dialog[u][Len(dialog[u])] IN
    /\ dialog[u] # <<>>
    /\ dialog' = [dialog EXCEPT ![u] = SubSeq(@, 1, Len(@) - 1)]
    /\ said' = IF yes THEN [said EXCEPT ![u] = @ \cup {<<starts[u], v>>}] ELSE said
    /\ UNCHANGED <<starts, share, executed>>
    /\ IF u \in here THEN Post(u, "REMOTE_GRANT", Granted(v, yes)) ELSE UNCHANGED out
    /\ UNCHANGED <<relay, handler, inbox, here, view, engine, executor, input, failing, bounds,
                   order, knowledge>>

\* RemoteControlSender.eventFilter
EventFilter(u) ==
    /\ Click(u)
    /\ u \in input
    /\ UNCHANGED consent
    /\ Post(u, "REMOTE_EVENT", u)
    /\ UNCHANGED <<relay, handler, inbox, window, failed, order, knowledge>>

\* set_current_room, from the room to another or to none; a running capture
\* is stopped, the executor is not.
SetCurrentRoom(u, first) ==
    /\ u \in here
    /\ here' = here \ {u}
    /\ engine' = engine \ {u}
    /\ ClearShareState(u)
    /\ UNCHANGED consent
    /\ LET stop == [op |-> "SCREEN_STOP", sharer |-> u, user |-> NoUser, n |-> starts[u]]
       IN  out' = [out EXCEPT ![u] = @ \o first \o (IF u \in engine THEN <<stop>> ELSE <<>>)]
    /\ UNCHANGED <<relay, handler, inbox, executor, failing, dialog, failed, order,
                   knowledge>>

SelectOther(u) == Click(u) /\ SetCurrentRoom(u, <<>>)

LeaveRoom(u) ==
    Click(u) /\ SetCurrentRoom(u, <<[op |-> "LEAVE_ROOM", sharer |-> u, user |-> NoUser, n |-> 0]>>)

\* The room is selected in the list again, which asks the server nothing.
SelectRoom(u) ==
    /\ Click(u)
    /\ u \notin here
    /\ here' = here \cup {u}
    /\ blind' = blind \cup {u}
    /\ UNCHANGED <<relay, handler, out, inbox, view, engine, executor, input, failing, dialog,
                   failed, order, released, hasty, repeated, consent>>

\* JOIN_ROOM, for the first time or again
JoinRoom(u) ==
    /\ Click(u)
    /\ UNCHANGED consent
    /\ Post(u, "JOIN_ROOM", NoUser)
    /\ UNCHANGED <<relay, handler, inbox, window, failed, order, knowledge>>

-----------------------------------------------------------------------------
(* The capture engine *)

\* A thread of the engine fails and stops it ...
EngineFails(u) ==
    /\ u \in engine
    /\ Input
    /\ failed' = TRUE
    /\ engine' = engine \ {u}
    /\ failing' = failing \cup {u}
    /\ UNCHANGED <<relay, handler, out, inbox, here, view, executor, input, dialog, order,
                   knowledge, consent>>

\* ... and the window gets the signal, when it gets to it.
OnEngineStopped(u) ==
    /\ u \in failing
    /\ failing' = failing \ {u}
    /\ executor' = executor \ {u}
    /\ ClearShareState(u)
    /\ UNCHANGED consent
    /\ IF view[u].sharer = u
       THEN Post(u, "SCREEN_STOP", NoUser) /\ UNCHANGED blind
       ELSE blind' = blind \cup {u} /\ UNCHANGED out
    /\ UNCHANGED <<relay, handler, inbox, here, engine, dialog, bounds, order, released,
                   hasty, repeated>>

-----------------------------------------------------------------------------
(* The server *)

\* u's handler is at this step, with such a packet of u's client.
Has(u, step, op) ==
    /\ pc[u] = step
    /\ out[u] # <<>>
    /\ out[u][1].op = op

Done(u) == out' = [out EXCEPT ![u] = Tail(@)]

Handles(u, op) == Has(u, "read", op) /\ Done(u)

GoTo(u, step) ==
    /\ pc' = [pc EXCEPT ![u] = step]
    /\ UNCHANGED todo

\* The share has changed; the packet that says so goes to everyone.
Announce(u, step, op, s, v) ==
    /\ version' = version + 1 /\ silent' = FALSE
    /\ msg' = [msg EXCEPT ![u] = [op |-> op, sharer |-> s, user |-> v, n |-> version + 1]]
    /\ GoTo(u, step)

Ignored(u) == UNCHANGED <<handler, version, silent>>

\* start_share; whoever has it already may start again.
HandleScreenStart(u) ==
    /\ Handles(u, "SCREEN_START")
    /\ \/ /\ u \in members /\ sharer \in {NoUser, u}
          /\ sharer' = u
          /\ share' = IF sharer = u THEN share ELSE out[u][1].n
          /\ repeated' = (repeated \/ controller # NoUser)
          /\ Announce(u, "clients", "SCREEN_START", u, NoUser)
       \/ /\ ~(u \in members /\ sharer \in {NoUser, u})
          /\ Ignored(u)
          /\ UNCHANGED <<sharer, share, repeated>>
    /\ UNCHANGED <<members, controller, inbox, window, bounds, newest, overtaken, blind, released,
                   hasty, starts, said, executed>>

StopShare == sharer' = NoUser /\ controller' = NoUser

HandleScreenStop(u) ==
    /\ Handles(u, "SCREEN_STOP")
    /\ \/ /\ u \in members /\ sharer = u
          /\ StopShare
          /\ Announce(u, "clients", "SCREEN_STOP", u, NoUser)
       \/ /\ ~(u \in members /\ sharer = u)
          /\ Ignored(u)
          /\ UNCHANGED <<sharer, controller>>
    /\ UNCHANGED <<members, inbox, window, bounds, newest, overtaken, knowledge, consent>>

\* A packet for the sharer alone, as of now
Forward(u, p) ==
    /\ msg' = [msg EXCEPT ![u] = p]
    /\ pc' = [pc EXCEPT ![u] = "send"]
    /\ todo' = [todo EXCEPT ![u] = {sharer}]
    /\ UNCHANGED <<version, silent>>

HandleRemoteRequest(u) ==
    LET admitted == u \in members /\ sharer \in members \ {u} IN
    /\ Handles(u, "REMOTE_REQUEST")
    /\ \/ /\ admitted
          /\ Forward(u, [op |-> "REMOTE_REQUEST", sharer |-> sharer, user |-> u, n |-> version])
       \/ ~admitted /\ Ignored(u)
    /\ UNCHANGED <<relay, inbox, window, bounds, newest, overtaken, knowledge, consent>>

\* A denial or a revocation: set_controller clears the control.
HandleRemoteGrant(u) ==
    LET target == out[u][1].user
        admitted == u \in members /\ sharer = u
    IN
    /\ Handles(u, "REMOTE_GRANT")
    /\ \/ /\ admitted /\ target = NoUser
          /\ controller' = NoUser
          /\ Announce(u, "clients", "REMOTE_GRANT", u, NoUser)
       \/ /\ ~(admitted /\ target \in members \cup {NoUser})
          /\ Ignored(u)
          /\ UNCHANGED controller
    /\ UNCHANGED <<members, sharer, inbox, window, bounds, newest, overtaken, knowledge, consent>>

\* A grant: its target is in the room ...
FindTarget(u) ==
    /\ Has(u, "read", "REMOTE_GRANT")
    /\ u \in members /\ sharer = u /\ out[u][1].user \in members
    /\ GoTo(u, "grant")
    /\ UNCHANGED <<relay, msg, out, inbox, window, bounds, order, knowledge, consent>>

\* ... and gets the control, also if it has left since; set_controller asks
\* once more whether u shares.  A target that is not in the room then has no
\* name in the packet ...
SetController(u) ==
    LET target == out[u][1].user IN
    /\ Has(u, "grant", "REMOTE_GRANT") /\ Done(u)
    /\ sharer = u
    /\ controller' = target
    /\ Announce(u, IF target \in members THEN "name" ELSE "clients", "REMOTE_GRANT", u, target)
    /\ UNCHANGED <<members, sharer, inbox, window, bounds, newest, overtaken, knowledge, consent>>

\* ... and one that leaves before its name is read makes the handler fail.
\* (One that leaves before the handler looks whether it has a name is as one
\* that leaves after its name was read.)
ReadName(u) ==
    /\ pc[u] = "name"
    /\ \/ /\ msg[u].user \in members
          /\ GoTo(u, "clients")
          /\ UNCHANGED <<msg, silent>>
       \/ /\ msg[u].user \notin members
          /\ GoTo(u, "read")
          /\ msg' = [msg EXCEPT ![u] = NoPacket]
          /\ silent' = (silent \/ msg[u].n = version)
    /\ UNCHANGED <<relay, out, inbox, window, bounds, version, newest, overtaken, knowledge, consent>>

MaySend(u) == sharer # NoUser /\ controller = u

HandleRemoteEvent(u) ==
    LET admitted == u \in members /\ MaySend(u) /\ sharer \in members IN
    /\ Handles(u, "REMOTE_EVENT")
    /\ \/ /\ admitted
          /\ Forward(u, [op |-> "REMOTE_EVENT", sharer |-> sharer, user |-> u, n |-> share])
       \/ ~admitted /\ Ignored(u)
    /\ UNCHANGED <<relay, inbox, window, bounds, newest, overtaken, knowledge, consent>>

\* _handle_leave_room gives up the share, or the control, tells the others,
\* and then leaves the room.
HandleLeaveRoom(u) ==
    /\ Handles(u, "LEAVE_ROOM")
    /\ \/ /\ sharer = u
          /\ StopShare
          /\ Announce(u, "leave", "SCREEN_STOP", u, NoUser)
       \/ /\ sharer # u /\ controller = u
          /\ controller' = NoUser
          /\ UNCHANGED sharer
          /\ Announce(u, "state", "REMOTE_GRANT", sharer, NoUser)
       \/ /\ u \notin {sharer, controller}
          /\ GoTo(u, "gone")
          /\ UNCHANGED <<sharer, controller, msg, version, silent>>
    /\ UNCHANGED <<members, inbox, window, bounds, newest, overtaken, knowledge, consent>>

\* Nothing is sent of a control whose share is over by now.
GetState(u) ==
    /\ pc[u] = "state"
    /\ \/ /\ sharer # NoUser
          /\ GoTo(u, "leave")
          /\ UNCHANGED msg
       \/ /\ sharer = NoUser
          /\ GoTo(u, "gone")
          /\ msg' = [msg EXCEPT ![u] = NoPacket]
    /\ UNCHANGED <<relay, out, inbox, window, bounds, order, knowledge, consent>>

\* RoomManager.leave_room
GiveUpSeat(u) ==
    /\ pc[u] = "gone"
    /\ members' = members \ {u}
    /\ GoTo(u, "read")
    /\ UNCHANGED <<sharer, controller, msg, out, inbox, window, bounds, order, knowledge, consent>>

HandleJoinRoom(u) ==
    /\ Handles(u, "JOIN_ROOM")
    /\ members' = members \cup {u}
    /\ msg' = [msg EXCEPT ![u] = [NoPacket EXCEPT !.op = "ROOM_STATE"]]
    /\ GoTo(u, "describe")
    /\ UNCHANGED <<sharer, controller, inbox, window, bounds, order, knowledge, consent>>

\* The share as it is now goes into the ROOM_STATE.
Describe(u) ==
    /\ pc[u] = "describe"
    /\ msg' = [msg EXCEPT ![u] = [op |-> "ROOM_STATE", sharer |-> sharer, user |-> controller,
                                  n |-> version]]
    /\ pc' = [pc EXCEPT ![u] = "send"]
    /\ todo' = [todo EXCEPT ![u] = {u}]
    /\ UNCHANGED <<relay, out, inbox, window, bounds, order, knowledge, consent>>

\* What comes after the last packet
After(step) == IF step \in Leave THEN "gone" ELSE "read"

\* get_room_clients; whoever leaves does not tell itself.
GetRoomClients(u) ==
    LET others == IF pc[u] = "leave" THEN members \ {u} ELSE members IN
    /\ pc[u] \in {"clients", "leave"}
    /\ \/ /\ others # {}
          /\ todo' = [todo EXCEPT ![u] = others]
          /\ pc' = [pc EXCEPT ![u] = IF @ = "leave" THEN "bye" ELSE "send"]
          /\ UNCHANGED msg
       \/ /\ others = {}
          /\ pc' = [pc EXCEPT ![u] = After(@)]
          /\ msg' = [msg EXCEPT ![u] = NoPacket]
          /\ UNCHANGED todo
    /\ UNCHANGED <<relay, out, inbox, window, bounds, order, knowledge, consent>>

\* handler.send: the next user gets the packet.
Send(u, v) ==
    LET m == msg[u]
        news == m.op \notin {"REMOTE_REQUEST", "REMOTE_EVENT"}
        late == news /\ m.n < newest[v]
    IN
    /\ pc[u] \in {"send", "bye"}
    /\ v \in todo[u]
    /\ inbox' = [inbox EXCEPT ![v] = Append(@, m)]
    /\ todo' = [todo EXCEPT ![u] = @ \ {v}]
    /\ pc' = [pc EXCEPT ![u] = IF todo[u] = {v} THEN After(@) ELSE @]
    /\ msg' = [msg EXCEPT ![u] = IF todo[u] = {v} THEN NoPacket ELSE @]
    /\ newest' = IF news /\ ~late THEN [newest EXCEPT ![v] = m.n] ELSE newest
    /\ overtaken' = IF late THEN overtaken \cup {v} ELSE overtaken
    /\ UNCHANGED <<relay, out, window, bounds, version, silent, knowledge, consent>>

-----------------------------------------------------------------------------
(* The window handles the next packet *)

Takes(u, op) ==
    /\ inbox[u] # <<>>
    /\ inbox[u][1].op = op
    /\ inbox' = [inbox EXCEPT ![u] = Tail(@)]

\* The attached sender stays attached.
OnScreenStart(u) ==
    /\ Takes(u, "SCREEN_START")
    /\ IF u \in here
       THEN /\ view' = [view EXCEPT ![u] = View(inbox[u][1].sharer, NoUser)]
            /\ blind' = blind \ {u} /\ released' = released \ {u} /\ UNCHANGED <<hasty, repeated>>
       ELSE UNCHANGED <<view, knowledge>>
    /\ UNCHANGED <<relay, handler, out, here, engine, executor, input, failing, dialog, bounds,
                   order, consent>>

StopsEngine(u) == view[u].sharer = u

\* Whose share it was does not matter to the executor.
OnScreenStop(u) ==
    /\ Takes(u, "SCREEN_STOP")
    /\ IF u \in here
       THEN /\ engine' = IF StopsEngine(u) THEN engine \ {u} ELSE engine
            /\ executor' = executor \ {u}
            /\ ClearShareState(u)
            /\ blind' = blind \ {u} /\ released' = released \ {u} /\ UNCHANGED <<hasty, repeated>>
       ELSE UNCHANGED <<engine, executor, view, input, knowledge>>
    /\ UNCHANGED <<relay, handler, out, here, failing, dialog, bounds, order, consent>>

\* The question, or without an executor the answer
OnRemoteRequest(u) ==
    LET v == inbox[u][1].user IN
    /\ Takes(u, "REMOTE_REQUEST")
    /\ UNCHANGED consent
    /\ \/ /\ u \in here /\ view[u].sharer = u /\ u \in executor
          /\ dialog' = [dialog EXCEPT ![u] = Append(@, v)]
          /\ UNCHANGED out
       \/ /\ u \in here /\ view[u].sharer = u /\ u \notin executor
          /\ Post(u, "REMOTE_GRANT", NoUser)
          /\ UNCHANGED dialog
       \/ ~(u \in here /\ view[u].sharer = u) /\ UNCHANGED <<out, dialog>>
    /\ UNCHANGED <<relay, handler, here, view, engine, executor, input, failing, bounds, order,
                   knowledge>>

\* A sharer without an executor takes the grant back.
OnRemoteGrant(u) ==
    LET target == inbox[u][1].user IN
    /\ Takes(u, "REMOTE_GRANT")
    /\ UNCHANGED consent
    /\ IF u \in here
       THEN /\ view' = [view EXCEPT ![u].controller = target]
            /\ input' = IF target = u THEN input \cup {u}
                        ELSE IF target = NoUser /\ view[u].controller = u THEN input \ {u}
                        ELSE input
            /\ released' = released \ {u}
            /\ IF target # NoUser /\ view[u].sharer = u /\ u \notin executor
               THEN Post(u, "REMOTE_GRANT", NoUser) ELSE UNCHANGED out
       ELSE UNCHANGED <<view, input, released, out>>
    /\ UNCHANGED <<relay, handler, here, engine, executor, failing, dialog, bounds, order, blind,
                   hasty, repeated>>

\* RemoteControlExecutor.submit and its thread
Execute(u, e) ==
    executed' = IF u \in executor THEN [executed EXCEPT ![u] = @ \cup {<<e.n, e.user>>}]
                ELSE executed

OnRemoteEvent(u) ==
    /\ Takes(u, "REMOTE_EVENT")
    /\ IF u \in here /\ view[u].sharer = u THEN Execute(u, inbox[u][1]) ELSE UNCHANGED executed
    /\ UNCHANGED <<relay, handler, out, window, bounds, order, knowledge, starts, share, said>>

Described(m) == View(m.sharer, m.user)

\* The room becomes the current one; what another room's capture and dialogs
\* do is left out.
HandleRoomState(u) ==
    LET m == inbox[u][1] IN
    /\ Takes(u, "ROOM_STATE")
    /\ here' = here \cup {u}
    /\ view' = [view EXCEPT ![u] = Described(m)]
    /\ input' = IF m.sharer = NoUser THEN input \ {u} ELSE input
    /\ blind' = blind \ {u} /\ released' = released \ {u} /\ UNCHANGED <<hasty, repeated>>
    /\ UNCHANGED <<relay, handler, out, engine, executor, failing, dialog, bounds, order, consent>>

-----------------------------------------------------------------------------
Clicks(u) ==
    \/ StartScreenShare(u) \/ OnStopClicked(u) \/ OnRequestClicked(u) \/ OnRevokeClicked(u)
    \/ SelectOther(u) \/ LeaveRoom(u) \/ SelectRoom(u) \/ JoinRoom(u)
    \/ \E yes \in BOOLEAN : AnswerRequest(u, yes)
    \/ EventFilter(u)

Handler(u) ==
    \/ HandleScreenStart(u) \/ HandleScreenStop(u) \/ HandleRemoteRequest(u)
    \/ HandleRemoteGrant(u) \/ FindTarget(u) \/ SetController(u) \/ ReadName(u)
    \/ HandleRemoteEvent(u)
    \/ HandleLeaveRoom(u) \/ GetState(u) \/ GiveUpSeat(u)
    \/ HandleJoinRoom(u) \/ Describe(u) \/ GetRoomClients(u)
    \/ \E v \in Users : Send(u, v)

Window(u) ==
    \/ OnScreenStart(u) \/ OnScreenStop(u) \/ OnRemoteRequest(u) \/ OnRemoteGrant(u)
    \/ OnRemoteEvent(u) \/ HandleRoomState(u)

Next ==
    \E u \in Users : Clicks(u) \/ EngineFails(u) \/ OnEngineStopped(u) \/ Handler(u) \/ Window(u)

Spec == Init /\ [][Next]_vars

-----------------------------------------------------------------------------
\* Nothing is under way to or from u.
Quiet(u) ==
    /\ out[u] = <<>> /\ inbox[u] = <<>>
    /\ u \notin failing
    /\ \A v \in Users : pc[v] = "read"

\* A window shows the share and the controller there are, once it has heard
\* all there is to hear, however starts, stops, requests, grants and rejoins
\* of two users crossed.  Not so if packets overtook each other, if the user
\* came back to the room by way of the list, or gave the control up alone.
\* And two things hide the controller: a share that is started over itself,
\* and, until the next change of the share, a grant to a user who left while
\* it was made, for which the handler fails before it has told anybody.
ViewsAgree ==
    \A u \in here \cap members :
        Quiet(u) /\ u \notin overtaken \cup blind \cup released =>
            /\ view[u].sharer = sharer
            /\ view[u].controller = controller \/ repeated \/ silent

Captures(u) == Quiet(u) /\ sharer = u /\ u \notin overtaken /\ ~failed => u \in engine

\* Whoever shares, in the eyes of the server, captures: a share that the
\* others wait for is not one of an engine that was stopped by the end of
\* somebody else's share, or by a change of rooms.  Only a failure of the
\* engine, a SCREEN_STOP that was overtaken, or a share that is started before
\* the window has heard of the end of another one, leaves a share without one.
EngineServes == \A u \in members \ hasty : Captures(u)

\* No input is executed but that of users to whom the sharer has said yes
\* since the share began in which the server let it pass: a grant does not
\* outlive its share.
ConsentNeeded ==
    \A u \in Users : \A e \in executed[u] : \E y \in said[u] : y[1] >= e[1] /\ y[2] = e[2]

-----------------------------------------------------------------------------
(* What the documentation promises and the code does not keep *)

\* client/ui/screen_share_widget.py:312: "The sharer's own engine was already started by
\* _on_share_clicked before SCREEN_START was sent."
SharerCaptures == \A u \in members : Captures(u)
=============================================================================
