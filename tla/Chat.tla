------------------------------- MODULE Chat ---------------------------------
(***************************************************************************)
(* Text messages: the chat panel of the clients (client/ui/chat_widget.py  *)
(* as main_window.py drives it), the handlers that join rooms and store    *)
(* and send messages (_handle_chat_message and the history part of         *)
(* _handle_join_room in server/client_handler.py), MessageService, and     *)
(* the Redis channel dm_messages between the servers (server/main.py).     *)
(*                                                                         *)
(* A client may come back, here or elsewhere, before the server has        *)
(* cleaned up after its last connection.  The handler it left is overtaken *)
(* then: it stands in the tables for a while, and takes the present one    *)
(* out of them if that is on the same server.                              *)
(* A message is its number in the table; packets and rooms of the panel    *)
(* have sets of them.  A regular room can be entered on the server it is   *)
(* pinned to (RoomRouting), a DM room anywhere.                            *)
(***************************************************************************)
EXTENDS Naturals, Sequences, FiniteSets

CONSTANTS
    Users,
    Servers,
    NoServer,
    Rooms,
    DmRooms,
    Pair,            \* the two users of a DM room
    Pin,             \* the server of a regular room
    NoRoom,
    HistoryLimit,    \* MESSAGE_HISTORY_LIMIT
    MaxMessages,     \* bound: messages sent
    MaxClicks,       \* bound: rooms joined or left by hand, here or by a move
    MaxLosses        \* bound: lost connections

ASSUME ChatAssumption ==
    /\ DmRooms \subseteq Rooms /\ IsFiniteSet(Rooms)
    /\ NoServer \notin Servers /\ NoRoom \notin Rooms
    /\ Pin \in [Rooms \ DmRooms -> Servers]
    /\ \A r \in DmRooms : \E u, v \in Users : u # v /\ Pair[r] = {u, v}
    /\ {HistoryLimit, MaxMessages, MaxClicks, MaxLosses} \subseteq Nat

VARIABLES
    up,        \* the clients that are connected
    home,      \* the server with the handler of a user, until it has cleaned up
    session,   \* which of the connections of a user this one is, from 1
    out,       \* packets from a client to its handler
    inbox,     \* packets from the server to a client
    clients,   \* by server: who is in which room, with the latest connection
    stale,     \* by server: who is in which room with an overtaken one
    lapsed,    \* by server: whose handler in _clients is an overtaken one
    old,       \* by server and user: the overtaken handlers that have not cleaned up
    cut,       \* whose latest connection one of them took out of all tables
    log,       \* the table messages: room and sender
    pc, doing, \* a handler, and the packet it is at
    id,        \* the message it has stored
    targets,   \* the handlers it found in the room: a user, and which connection
    channel,   \* by server: what the subscription to dm_messages has for it
    view,      \* _room_messages: rooms in the order they came, with their messages
    current,   \* _current_room
    codes,     \* ConnectionManager._room_codes
    sent, clicks, losses,
    got,       \* history: the CHAT_MESSAGEs each handler of a user was asked to send
    twice,     \* history: a handler was asked twice
    joined,    \* history: rooms whose history was sent on this connection
    unseen,    \* history: messages a client has no way to know of
    unechoed,  \* history: messages whose sender was not in the room to see them
    misfiled   \* history: rooms whose history went to another room's view

client == <<view, current, codes>>
network == <<up, home, session, out, inbox>>
leftover == <<stale, lapsed, old, cut>>
server == <<clients, leftover, log, channel>>
handler == <<pc, doing, id, targets>>
bounds == <<sent, clicks, losses>>
history == <<got, twice, joined, unseen, unechoed, misfiled>>
vars == <<client, network, server, handler, bounds, history>>

NoPacket == [op |-> "none", room |-> NoRoom]
Requests == [op : {"JOIN_ROOM", "LEAVE_ROOM", "CHAT_MESSAGE"}, room : Rooms]
Answers == [type : {"ROOM_STATE", "MESSAGE_HISTORY", "CHAT_MESSAGE"}, room : Rooms,
            messages : SUBSET Nat]
Entries == [room : Rooms, by : Users]
Pushes == [to : Users, msg : Nat]
Panels == [room : Rooms, messages : SUBSET Nat]

\* The rooms of the panel and the messages it has
RoomsIn(v) == {v[i].room : i \in DOMAIN v}
Shown(u) == UNION {view[u][i].messages : i \in DOMAIN view[u]}

PanelTypes ==
    /\ view \in [Users -> Seq(Panels)]
    /\ \A u \in Users : \A i, j \in DOMAIN view[u] : view[u][i].room = view[u][j].room => i = j
    /\ current \in [Users -> Rooms \cup {NoRoom}]
    /\ codes \in [Users -> SUBSET Rooms]

NetworkTypes ==
    /\ up \subseteq Users
    /\ home \in [Users -> Servers \cup {NoServer}] /\ \A u \in up : home[u] \in Servers
    /\ session \in [Users -> Nat \ {0}]
    /\ out \in [Users -> Seq(Requests)]
    /\ inbox \in [Users -> Seq(Answers)]

ServerTypes ==
    /\ clients \in [Servers -> [Rooms -> SUBSET Users]]
    /\ stale \in [Servers -> [Rooms -> SUBSET Users]]
    /\ lapsed \in [Servers -> SUBSET Users]
    /\ old \in [Servers -> [Users -> Nat]]
    /\ cut \subseteq Users
    /\ log \in Seq(Entries)
    /\ channel \in [Servers -> Seq(Pushes)]

HandlerTypes ==
    /\ pc \in [Users -> {"read", "history", "stored", "send"}]
    /\ doing \in [Users -> Requests \cup {NoPacket}]
    /\ \A u \in Users : pc[u] # "read" => doing[u] \in Requests /\ home[u] \in Servers
    /\ id \in [Users -> Nat]
    /\ targets \in [Users -> SUBSET (Users \X Nat)]

HistoryTypes ==
    /\ got \in [Users -> SUBSET (Nat \X Nat)]
    /\ joined \in [Users -> SUBSET Rooms]
    /\ unseen \in [Users -> SUBSET Nat]
    /\ unechoed \subseteq Nat
    /\ misfiled \in [Users -> SUBSET Rooms]

TypeOK == PanelTypes /\ NetworkTypes /\ ServerTypes /\ HandlerTypes /\ HistoryTypes

Init ==
    /\ up = Users
    /\ home \in [Users -> Servers] /\ session = [u \in Users |-> 1]
    /\ out = [u \in Users |-> <<>>] /\ inbox = [u \in Users |-> <<>>]
    /\ clients = [s \in Servers |-> [r \in Rooms |-> {}]] /\ stale = clients
    /\ lapsed = [s \in Servers |-> {}] /\ old = [s \in Servers |-> [u \in Users |-> 0]]
    /\ cut = {}
    /\ log = <<>>
    /\ channel = [s \in Servers |-> <<>>]
    /\ pc = [u \in Users |-> "read"] /\ doing = [u \in Users |-> NoPacket]
    /\ id = [u \in Users |-> 0] /\ targets = [u \in Users |-> {}]
    /\ view = [u \in Users |-> <<>>] /\ current = [u \in Users |-> NoRoom]
    /\ codes = [u \in Users |-> {}]
    /\ sent = 0 /\ clicks = 0 /\ losses = 0
    /\ got = [u \in Users |-> {}] /\ twice = FALSE
    /\ joined = [u \in Users |-> {}] /\ unseen = [u \in Users |-> {}]
    /\ unechoed = {} /\ misfiled = [u \in Users |-> {}]

-----------------------------------------------------------------------------
(* Mutants of the definitions below, for testing the properties *)

\* The recipient is pushed the message although it is in the room.
NeverDelivered(u, v) == FALSE

\* The sender of a DM does not enter the room.
NoLazyJoin(u, s, r) == {}

\* The history is that of the moment before the join.
HistoryWithoutLast(r) ==
    LET of == {m \in 1 .. Len(log) : log[m].room = r} IN {m \in of : \E k \in of : k > m}

-----------------------------------------------------------------------------
(* The chat panel *)

Post(u, op, r) == out' = [out EXCEPT ![u] = Append(@, [op |-> op, room |-> r])]

Click == clicks < MaxClicks /\ clicks' = clicks + 1

AddRoom(v, r) ==
    IF r \in RoomsIn(v) THEN v ELSE Append(v, [room |-> r, messages |-> {}])

IndexOf(v, r) == CHOOSE i \in DOMAIN v : v[i].room = r

Without(v, r) ==
    IF r \in RoomsIn(v)
    THEN [i \in 1 .. Len(v) - 1 |-> IF i < IndexOf(v, r) THEN v[i] ELSE v[i + 1]]
    ELSE v

\* _on_create_room, _on_join_room, _on_start_dm, or an invitation accepted
OnJoinRoom(u, r) ==
    /\ u \in up
    /\ Click
    /\ Post(u, "JOIN_ROOM", r)
    /\ UNCHANGED <<client, up, home, session, inbox, server, handler, sent, losses, history>>

\* The room goes from the panel at once, but not from _room_codes.
OnLeaveRoom(u) ==
    /\ u \in up
    /\ current[u] # NoRoom
    /\ Click
    /\ Post(u, "LEAVE_ROOM", current[u])
    /\ view' = [view EXCEPT ![u] = Without(@, current[u])]
    /\ current' = [current EXCEPT ![u] = NoRoom]
    /\ joined' = [joined EXCEPT ![u] = @ \ {current[u]}]
    /\ UNCHANGED <<codes, up, home, session, inbox, server, handler, sent, losses, got, twice, unseen,
                   unechoed, misfiled>>

OnRoomSelected(u, r) ==
    /\ r \in RoomsIn(view[u]) \ {current[u]}
    /\ current' = [current EXCEPT ![u] = r]
    /\ UNCHANGED <<view, codes, network, server, handler, bounds, history>>

\* _on_send and _on_attach
OnSend(u) ==
    /\ u \in up
    /\ current[u] # NoRoom
    /\ sent < MaxMessages
    /\ sent' = sent + 1
    /\ Post(u, "CHAT_MESSAGE", current[u])
    /\ UNCHANGED <<client, up, home, session, inbox, server, handler, clicks, losses, history>>


\* load_history knows the room by the messages of it that are shown already;
\* if there are none it takes the first room of the panel.
HistoryRoom(v, r) ==
    LET having == {i \in DOMAIN v : \E m \in v[i].messages : log[m].room = r}
    IN  IF having = {} THEN 1 ELSE CHOOSE i \in having : \A k \in having : i <= k

\* add_message, in a room that is added if need be
AddMessage(v, r, ms) == [AddRoom(v, r) EXCEPT ![IndexOf(AddRoom(v, r), r)].messages = @ \cup ms]

\* _handle_packet: a ROOM_STATE adds the room and makes it the current one, a
\* MESSAGE_HISTORY is added to what is there, a CHAT_MESSAGE to its room.
HandlePacket(u) ==
    LET p == Head(inbox[u])
        r == p.room
        v == AddRoom(view[u], r)
        h == HistoryRoom(view[u], r)
    IN
    /\ u \in up
    /\ inbox[u] # <<>>
    /\ inbox' = [inbox EXCEPT ![u] = Tail(@)]
    /\ \/ /\ p.type = "ROOM_STATE"
          /\ view' = [view EXCEPT ![u] = v]
          /\ current' = [current EXCEPT ![u] = r]
          /\ codes' = [codes EXCEPT ![u] = RoomsIn(v)]
          /\ UNCHANGED misfiled
       \/ /\ p.type = "MESSAGE_HISTORY"
          /\ \/ view[u] = <<>> /\ UNCHANGED <<view, misfiled>>
             \/ /\ view[u] # <<>>
                /\ view' = [view EXCEPT ![u][h].messages = @ \cup p.messages]
                /\ misfiled' = IF view[u][h].room = r \/ p.messages = {} THEN misfiled
                               ELSE [misfiled EXCEPT ![u] = @ \cup {r}]
          /\ UNCHANGED <<current, codes>>
       \/ /\ p.type = "CHAT_MESSAGE"
          /\ view' = [view EXCEPT ![u] = AddMessage(@, r, p.messages)]
          /\ current' = IF r \in RoomsIn(view[u]) THEN current ELSE [current EXCEPT ![u] = r]
          /\ UNCHANGED <<codes, misfiled>>
    /\ UNCHANGED <<up, home, session, out, server, handler, bounds, got, twice, joined, unseen,
                   unechoed>>

-----------------------------------------------------------------------------
(* Connections *)

\* The connection is lost or given up, with all that is under way on it.
Lose(u) ==
    /\ u \in up
    /\ losses < MaxLosses
    /\ losses' = losses + 1
    /\ up' = up \ {u}
    /\ out' = [out EXCEPT ![u] = <<>>]
    /\ inbox' = [inbox EXCEPT ![u] = <<>>]
    /\ joined' = [joined EXCEPT ![u] = {}]
    /\ UNCHANGED <<client, home, session, server, handler, sent, clicks, got, twice, unseen, unechoed,
                   misfiled>>

\* remove_client_from_all_rooms and unregister_client know the user's name only.
Unregister(u, s) ==
    /\ clients' = [clients EXCEPT ![s] = [r \in Rooms |-> @[r] \ {u}]]
    /\ stale' = [stale EXCEPT ![s] = [r \in Rooms |-> @[r] \ {u}]]
    /\ lapsed' = [lapsed EXCEPT ![s] = @ \ {u}]

\* _cleanup, when the handler is back at its loop
Cleanup(u) ==
    /\ u \notin up
    /\ home[u] # NoServer
    /\ pc[u] = "read"
    /\ Unregister(u, home[u])
    /\ home' = [home EXCEPT ![u] = NoServer]
    /\ UNCHANGED <<client, up, session, out, inbox, old, cut, log, channel, handler, bounds, history>>

\* The same of an overtaken handler
CleanupOld(u, s) ==
    /\ old[s][u] > 0
    /\ old' = [old EXCEPT ![s][u] = @ - 1]
    /\ Unregister(u, s)
    /\ cut' = IF home[u] = s THEN cut \cup {u} ELSE cut
    /\ unechoed' = IF home[u] = s /\ pc[u] = "stored" THEN unechoed \cup {id[u]} ELSE unechoed
    /\ UNCHANGED <<client, network, log, channel, handler, bounds, got, twice, joined, unseen, misfiled>>

\* The client may come back sooner than its server cleans up; what is left of
\* the last connection is an overtaken handler's then.
Overtake(u, h) ==
    /\ old' = [old EXCEPT ![h][u] = @ + 1]
    /\ stale' = [stale EXCEPT ![h] = [r \in Rooms |-> @[r] \cup (clients[h][r] \cap {u})]]
    /\ clients' = [clients EXCEPT ![h] = [r \in Rooms |-> @[r] \ {u}]]

\* register_client: the name stands for the new handler on server s.
Register(u, s) ==
    /\ lapsed' = [t \in Servers |-> IF t = s THEN lapsed[t] \ {u}
                                    ELSE IF t = home[u] /\ u \notin cut THEN lapsed[t] \cup {u}
                                    ELSE lapsed[t]]
    /\ cut' = cut \ {u}

\* _reconnect_loop, where the rooms of _room_codes are joined again, or the end
\* of a move to another server, which is for one room.  The last handler is back at its loop.
Reconnect(u, s) ==
    /\ u \notin up
    /\ pc[u] = "read"
    /\ up' = up \cup {u}
    /\ home' = [home EXCEPT ![u] = s]
    /\ session' = [session EXCEPT ![u] = @ + 1]
    /\ \/ \E order \in [1 .. Cardinality(codes[u]) -> codes[u]] :
          /\ {order[i] : i \in DOMAIN order} = codes[u]
          /\ UNCHANGED clicks
          /\ out' = [out EXCEPT ![u] = [i \in DOMAIN order |->
                                          [op |-> "JOIN_ROOM", room |-> order[i]]]]
       \/ \E r \in Rooms : Click /\ out' = [out EXCEPT ![u] = <<[op |-> "JOIN_ROOM", room |-> r]>>]
    /\ Register(u, s)
    /\ \/ home[u] # NoServer /\ Overtake(u, home[u])
       \/ home[u] = NoServer /\ UNCHANGED <<old, stale, clients>>
    /\ UNCHANGED <<client, inbox, log, channel, handler, sent, losses, history>>

-----------------------------------------------------------------------------
(* The handlers *)

GoTo(u, step) ==
    /\ pc' = [pc EXCEPT ![u] = step]
    /\ doing' = IF step = "read" THEN [doing EXCEPT ![u] = NoPacket] ELSE doing

\* handler.send of v's handlers, if they are connected
Sent(box, vs, p) == [v \in Users |-> IF v \in vs \cap up THEN Append(box[v], p) ELSE box[v]]

Packet(type, r, ms) == [type |-> type, room |-> r, messages |-> ms]

Admits(s, r) == r \notin DmRooms => Pin[r] = s

\* The next packet.  A JOIN_ROOM enters the room and is answered with the
\* ROOM_STATE; a room of another server, or one that cannot be stored, with an
\* error.
HandleJoinRoom(u) ==
    LET p == Head(out[u])
        s == home[u]
    IN
    /\ u \in up
    /\ pc[u] = "read" /\ out[u] # <<>> /\ p.op = "JOIN_ROOM"
    /\ out' = [out EXCEPT ![u] = Tail(@)]
    /\ \/ /\ Admits(s, p.room)
          /\ clients' = [clients EXCEPT ![s][p.room] = @ \cup {u}]
          /\ stale' = [stale EXCEPT ![s][p.room] = @ \ {u}]
          /\ inbox' = Sent(inbox, {u}, Packet("ROOM_STATE", p.room, {}))
          /\ pc' = [pc EXCEPT ![u] = "history"]
          /\ doing' = [doing EXCEPT ![u] = p]
       \/ UNCHANGED <<clients, stale, inbox, pc, doing>>
    /\ UNCHANGED <<client, up, home, session, lapsed, old, cut, log, channel, id, targets, bounds,
                   history>>

\* get_history: the last messages of the room
GetHistory(r) == {m \in 1 .. Len(log) : log[m].room = r}

Latest(ms) == {m \in ms : Cardinality({k \in ms : k > m}) < HistoryLimit}

SendHistory(u) ==
    LET r == doing[u].room
        all == {m \in 1 .. Len(log) : log[m].room = r}
    IN
    /\ pc[u] = "history"
    /\ \E found \in {Latest(GetHistory(r)), {}} :
          \* none, when the database fails
          /\ inbox' = Sent(inbox, {u}, Packet("MESSAGE_HISTORY", r, found))
          /\ unseen' = [unseen EXCEPT ![u] =
                           (@ \ found) \cup
                           (IF found = {} THEN all ELSE {m \in all : \A k \in found : m < k})]
    /\ joined' = IF u \in up THEN [joined EXCEPT ![u] = @ \cup {r}] ELSE joined
    /\ GoTo(u, "read")
    /\ UNCHANGED <<client, up, home, session, out, server, id, targets, bounds, got, twice, unechoed,
                   misfiled>>

HandleLeaveRoom(u) ==
    LET p == Head(out[u]) IN
    /\ u \in up
    /\ pc[u] = "read" /\ out[u] # <<>> /\ p.op = "LEAVE_ROOM"
    /\ out' = [out EXCEPT ![u] = Tail(@)]
    /\ clients' = [clients EXCEPT ![home[u]][p.room] = @ \ {u}]
    /\ stale' = [stale EXCEPT ![home[u]][p.room] = @ \ {u}]
    /\ joined' = [joined EXCEPT ![u] = @ \ {p.room}]
    /\ UNCHANGED <<client, up, home, session, inbox, lapsed, old, cut, log, channel, handler, bounds, got,
                   twice, unseen, unechoed, misfiled>>

\* The sender of a DM whose name is not in the room on this server enters it.
LazyJoin(u, s, r) == IF r \in DmRooms /\ u \notin stale[s][r] THEN {u} ELSE {}

StoreMessage(u, r) ==
    /\ log' = Append(log, [room |-> r, by |-> u])
    /\ id' = [id EXCEPT ![u] = Len(log) + 1]

\* _handle_chat_message: the message is stored if the room is open here, and
\* the database does not fail; an error otherwise, before or after the join.
HandleChatMessage(u) ==
    LET p == Head(out[u])
        s == home[u]
        there == clients[s][p.room] \cup LazyJoin(u, s, p.room)
    IN
    /\ u \in up
    /\ pc[u] = "read" /\ out[u] # <<>> /\ p.op = "CHAT_MESSAGE"
    /\ out' = [out EXCEPT ![u] = Tail(@)]
    /\ \/ /\ there \cup stale[s][p.room] # {}
          /\ clients' = [clients EXCEPT ![s][p.room] = there]
          /\ StoreMessage(u, p.room)
          /\ unechoed' = IF u \in stale[s][p.room] THEN unechoed \cup {Len(log) + 1} ELSE unechoed
          /\ pc' = [pc EXCEPT ![u] = "stored"]
          /\ doing' = [doing EXCEPT ![u] = p]
       \/ /\ clients' \in {clients, [clients EXCEPT ![s][p.room] = there]}
          /\ UNCHANGED <<log, id, pc, doing, unechoed>>
    /\ UNCHANGED <<client, up, home, session, inbox, leftover, channel, targets, bounds, got, twice,
                   joined, unseen, misfiled>>

\* The handlers in the room; 0 is an overtaken connection.
GetClients(u) ==
    /\ pc[u] = "stored"
    /\ targets' = [targets EXCEPT ![u] = {<<v, session[v]>> : v \in clients[home[u]][doing[u].room]}
                                         \cup (stale[home[u]][doing[u].room] \X {0})]
    /\ GoTo(u, "send")
    /\ UNCHANGED <<client, network, server, id, bounds, history>>

\* _extract_dm_recipient: the other user of a DM room, if any
Recipient(u, r) == IF r \in DmRooms /\ u \in Pair[r] THEN Pair[r] \ {u} ELSE {}

\* by name, also if the handler that was found is gone
AlreadyDelivered(u, v) == \E t \in targets[u] : t[1] = v

\* get_client_by_username finds the latest handler of v on server s.
Registered(v, s) == home[v] = s /\ v \notin cut

\* History: message m for the present handlers of the users vs
Noted(vs, m) == [v \in Users |-> IF v \in vs THEN got[v] \cup {<<m, session[v]>>} ELSE got[v]]
Had(vs, m) == \E v \in vs : <<m, session[v]>> \in got[v]

\* The handlers found get the message; in a DM room the other user gets it too,
\* from this server if it is connected here, by way of Redis if not.  Who has
\* only an overtaken handler here counts as served (lost).
Deliver(u) ==
    LET s == home[u]
        r == doing[u].room
        m == id[u]
        pushed == {v \in Recipient(u, r) : ~AlreadyDelivered(u, v)}
        local == {v \in pushed : Registered(v, s)}
        remote == pushed \ (local \cup lapsed[s])
        there == {v \in Users : <<v, session[v]>> \in targets[u]}
        lost == Recipient(u, r) \ (there \cup local \cup remote)
        p == Packet("CHAT_MESSAGE", r, {m})
    IN
    /\ pc[u] = "send"
    /\ inbox' = Sent(Sent(inbox, there, p), local, p)
    /\ got' = Noted(there \cup local, m)
    /\ twice' = (twice \/ there \cap local # {} \/ Had(there \cup local, m))
    /\ \E failed \in {{}, remote} :       \* all, when publish fails
          /\ channel' = IF remote = failed THEN channel
                        ELSE [t \in Servers |->
                                IF t = s THEN channel[t]
                                ELSE Append(channel[t], [to |-> CHOOSE v \in remote : TRUE, msg |-> m])]
          /\ unseen' = [v \in Users |-> IF v \in lost \cup failed THEN unseen[v] \cup {m} ELSE unseen[v]]
    /\ targets' = [targets EXCEPT ![u] = {}]
    /\ id' = [id EXCEPT ![u] = 0]
    /\ GoTo(u, "read")
    /\ UNCHANGED <<client, up, home, session, out, clients, leftover, log, bounds, joined, unechoed,
                   misfiled>>

\* _handle_dm_message, in the thread of the subscription
HandleDmMessage(s) ==
    LET d == Head(channel[s]) IN
    /\ channel[s] # <<>>
    /\ channel' = [channel EXCEPT ![s] = Tail(@)]
    /\ \/ /\ Registered(d.to, s)
          /\ inbox' = Sent(inbox, {d.to}, Packet("CHAT_MESSAGE", log[d.msg].room, {d.msg}))
          /\ got' = Noted({d.to}, d.msg)
          /\ twice' = (twice \/ Had({d.to}, d.msg))
       \/ ~Registered(d.to, s) /\ UNCHANGED <<inbox, got, twice>>
    /\ UNCHANGED <<client, up, home, session, out, clients, leftover, log, handler, bounds, joined, unseen,
                   unechoed, misfiled>>

-----------------------------------------------------------------------------
Next ==
    \/ \E u \in Users :
          \/ \E r \in Rooms : OnJoinRoom(u, r) \/ OnRoomSelected(u, r)
          \/ OnLeaveRoom(u) \/ OnSend(u) \/ HandlePacket(u)
          \/ Lose(u) \/ Cleanup(u)
          \/ \E s \in Servers : Reconnect(u, s) \/ CleanupOld(u, s)
          \/ HandleJoinRoom(u) \/ SendHistory(u) \/ HandleLeaveRoom(u)
          \/ HandleChatMessage(u) \/ GetClients(u) \/ Deliver(u)
    \/ \E s \in Servers : HandleDmMessage(s)

Spec == Init /\ [][Next]_vars

-----------------------------------------------------------------------------
\* A message comes to a connection once, although three ways lead there: the
\* room, the direct push and Redis, and although users change servers.  (To a
\* user it may come again: it waits for the user in the channels of all the
\* other servers, and a user who reconnects may meet it at the second one.)
LiveOnce == ~twice

\* Whoever sends a direct message has it echoed when the handler is done with
\* it, also if the sender was never in the room; unless the room has an
\* overtaken handler of the sender, or one takes the sender out of it meanwhile.
\* (A regular room has no such care: who sends without being in it sees nothing.)
SenderSees ==
    \A m \in 1 .. Len(log) :
        LET u == log[m].by IN
        log[m].room \in DmRooms /\ m \notin unechoed => id[u] = m \/ \E g \in got[u] : g[1] = m

\* No gap between the history and the live messages: a client that has joined
\* a room has every message of it, or it is on its way, or the database or
\* Redis failed it, or it is past the limit of the history, or the sender's
\* server sent it to a connection that was overtaken; as long as no overtaken
\* handler has taken the client out of the tables.
Coming(u) ==
    LET pushes == UNION {{channel[s][i] : i \in DOMAIN channel[s]} : s \in Servers}
    IN  (UNION {inbox[u][i].messages : i \in DOMAIN inbox[u]})
        \cup {d.msg : d \in {e \in pushes : e.to = u}}
        \cup {id[v] : v \in Users}

Leaving(u) ==
    LET ps == {out[u][i] : i \in DOMAIN out[u]} IN {p.room : p \in {q \in ps : q.op = "LEAVE_ROOM"}}

\* A DM room is that of two users; whoever else enters it is not served.
Meant(m, u) == log[m].room \in DmRooms => {u, log[m].by} \subseteq Pair[log[m].room]

JoinedSeeAll ==
    \A u \in up \ cut : \A m \in 1 .. Len(log) :
        log[m].room \in joined[u] \ (misfiled[u] \cup Leaving(u)) /\ Meant(m, u) =>
            m \in Shown(u) \cup Coming(u) \cup unseen[u]

-----------------------------------------------------------------------------
(* What the documentation promises and the code does not keep *)

\* docs/FEATURE_LOGIC.md:45: "Message history is loaded when a user joins a
\* room", to be read there.
HistoryInItsRoom == \A u \in Users : misfiled[u] = {}
=============================================================================
