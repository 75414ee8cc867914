----------------------------- MODULE ChatProofs -----------------------------
(***************************************************************************)
(* Proofs about Chat, for any number of users, servers, rooms, messages,   *)
(* clicks and losses: its types; that no connection gets a message twice;  *)
(* that senders see what they send; and that whoever has joined a room     *)
(* misses nothing of it.                                                   *)
(*                                                                         *)
(* LiveOnce: what a handler has stored is sent to nobody before (Storing), *)
(* and what waits in the channel of a user's server has not been sent to   *)
(* the user's connection (Sending).                                        *)
(*                                                                         *)
(* SenderSees: the sender of a DM is in the room when the handler stores   *)
(* the message, and so among those it delivers to (Echoing), unless it is  *)
(* there with an overtaken handler only.                                   *)
(*                                                                         *)
(* JoinedSeeAll: a message of a room that u has joined is in the panel of  *)
(* u, in a packet that will go to its room, in the channel of u's server,  *)
(* promised by a handler, or known to be unseen (Covering).  That needs    *)
(* where users are (Places: GetClients finds all who have joined, or they  *)
(* are on another server and the room is a DM, or an overtaken handler of  *)
(* theirs has cut them off), and that a history comes after the ROOM_STATE *)
(* of its room (Filed).                                                    *)
(***************************************************************************)
EXTENDS Chat, FiniteSetTheorems, WellFoundedInduction, TLAPS

\* The handler of u has stored a message, and is not done with it.
Busy(u) == pc[u] \in {"stored", "send"}

\* Message m was sent to nobody yet.
Unsent(m) ==
    /\ \A v \in Users : \A g \in got[v] : g[1] # m
    /\ \A s \in Servers : \A i \in 1 .. Len(channel[s]) : channel[s][i].msg # m

\* What is stored is sent later; every message has a number of its own.
Storing ==
    /\ \A u \in Users : Busy(u) => id[u] \in 1 .. Len(log) /\ Unsent(id[u])
    /\ \A u, v \in Users : Busy(u) /\ Busy(v) /\ id[u] = id[v] => u = v

\* What was sent is in the table, and a connection that is to get a message by
\* way of Redis has not got it.
Sending ==
    /\ \A v \in Users : \A g \in got[v] : g[1] <= Len(log) /\ g[2] <= session[v]
    /\ \A s \in Servers : \A i \in 1 .. Len(channel[s]) :
          LET d == channel[s][i] IN
          /\ d.msg \in 1 .. Len(log)
          /\ home[d.to] = s => <<d.msg, session[d.to]>> \notin got[d.to]
    /\ \A s \in Servers : \A i, j \in 1 .. Len(channel[s]) :
          channel[s][i].msg = channel[s][j].msg => i = j

\* Whoever sends a DM is in the room, and among those it is delivered to, unless
\* an overtaken handler of the sender has to do with it.
Echo(u) ==
    /\ ~Busy(u) => id[u] = 0
    /\ Busy(u) => log[id[u]].by = u /\ log[id[u]].room = doing[u].room
    /\ doing[u].room \in DmRooms =>
          /\ pc[u] = "stored" => u \in clients[home[u]][doing[u].room] \/ id[u] \in unechoed
          /\ pc[u] = "send" => <<u, session[u]>> \in targets[u] \/ id[u] \in unechoed

Echoing == \A u \in Users : Echo(u)

\* Where users are
Places ==
    /\ \A s \in Servers : \A r \in Rooms : \A u \in clients[s][r] :
          home[u] = s /\ (r \notin DmRooms => Pin[r] = s)
    /\ \A s \in Servers : \A r \in Rooms : stale[s][r] # {} /\ r \notin DmRooms => Pin[r] = s
    /\ \A u \in Users : \A r \in joined[u] : u \in up /\ (u \in clients[home[u]][r] \/ u \in cut)
    /\ \A u \in Users : pc[u] = "history" => u \in clients[home[u]][doing[u].room] \/ u \in cut
    /\ \A u \in Users : Busy(u) /\ doing[u].room \notin DmRooms => home[u] = Pin[doing[u].room]

\* Panel v has room r when it comes to the i-th packet of b.
Opened(v, b, r, i) ==
    \/ r \in RoomsIn(v)
    \/ \E j \in 1 .. i - 1 : b[j].type = "ROOM_STATE" /\ b[j].room = r

\* The messages of packets are in the table, and in the room of the packet; the
\* history of a room comes after the ROOM_STATE.
BoxFiled(b) ==
    \A i \in 1 .. Len(b) :
        /\ \A m \in b[i].messages : m \in 1 .. Len(log) /\ log[m].room = b[i].room
        /\ b[i].type = "ROOM_STATE" => b[i].messages = {}
HistoryOpen(u) ==
    u \in up /\ pc[u] = "history" /\ doing[u].room \notin Leaving(u) =>
        Opened(view[u], inbox[u], doing[u].room, Len(inbox[u]) + 1)
Filed == \A u \in Users : BoxFiled(inbox[u]) /\ HistoryOpen(u)

\* Where a message of room r can be: in a panel, in a packet that will go to
\* its room, in the channel of the user's server, or with a handler that is not
\* done with it
InPanel(v, r, m) == \E i \in 1 .. Len(v) : v[i].room = r /\ m \in v[i].messages
InBox(v, b, r, m) ==
    \E i \in 1 .. Len(b) : m \in b[i].messages /\ (b[i].type = "MESSAGE_HISTORY" => Opened(v, b, r, i))
InChannel(c, u, m) == \E i \in 1 .. Len(c) : c[i].to = u /\ c[i].msg = m
PromisedBy(v, u, m) ==
    /\ Busy(v) /\ id[v] = m
    /\ pc[v] = "send" =>
          \/ <<u, session[u]>> \in targets[v]
          \/ log[m].room \in DmRooms /\ u # v
Promised(u, m) == \E v \in Users : PromisedBy(v, u, m)

Covered(u, m) ==
    \/ InPanel(view[u], log[m].room, m)
    \/ InBox(view[u], inbox[u], log[m].room, m)
    \/ InChannel(channel[home[u]], u, m)
    \/ Promised(u, m)
    \/ m \in unseen[u]

\* The messages a client is to have
Owed(u, m) == log[m].room \in joined[u] \ (misfiled[u] \cup Leaving(u)) /\ Meant(m, u)

Covering == \A u \in up \ cut : \A m \in 1 .. Len(log) : Owed(u, m) => Covered(u, m)

-----------------------------------------------------------------------------
(* The rooms of a panel *)

OneEach(v) == \A i, j \in DOMAIN v : v[i].room = v[j].room => i = j

\* Every room of v is in w, with all its messages.
Keeps(v, w) ==
    \A i \in 1 .. Len(v) : \E j \in 1 .. Len(w) :
        w[j].room = v[i].room /\ v[i].messages \subseteq w[j].messages

\* A set of numbers has a smallest one.
LEMMA Smallest == ASSUME NEW S \in SUBSET Nat, S # {} PROVE \E i \in S : \A k \in S : i <= k
<1> DEFINE R == OpToRel(<, Nat)
<1>1. IsWellFoundedOn(R, Nat)
  BY NatLessThanWellFounded
<1>2. \A x, y \in Nat : x < y => <<x, y>> \in R
  BY DEF OpToRel
<1> HIDE DEF R
<1>3. PICK i \in S : \A y \in S : ~ (<<y, i>> \in R)
  BY <1>1, WFMin
<1>4. ASSUME NEW k \in S PROVE i <= k
  <2>1. i \in Nat /\ k \in Nat
    OBVIOUS
  <2>2. ~ (<<k, i>> \in R)
    BY <1>3
  <2>3. ~ (k < i)
    BY <1>2, <2>1, <2>2
  <2> QED
    BY <2>1, <2>3
<1> QED
  BY <1>4

\* A room that is added comes last, if it is not there.
LEMMA RoomAdded ==
    ASSUME NEW v \in Seq(Panels), OneEach(v), NEW r \in Rooms
    PROVE /\ AddRoom(v, r) \in Seq(Panels) /\ OneEach(AddRoom(v, r)) /\ Keeps(v, AddRoom(v, r))
          /\ \E i \in 1 .. Len(AddRoom(v, r)) : AddRoom(v, r)[i].room = r
          /\ \A i \in 1 .. Len(v) : i \in 1 .. Len(AddRoom(v, r)) /\ AddRoom(v, r)[i] = v[i]
<1> DEFINE p == [room |-> r, messages |-> {}]
           w == Append(v, p)
<1>1. CASE r \in RoomsIn(v)
  <2>1. AddRoom(v, r) = v
    BY <1>1 DEF AddRoom
  <2>2. DOMAIN v = 1 .. Len(v)
    OBVIOUS
  <2> QED
    BY <1>1, <2>1, <2>2 DEF RoomsIn, Keeps
<1>2. CASE r \notin RoomsIn(v)
  <2>1. AddRoom(v, r) = w
    BY <1>2 DEF AddRoom
  <2>2. p \in Panels /\ p.room = r
    BY DEF Panels
  <2> HIDE DEF p
  <2>3. /\ w \in Seq(Panels) /\ Len(w) = Len(v) + 1 /\ Len(v) \in Nat /\ w[Len(v) + 1] = p
        /\ \A i \in 1 .. Len(v) : w[i] = v[i]
        /\ DOMAIN v = 1 .. Len(v) /\ DOMAIN w = 1 .. Len(w)
    BY <2>2
  <2> HIDE DEF w
  <2>4. OneEach(w)
    <3>1. ASSUME NEW i \in 1 .. Len(v) PROVE w[i].room # r
      BY <1>2, <2>3 DEF RoomsIn
    <3>2. ASSUME NEW i \in 1 .. Len(w), NEW j \in 1 .. Len(w), w[i].room = w[j].room PROVE i = j
      <4>1. CASE i \in 1 .. Len(v) /\ j \in 1 .. Len(v)
        BY <2>3, <3>2, <4>1 DEF OneEach
      <4>2. CASE i = Len(v) + 1
        BY <2>2, <2>3, <3>1, <3>2, <4>2
      <4>3. CASE j = Len(v) + 1
        BY <2>2, <2>3, <3>1, <3>2, <4>3
      <4> QED
        BY <2>3, <4>1, <4>2, <4>3
    <3> QED
      BY <2>3, <3>2 DEF OneEach
  <2>5. \A i \in 1 .. Len(v) : i \in 1 .. Len(w)
    BY <2>3
  <2>6. Keeps(v, w)
    BY <2>3, <2>5 DEF Keeps
  <2>7. Len(v) + 1 \in 1 .. Len(w)
    BY <2>3
  <2> QED
    BY <2>1, <2>2, <2>3, <2>4, <2>5, <2>6, <2>7
<1> QED
  BY <1>1, <1>2

\* The place of a room that is there
LEMMA RoomIndex ==
    ASSUME NEW v \in Seq(Panels), NEW r, \E i \in 1 .. Len(v) : v[i].room = r
    PROVE IndexOf(v, r) \in 1 .. Len(v) /\ v[IndexOf(v, r)].room = r
<1>1. DOMAIN v = 1 .. Len(v)
  OBVIOUS
<1> QED
  BY <1>1 DEF IndexOf

\* A panel whose h-th room gets more messages
LEMMA PanelGrows ==
    ASSUME NEW v \in Seq(Panels), OneEach(v), NEW h \in 1 .. Len(v), NEW ms \in SUBSET Nat
    PROVE /\ [v EXCEPT ![h].messages = @ \cup ms] \in Seq(Panels)
          /\ OneEach([v EXCEPT ![h].messages = @ \cup ms]) /\ Keeps(v, [v EXCEPT ![h].messages = @ \cup ms])
          /\ [v EXCEPT ![h].messages = @ \cup ms][h].room = v[h].room
          /\ ms \subseteq [v EXCEPT ![h].messages = @ \cup ms][h].messages
          /\ Len([v EXCEPT ![h].messages = @ \cup ms]) = Len(v)
<1> DEFINE p == [v[h] EXCEPT !.messages = @ \cup ms]
           w == [v EXCEPT ![h] = p]
<1>1. [v EXCEPT ![h].messages = @ \cup ms] = w
  OBVIOUS
<1>2. v[h] \in Panels
  OBVIOUS
<1>3. p \in Panels /\ p.room = v[h].room /\ p.messages = v[h].messages \cup ms
  BY <1>2 DEF Panels
<1> HIDE DEF p
<1>4. /\ w \in Seq(Panels) /\ Len(w) = Len(v) /\ w[h] = p /\ DOMAIN w = 1 .. Len(v) /\ DOMAIN v = 1 .. Len(v)
      /\ \A i \in 1 .. Len(v) : i # h => w[i] = v[i]
  BY <1>3
<1> HIDE DEF w
<1>5. \A i \in 1 .. Len(v) : w[i].room = v[i].room /\ v[i].messages \subseteq w[i].messages
  BY <1>3, <1>4
<1>6. OneEach(w)
  BY <1>4, <1>5 DEF OneEach
<1>7. Keeps(v, w)
  BY <1>4, <1>5 DEF Keeps
<1> QED
  BY <1>1, <1>3, <1>4, <1>6, <1>7

\* A message is added to its room.
LEMMA MessageAdded ==
    ASSUME NEW v \in Seq(Panels), OneEach(v), NEW r \in Rooms, NEW ms \in SUBSET Nat
    PROVE /\ AddMessage(v, r, ms) \in Seq(Panels) /\ OneEach(AddMessage(v, r, ms))
          /\ Keeps(v, AddMessage(v, r, ms))
          /\ \E i \in 1 .. Len(AddMessage(v, r, ms)) :
                AddMessage(v, r, ms)[i].room = r /\ ms \subseteq AddMessage(v, r, ms)[i].messages
<1> DEFINE w == AddRoom(v, r)
           h == IndexOf(w, r)
           x == AddMessage(v, r, ms)
<1>1. w \in Seq(Panels) /\ OneEach(w) /\ Keeps(v, w) /\ \E i \in 1 .. Len(w) : w[i].room = r
  BY RoomAdded
<1>2. x = [w EXCEPT ![h].messages = @ \cup ms]
  BY DEF AddMessage
<1> HIDE DEF w, x
<1>3. h \in 1 .. Len(w) /\ w[h].room = r
  BY <1>1, RoomIndex
<1> HIDE DEF h
<1>4. x \in Seq(Panels) /\ OneEach(x) /\ Keeps(w, x) /\ x[h].room = r /\ ms \subseteq x[h].messages /\ Len(x) = Len(w)
  BY <1>1, <1>2, <1>3, PanelGrows
<1>5. Keeps(v, x)
  <2>1. ASSUME NEW i \in 1 .. Len(v)
        PROVE \E j \in 1 .. Len(x) : x[j].room = v[i].room /\ v[i].messages \subseteq x[j].messages
    <3>1. PICK k \in 1 .. Len(w) : w[k].room = v[i].room /\ v[i].messages \subseteq w[k].messages
      BY <1>1 DEF Keeps
    <3>2. PICK j \in 1 .. Len(x) : x[j].room = w[k].room /\ w[k].messages \subseteq x[j].messages
      BY <1>4 DEF Keeps
    <3> QED
      BY <3>1, <3>2
  <2> QED
    BY <2>1 DEF Keeps
<1> QED
  BY <1>3, <1>4, <1>5 DEF x

\* A room is taken out; the others stay.
LEMMA RoomRemoved ==
    ASSUME NEW v \in Seq(Panels), OneEach(v), NEW r
    PROVE /\ Without(v, r) \in Seq(Panels) /\ OneEach(Without(v, r))
          /\ \A i \in 1 .. Len(v) : v[i].room # r => \E j \in 1 .. Len(Without(v, r)) : Without(v, r)[j] = v[i]
<1> DEFINE h == IndexOf(v, r)
           w == Without(v, r)
<1>0. DOMAIN v = 1 .. Len(v) /\ Len(v) \in Nat
  OBVIOUS
<1>1. CASE r \in RoomsIn(v)
  <2>1. h \in 1 .. Len(v) /\ v[h].room = r
    BY <1>0, <1>1, RoomIndex DEF RoomsIn
  <2>2. w = [i \in 1 .. Len(v) - 1 |-> IF i < h THEN v[i] ELSE v[i + 1]]
    BY <1>1 DEF Without
  <2> HIDE DEF h, w
  <2>3. Len(v) - 1 \in Nat /\ \A i \in 1 .. Len(v) - 1 : i \in 1 .. Len(v) /\ i + 1 \in 1 .. Len(v)
    BY <1>0, <2>1
  <2>4. \A i \in 1 .. Len(v) - 1 : w[i] = (IF i < h THEN v[i] ELSE v[i + 1]) /\ w[i] \in Panels
    BY <2>2, <2>3
  <2>5. w \in Seq(Panels) /\ Len(w) = Len(v) - 1 /\ DOMAIN w = 1 .. Len(v) - 1
    BY <2>2, <2>3, <2>4
  <2>6. OneEach(w)
    <3>1. ASSUME NEW i \in 1 .. Len(v) - 1, NEW j \in 1 .. Len(v) - 1, w[i].room = w[j].room PROVE i = j
      <4>1. PICK a \in 1 .. Len(v) : w[i] = v[a] /\ a = IF i < h THEN i ELSE i + 1
        BY <2>3, <2>4
      <4>2. PICK b \in 1 .. Len(v) : w[j] = v[b] /\ b = IF j < h THEN j ELSE j + 1
        BY <2>3, <2>4
      <4>3. a = b
        BY <1>0, <3>1, <4>1, <4>2 DEF OneEach
      <4> QED
        BY <2>1, <4>1, <4>2, <4>3
    <3> QED
      BY <2>5, <3>1 DEF OneEach
  <2>7. ASSUME NEW i \in 1 .. Len(v), v[i].room # r PROVE \E j \in 1 .. Len(w) : w[j] = v[i]
    <3>1. CASE i < h
      <4>1. i \in 1 .. Len(v) - 1
        BY <1>0, <2>1, <3>1
      <4> QED
        BY <2>4, <2>5, <3>1, <4>1
    <3>2. CASE i > h
      <4>1. i - 1 \in 1 .. Len(v) - 1 /\ ~ (i - 1 < h) /\ (i - 1) + 1 = i
        BY <1>0, <2>1, <3>2
      <4> QED
        BY <2>4, <2>5, <4>1
    <3> QED
      BY <2>1, <2>7, <3>1, <3>2
  <2> QED
    BY <2>5, <2>6, <2>7 DEF w
<1>2. CASE r \notin RoomsIn(v)
  BY <1>0, <1>2 DEF Without
<1> QED
  BY <1>1, <1>2

\* load_history finds a room, if there is one.
LEMMA HistoryRoomIsThere ==
    ASSUME NEW v \in Seq(Panels), v # <<>>, NEW r PROVE HistoryRoom(v, r) \in 1 .. Len(v)
<1> DEFINE having == {i \in DOMAIN v : \E m \in v[i].messages : log[m].room = r}
<1>1. having \subseteq 1 .. Len(v) /\ having \in SUBSET Nat /\ 1 \in 1 .. Len(v)
  OBVIOUS
<1>2. HistoryRoom(v, r) = IF having = {} THEN 1 ELSE CHOOSE i \in having : \A k \in having : i <= k
  BY DEF HistoryRoom
<1> HIDE DEF having
<1>3. having # {} => \E i \in having : \A k \in having : i <= k
  BY <1>1, Smallest
<1> QED
  BY <1>1, <1>2, <1>3

-----------------------------------------------------------------------------
(* Types *)

\* The first of a sequence, and the rest
LEMMA FirstAndRest ==
    ASSUME NEW S, NEW s \in Seq(S), s # <<>>
    PROVE /\ Head(s) \in S /\ Head(s) = s[1] /\ Tail(s) \in Seq(S) /\ Len(s) \in Nat /\ 1 \in 1 .. Len(s)
          /\ Len(Tail(s)) = Len(s) - 1 /\ \A i \in 1 .. Len(s) - 1 : Tail(s)[i] = s[i + 1] /\ i + 1 \in 1 .. Len(s)
OBVIOUS

\* A request is posted.
LEMMA PostTypes ==
    ASSUME TypeOK, NEW u \in Users, NEW op \in {"JOIN_ROOM", "LEAVE_ROOM", "CHAT_MESSAGE"}, NEW r \in Rooms,
           Post(u, op, r)
    PROVE out' \in [Users -> Seq(Requests)]
<1>1. [op |-> op, room |-> r] \in Requests
  BY DEF Requests
<1>2. out[u] \in Seq(Requests)
  BY DEF TypeOK, NetworkTypes
<1> QED
  BY <1>1, <1>2 DEF TypeOK, NetworkTypes, Post

\* An answer is sent to some users.
LEMMA SentTypes ==
    ASSUME NEW box \in [Users -> Seq(Answers)], NEW vs, NEW p \in Answers
    PROVE Sent(box, vs, p) \in [Users -> Seq(Answers)]
<1>1. \A v \in Users : Append(box[v], p) \in Seq(Answers)
  OBVIOUS
<1> QED
  BY <1>1 DEF Sent

\* The clicks of a user
LEMMA ClickTypes ==
    ASSUME TypeOK, NEW u \in Users,
           \/ \E r \in Rooms : OnJoinRoom(u, r) \/ OnRoomSelected(u, r)
           \/ OnLeaveRoom(u) \/ OnSend(u)
    PROVE TypeOK'
<1>1. CASE \E r \in Rooms : OnJoinRoom(u, r)
  <2>1. PICK r \in Rooms : OnJoinRoom(u, r)
    BY <1>1
  <2>2. out' \in [Users -> Seq(Requests)]
    BY <2>1, PostTypes DEF OnJoinRoom
  <2> QED
    BY <2>1, <2>2 DEF OnJoinRoom, TypeOK, PanelTypes, NetworkTypes, ServerTypes, HandlerTypes, HistoryTypes,
                      client, server, leftover, handler, history
<1>2. CASE \E r \in Rooms : OnRoomSelected(u, r)
  <2>1. PICK r \in Rooms : OnRoomSelected(u, r)
    BY <1>2
  <2> QED
    BY <2>1 DEF OnRoomSelected, TypeOK, PanelTypes, NetworkTypes, ServerTypes, HandlerTypes, HistoryTypes,
                network, server, leftover, handler, history
<1>3. CASE OnLeaveRoom(u)
  <2>1. current[u] \in Rooms /\ view[u] \in Seq(Panels) /\ OneEach(view[u])
    BY <1>3 DEF OnLeaveRoom, TypeOK, PanelTypes, OneEach
  <2>2. out' \in [Users -> Seq(Requests)]
    BY <1>3, <2>1, PostTypes DEF OnLeaveRoom
  <2> DEFINE w == Without(view[u], current[u])
  <2>3. w \in Seq(Panels) /\ OneEach(w)
    BY <2>1, RoomRemoved
  <2>4. view' = [view EXCEPT ![u] = w]
    BY <1>3 DEF OnLeaveRoom
  <2> HIDE DEF w
  <2>5. /\ view' \in [Users -> Seq(Panels)]
        /\ \A v \in Users : \A i, j \in DOMAIN view'[v] : view'[v][i].room = view'[v][j].room => i = j
    BY <2>3, <2>4 DEF TypeOK, PanelTypes, OneEach
  <2>6. /\ current' \in [Users -> Rooms \cup {NoRoom}] /\ joined' \in [Users -> SUBSET Rooms]
    BY <1>3 DEF OnLeaveRoom, TypeOK, PanelTypes, HistoryTypes
  <2> QED
    BY <1>3, <2>2, <2>5, <2>6 DEF OnLeaveRoom, TypeOK, PanelTypes, NetworkTypes, ServerTypes, HandlerTypes,
                                  HistoryTypes, server, leftover, handler
<1>4. CASE OnSend(u)
  <2>1. current[u] \in Rooms
    BY <1>4 DEF OnSend, TypeOK, PanelTypes
  <2>2. out' \in [Users -> Seq(Requests)]
    BY <1>4, <2>1, PostTypes DEF OnSend
  <2> QED
    BY <1>4, <2>2 DEF OnSend, TypeOK, PanelTypes, NetworkTypes, ServerTypes, HandlerTypes, HistoryTypes,
                      client, server, leftover, handler, history
<1> QED
  BY <1>1, <1>2, <1>3, <1>4

\* A packet comes to the panel.
LEMMA HandlePacketTypes == ASSUME TypeOK, NEW u \in Users, HandlePacket(u) PROVE TypeOK'
<1> DEFINE p == Head(inbox[u])
           r == p.room
           h == HistoryRoom(view[u], r)
<1>1. inbox[u] \in Seq(Answers) /\ inbox[u] # <<>> /\ inbox' = [inbox EXCEPT ![u] = Tail(@)]
  BY DEF HandlePacket, TypeOK, NetworkTypes
<1>2. p \in Answers /\ Tail(inbox[u]) \in Seq(Answers)
  BY <1>1, FirstAndRest
<1>3. r \in Rooms /\ p.messages \in SUBSET Nat
  BY <1>2 DEF Answers
<1>4. inbox' \in [Users -> Seq(Answers)]
  BY <1>1, <1>2 DEF TypeOK, NetworkTypes
<1>5. view[u] \in Seq(Panels) /\ OneEach(view[u]) /\ DOMAIN view = Users
  BY DEF TypeOK, PanelTypes, OneEach
<1>6. /\ \/ view' = view
         \/ view' = [view EXCEPT ![u] = AddRoom(view[u], r)]
         \/ view[u] # <<>> /\ view' = [view EXCEPT ![u] = [view[u] EXCEPT ![h].messages = @ \cup p.messages]]
         \/ view' = [view EXCEPT ![u] = AddMessage(view[u], r, p.messages)]
      /\ current' = current \/ current' = [current EXCEPT ![u] = r]
      /\ codes' = codes \/ codes' = [codes EXCEPT ![u] = RoomsIn(AddRoom(view[u], r))]
      /\ misfiled' = misfiled \/ misfiled' = [misfiled EXCEPT ![u] = @ \cup {r}]
  BY DEF HandlePacket
<1> HIDE DEF p, h, r
<1>7. /\ AddRoom(view[u], r) \in Seq(Panels) /\ OneEach(AddRoom(view[u], r))
      /\ AddMessage(view[u], r, p.messages) \in Seq(Panels) /\ OneEach(AddMessage(view[u], r, p.messages))
  BY <1>3, <1>5, RoomAdded, MessageAdded
<1>8. /\ view' \in [Users -> Seq(Panels)]
      /\ \A v \in Users : \A i, j \in DOMAIN view'[v] : view'[v][i].room = view'[v][j].room => i = j
  <2>1. CASE view' = view
    BY <2>1 DEF TypeOK, PanelTypes
  <2>2. ASSUME NEW w \in Seq(Panels), OneEach(w), view' = [view EXCEPT ![u] = w] 
        PROVE /\ view' \in [Users -> Seq(Panels)]
              /\ \A v \in Users : \A i, j \in DOMAIN view'[v] : view'[v][i].room = view'[v][j].room => i = j
    BY <2>2 DEF TypeOK, PanelTypes, OneEach
  <2>3. CASE view[u] # <<>> /\ view' = [view EXCEPT ![u] = [view[u] EXCEPT ![h].messages = @ \cup p.messages]]
    <3> DEFINE w == [view[u] EXCEPT ![h].messages = @ \cup p.messages]
    <3>1. h \in 1 .. Len(view[u])
      BY <1>5, <2>3, HistoryRoomIsThere DEF h
    <3>2. w \in Seq(Panels) /\ OneEach(w)
      BY <1>3, <1>5, <3>1, PanelGrows
    <3>3. view' = [view EXCEPT ![u] = w]
      BY <2>3
    <3> HIDE DEF w
    <3> QED
      BY <2>2, <3>2, <3>3
  <2> QED
    BY <1>6, <1>7, <2>1, <2>2, <2>3
<1>9. RoomsIn(AddRoom(view[u], r)) \subseteq Rooms
  <2> DEFINE w == AddRoom(view[u], r)
  <2>1. w \in Seq(Panels) /\ DOMAIN w = 1 .. Len(w)
    BY <1>7
  <2> HIDE DEF w
  <2>2. \A i \in DOMAIN w : w[i] \in Panels
    BY <2>1
  <2>3. \A i \in DOMAIN w : w[i].room \in Rooms
    BY <2>2 DEF Panels
  <2> QED
    BY <2>3 DEF RoomsIn, w
<1>10. /\ current' \in [Users -> Rooms \cup {NoRoom}] /\ codes' \in [Users -> SUBSET Rooms]
       /\ misfiled' \in [Users -> SUBSET Rooms]
  <2>1. current' \in [Users -> Rooms \cup {NoRoom}]
    BY <1>3, <1>6 DEF TypeOK, PanelTypes
  <2>2. codes' \in [Users -> SUBSET Rooms]
    BY <1>6, <1>9 DEF TypeOK, PanelTypes
  <2>3. misfiled' \in [Users -> SUBSET Rooms]
    BY <1>3, <1>6 DEF TypeOK, HistoryTypes
  <2> QED
    BY <2>1, <2>2, <2>3
<1> QED
  BY <1>4, <1>8, <1>10 DEF HandlePacket, TypeOK, PanelTypes, NetworkTypes, ServerTypes, HandlerTypes,
                           HistoryTypes, server, leftover, handler

\* A table of who is in which room, after a change on one server
LEMMA TableChanges ==
    ASSUME NEW f \in [Servers -> [Rooms -> SUBSET Users]], NEW s \in Servers, NEW e \in [Rooms -> SUBSET Users]
    PROVE /\ [f EXCEPT ![s] = e] \in [Servers -> [Rooms -> SUBSET Users]]
          /\ \A t \in Servers : [f EXCEPT ![s] = e][t] = IF t = s THEN e ELSE f[t]
OBVIOUS

\* Who is taken out of the tables of a server is in no room of it.
LEMMA UnregisterTypes ==
    ASSUME TypeOK, NEW u \in Users, NEW s \in Servers, Unregister(u, s)
    PROVE /\ clients' \in [Servers -> [Rooms -> SUBSET Users]] /\ stale' \in [Servers -> [Rooms -> SUBSET Users]]
          /\ lapsed' \in [Servers -> SUBSET Users]
          /\ \A t \in Servers : \A r \in Rooms :
                /\ clients'[t][r] = IF t = s THEN clients[t][r] \ {u} ELSE clients[t][r]
                /\ stale'[t][r] \subseteq stale[t][r]
<1> DEFINE e == [r \in Rooms |-> clients[s][r] \ {u}]
           g == [r \in Rooms |-> stale[s][r] \ {u}]
<1>1. /\ clients \in [Servers -> [Rooms -> SUBSET Users]] /\ stale \in [Servers -> [Rooms -> SUBSET Users]]
      /\ lapsed \in [Servers -> SUBSET Users]
  BY DEF TypeOK, ServerTypes
<1>2. clients' = [clients EXCEPT ![s] = e] /\ stale' = [stale EXCEPT ![s] = g]
  BY DEF Unregister
<1>3. lapsed' \in [Servers -> SUBSET Users]
  BY <1>1 DEF Unregister
<1>4. /\ e \in [Rooms -> SUBSET Users] /\ \A r \in Rooms : e[r] = clients[s][r] \ {u}
      /\ g \in [Rooms -> SUBSET Users] /\ \A r \in Rooms : g[r] \subseteq stale[s][r]
  BY <1>1
<1> HIDE DEF e, g
<1>5. clients' \in [Servers -> [Rooms -> SUBSET Users]] /\ \A t \in Servers : clients'[t] = IF t = s THEN e ELSE clients[t]
  BY <1>1, <1>2, <1>4, TableChanges
<1>6. stale' \in [Servers -> [Rooms -> SUBSET Users]] /\ \A t \in Servers : stale'[t] = IF t = s THEN g ELSE stale[t]
  BY <1>1, <1>2, <1>4, TableChanges
<1> QED
  BY <1>3, <1>4, <1>5, <1>6

\* What an overtaken handler leaves: its user is in its rooms still, as a
\* handler of old.
LEMMA OvertakeTypes ==
    ASSUME TypeOK, NEW u \in Users, NEW h \in Servers, Overtake(u, h)
    PROVE /\ clients' \in [Servers -> [Rooms -> SUBSET Users]] /\ stale' \in [Servers -> [Rooms -> SUBSET Users]]
          /\ old' \in [Servers -> [Users -> Nat]]
          /\ \A t \in Servers : \A r \in Rooms :
                /\ clients'[t][r] = IF t = h THEN clients[t][r] \ {u} ELSE clients[t][r]
                /\ stale'[t][r] # {} => stale[t][r] # {} \/ clients[t][r] # {}
<1> DEFINE e == [r \in Rooms |-> clients[h][r] \ {u}]
           g == [r \in Rooms |-> stale[h][r] \cup (clients[h][r] \cap {u})]
           n == [old[h] EXCEPT ![u] = @ + 1]
<1>1. /\ clients \in [Servers -> [Rooms -> SUBSET Users]] /\ stale \in [Servers -> [Rooms -> SUBSET Users]]
      /\ old \in [Servers -> [Users -> Nat]]
  BY DEF TypeOK, ServerTypes
<1>2. clients' = [clients EXCEPT ![h] = e] /\ stale' = [stale EXCEPT ![h] = g] /\ old' = [old EXCEPT ![h] = n]
  BY DEF Overtake
<1>3. n \in [Users -> Nat]
  BY <1>1
<1>4. /\ e \in [Rooms -> SUBSET Users] /\ \A r \in Rooms : e[r] = clients[h][r] \ {u}
      /\ g \in [Rooms -> SUBSET Users] /\ \A r \in Rooms : g[r] # {} => stale[h][r] # {} \/ clients[h][r] # {}
  BY <1>1
<1> HIDE DEF e, g, n
<1>5. clients' \in [Servers -> [Rooms -> SUBSET Users]] /\ \A t \in Servers : clients'[t] = IF t = h THEN e ELSE clients[t]
  BY <1>1, <1>2, <1>4, TableChanges
<1>6. stale' \in [Servers -> [Rooms -> SUBSET Users]] /\ \A t \in Servers : stale'[t] = IF t = h THEN g ELSE stale[t]
  BY <1>1, <1>2, <1>4, TableChanges
<1>7. old' \in [Servers -> [Users -> Nat]]
  BY <1>1, <1>2, <1>3
<1> QED
  BY <1>4, <1>5, <1>6, <1>7

\* The end of a handler, the present one or an overtaken one
LEMMA CleanupTypes ==
    ASSUME TypeOK, NEW u \in Users, Cleanup(u) \/ \E s \in Servers : CleanupOld(u, s) PROVE TypeOK'
<1>1. CASE Cleanup(u)
  <2>1. home[u] \in Servers /\ Unregister(u, home[u])
    BY <1>1 DEF Cleanup, TypeOK, NetworkTypes
  <2>2. /\ clients' \in [Servers -> [Rooms -> SUBSET Users]] /\ stale' \in [Servers -> [Rooms -> SUBSET Users]]
        /\ lapsed' \in [Servers -> SUBSET Users]
    BY <2>1, UnregisterTypes
  <2>3. /\ home' \in [Users -> Servers \cup {NoServer}] /\ \A v \in Users : v # u => home'[v] = home[v]
        /\ pc[u] = "read" /\ u \notin up
    BY <1>1 DEF Cleanup, TypeOK, NetworkTypes
  <2> QED
    BY <1>1, <2>2, <2>3 DEF Cleanup, TypeOK, PanelTypes, NetworkTypes, ServerTypes, HandlerTypes, HistoryTypes,
                            client, handler, history
<1>2. ASSUME NEW s \in Servers, CleanupOld(u, s) PROVE TypeOK'
  <2>1. Unregister(u, s)
    BY <1>2 DEF CleanupOld
  <2>2. /\ clients' \in [Servers -> [Rooms -> SUBSET Users]] /\ stale' \in [Servers -> [Rooms -> SUBSET Users]]
        /\ lapsed' \in [Servers -> SUBSET Users]
    BY <2>1, UnregisterTypes
  <2>3. old' \in [Servers -> [Users -> Nat]]
    <3> DEFINE n == [old[s] EXCEPT ![u] = @ - 1]
    <3>1. old \in [Servers -> [Users -> Nat]] /\ old[s][u] > 0
      BY <1>2 DEF CleanupOld, TypeOK, ServerTypes
    <3>2. n \in [Users -> Nat]
      BY <3>1
    <3>3. old' = [old EXCEPT ![s] = n]
      BY <1>2 DEF CleanupOld
    <3> HIDE DEF n
    <3> QED
      BY <3>1, <3>2, <3>3
  <2>4. cut' \subseteq Users /\ unechoed' \subseteq Nat
    <3>1. cut' \subseteq cut \cup {u} /\ unechoed' \subseteq unechoed \cup {id[u]}
      BY <1>2 DEF CleanupOld
    <3> QED
      BY <3>1 DEF TypeOK, ServerTypes, HistoryTypes, HandlerTypes
  <2>5. ServerTypes'
    BY <1>2, <2>2, <2>3, <2>4 DEF CleanupOld, TypeOK, ServerTypes
  <2> QED
    BY <1>2, <2>4, <2>5 DEF CleanupOld, TypeOK, PanelTypes, NetworkTypes, HandlerTypes, HistoryTypes,
                            client, network, handler
<1> QED
  BY <1>1, <1>2

\* The way back
LEMMA ReconnectTypes ==
    ASSUME TypeOK, NEW u \in Users, NEW s \in Servers, Reconnect(u, s) PROVE TypeOK'
<1>1. out' \in [Users -> Seq(Requests)]
  <2>1. CASE \E order \in [1 .. Cardinality(codes[u]) -> codes[u]] :
                out' = [out EXCEPT ![u] = [i \in DOMAIN order |-> [op |-> "JOIN_ROOM", room |-> order[i]]]]
    <3>1. PICK order \in [1 .. Cardinality(codes[u]) -> codes[u]] :
             out' = [out EXCEPT ![u] = [i \in DOMAIN order |-> [op |-> "JOIN_ROOM", room |-> order[i]]]]
      BY <2>1
    <3> DEFINE f == [i \in 1 .. Cardinality(codes[u]) |-> [op |-> "JOIN_ROOM", room |-> order[i]]]
    <3>2. codes[u] \in SUBSET Rooms
      BY DEF TypeOK, PanelTypes
    <3>3. Cardinality(codes[u]) \in Nat
      BY <3>2, ChatAssumption, FS_Subset, FS_CardinalityType
    <3>4. \A i \in 1 .. Cardinality(codes[u]) : f[i] \in Requests
      BY <3>2 DEF Requests
    <3>5. f \in Seq(Requests)
      BY <3>3, <3>4
    <3>6. out' = [out EXCEPT ![u] = f]
      BY <3>1
    <3> HIDE DEF f
    <3> QED
      BY <3>5, <3>6 DEF TypeOK, NetworkTypes
  <2>2. CASE \E r \in Rooms : out' = [out EXCEPT ![u] = <<[op |-> "JOIN_ROOM", room |-> r]>>]
    <3>1. PICK r \in Rooms : out' = [out EXCEPT ![u] = <<[op |-> "JOIN_ROOM", room |-> r]>>]
      BY <2>2
    <3> DEFINE f == <<[op |-> "JOIN_ROOM", room |-> r]>>
    <3>2. f \in Seq(Requests)
      BY DEF Requests
    <3>3. out' = [out EXCEPT ![u] = f]
      BY <3>1
    <3> HIDE DEF f
    <3> QED
      BY <3>2, <3>3 DEF TypeOK, NetworkTypes
  <2> QED
    BY <2>1, <2>2 DEF Reconnect
<1>2. /\ home' \in [Users -> Servers \cup {NoServer}] /\ home'[u] = s
      /\ \A v \in Users : v # u => home'[v] = home[v]
      /\ session' \in [Users -> Nat \ {0}] /\ up' = up \cup {u}
  BY DEF Reconnect, TypeOK, NetworkTypes
<1>3. \A v \in Users : home[v] \in Servers \/ v = u => home'[v] \in Servers
  BY <1>2
<1>4. NetworkTypes'
  BY <1>1, <1>2, <1>3 DEF Reconnect, TypeOK, NetworkTypes
<1>5. HandlerTypes'
  BY <1>3 DEF Reconnect, TypeOK, HandlerTypes, handler
<1>6. /\ clients' \in [Servers -> [Rooms -> SUBSET Users]] /\ stale' \in [Servers -> [Rooms -> SUBSET Users]]
      /\ old' \in [Servers -> [Users -> Nat]]
  <2>1. CASE home[u] # NoServer /\ Overtake(u, home[u])
    <3>1. home[u] \in Servers
      BY <2>1 DEF TypeOK, NetworkTypes
    <3> QED
      BY <2>1, <3>1, OvertakeTypes
  <2>2. CASE UNCHANGED <<old, stale, clients>>
    BY <2>2 DEF TypeOK, ServerTypes
  <2> QED
    BY <2>1, <2>2 DEF Reconnect
<1>7. lapsed' \in [Servers -> SUBSET Users] /\ cut' \subseteq Users
  BY DEF Reconnect, Register, TypeOK, ServerTypes
<1>8. ServerTypes'
  BY <1>6, <1>7 DEF Reconnect, TypeOK, ServerTypes
<1> QED
  BY <1>4, <1>5, <1>8 DEF Reconnect, TypeOK, PanelTypes, HistoryTypes, client, history

\* The connection
LEMMA ConnectionTypes ==
    ASSUME TypeOK, NEW u \in Users,
           Lose(u) \/ Cleanup(u) \/ \E s \in Servers : Reconnect(u, s) \/ CleanupOld(u, s)
    PROVE TypeOK'
<1>1. CASE Lose(u)
  <2>1. <<>> \in Seq(Requests) /\ <<>> \in Seq(Answers)
    OBVIOUS
  <2> QED
    BY <1>1, <2>1 DEF Lose, TypeOK, PanelTypes, NetworkTypes, ServerTypes, HandlerTypes, HistoryTypes,
                      client, server, leftover, handler
<1> QED
  BY <1>1, CleanupTypes, ReconnectTypes

\* What a packet of a client is about
LEMMA RequestTypes ==
    ASSUME TypeOK, NEW u \in Users, u \in up, out[u] # <<>>, out' = [out EXCEPT ![u] = Tail(@)]
    PROVE /\ Head(out[u]) \in Requests /\ Head(out[u]).room \in Rooms /\ home[u] \in Servers
          /\ out' \in [Users -> Seq(Requests)]
<1>1. out[u] \in Seq(Requests) /\ home[u] \in Servers
  BY DEF TypeOK, NetworkTypes
<1>2. Head(out[u]) \in Requests /\ Tail(out[u]) \in Seq(Requests)
  BY <1>1, FirstAndRest
<1> QED
  BY <1>1, <1>2 DEF Requests, TypeOK, NetworkTypes

\* Somebody enters or leaves a room of a server.
LEMMA RoomChanges ==
    ASSUME TypeOK, NEW s \in Servers, NEW r \in Rooms, NEW T \in SUBSET Users,
           clients' = [clients EXCEPT ![s][r] = T]
    PROVE /\ clients' \in [Servers -> [Rooms -> SUBSET Users]]
          /\ clients'[s][r] = T
          /\ \A t \in Servers : \A q \in Rooms : t # s \/ q # r => clients'[t][q] = clients[t][q]
<1> DEFINE f == [clients[s] EXCEPT ![r] = T]
<1>1. clients \in [Servers -> [Rooms -> SUBSET Users]] /\ clients' = [clients EXCEPT ![s] = f]
  BY DEF TypeOK, ServerTypes
<1>2. f \in [Rooms -> SUBSET Users] /\ f[r] = T /\ \A q \in Rooms : q # r => f[q] = clients[s][q]
  BY <1>1
<1> HIDE DEF f
<1> QED
  BY <1>1, <1>2

\* The same for the handlers that are overtaken
LEMMA StaleChanges ==
    ASSUME TypeOK, NEW u \in Users, NEW s \in Servers, NEW r \in Rooms, stale' = [stale EXCEPT ![s][r] = @ \ {u}]
    PROVE /\ stale' \in [Servers -> [Rooms -> SUBSET Users]]
          /\ \A t \in Servers : \A q \in Rooms : stale'[t][q] \subseteq stale[t][q]
<1> DEFINE f == [stale[s] EXCEPT ![r] = @ \ {u}]
<1>1. stale \in [Servers -> [Rooms -> SUBSET Users]] /\ stale' = [stale EXCEPT ![s] = f]
  BY DEF TypeOK, ServerTypes
<1>2. f \in [Rooms -> SUBSET Users] /\ \A q \in Rooms : f[q] \subseteq stale[s][q]
  BY <1>1
<1> HIDE DEF f
<1>3. /\ [stale EXCEPT ![s] = f] \in [Servers -> [Rooms -> SUBSET Users]]
      /\ \A t \in Servers : [stale EXCEPT ![s] = f][t] = IF t = s THEN f ELSE stale[t]
  BY <1>1, <1>2, TableChanges
<1> QED
  BY <1>1, <1>2, <1>3

\* The handlers of joins, leaves and histories
LEMMA RoomHandlerTypes ==
    ASSUME TypeOK, NEW u \in Users, HandleJoinRoom(u) \/ SendHistory(u) \/ HandleLeaveRoom(u) PROVE TypeOK'
<1>1. CASE HandleJoinRoom(u)
  <2> DEFINE p == Head(out[u])
             q == Packet("ROOM_STATE", p.room, {})
  <2>1. p \in Requests /\ p.room \in Rooms /\ home[u] \in Servers /\ out' \in [Users -> Seq(Requests)]
    BY <1>1, RequestTypes DEF HandleJoinRoom
  <2>2. \/ /\ clients' = [clients EXCEPT ![home[u]][p.room] = @ \cup {u}]
           /\ stale' = [stale EXCEPT ![home[u]][p.room] = @ \ {u}]
           /\ inbox' = Sent(inbox, {u}, q)
           /\ pc' = [pc EXCEPT ![u] = "history"] /\ doing' = [doing EXCEPT ![u] = p]
        \/ UNCHANGED <<clients, stale, inbox, pc, doing>>
    BY <1>1 DEF HandleJoinRoom
  <2> HIDE DEF p
  <2>3. q \in Answers
    BY <2>1 DEF Packet, Answers
  <2> HIDE DEF q
  <2>4. inbox' \in [Users -> Seq(Answers)]
    <3>1. inbox \in [Users -> Seq(Answers)]
      BY DEF TypeOK, NetworkTypes
    <3>2. Sent(inbox, {u}, q) \in [Users -> Seq(Answers)]
      BY <2>3, <3>1, SentTypes
    <3> QED
      BY <2>2, <3>1, <3>2
  <2>5. clients' \in [Servers -> [Rooms -> SUBSET Users]]
    <3> DEFINE T == clients[home[u]][p.room] \cup {u}
    <3>1. CASE clients' = [clients EXCEPT ![home[u]][p.room] = @ \cup {u}]
      <4>1. T \in SUBSET Users
        BY <2>1 DEF TypeOK, ServerTypes
      <4>2. clients' = [clients EXCEPT ![home[u]][p.room] = T]
        BY <3>1
      <4> HIDE DEF T
      <4> QED
        BY <2>1, <4>1, <4>2, RoomChanges
    <3> QED
      BY <2>2, <3>1 DEF TypeOK, ServerTypes
  <2>6. pc' \in [Users -> {"read", "history", "stored", "send"}] /\ doing' \in [Users -> Requests \cup {NoPacket}]
    BY <2>1, <2>2 DEF TypeOK, HandlerTypes
  <2>7. \A v \in Users : pc'[v] # "read" => doing'[v] \in Requests /\ home[v] \in Servers
    BY <2>1, <2>2 DEF TypeOK, HandlerTypes
  <2>8. stale' \in [Servers -> [Rooms -> SUBSET Users]]
    <3>1. CASE stale' = [stale EXCEPT ![home[u]][p.room] = @ \ {u}]
      BY <2>1, <3>1, StaleChanges
    <3>2. CASE stale' = stale
      BY <3>2 DEF TypeOK, ServerTypes
    <3> QED
      BY <2>2, <3>1, <3>2
  <2> QED
    BY <1>1, <2>1, <2>4, <2>5, <2>6, <2>7, <2>8 DEF HandleJoinRoom, TypeOK, PanelTypes, NetworkTypes, ServerTypes,
                                              HandlerTypes, HistoryTypes, client, history
<1>2. CASE SendHistory(u)
  <2> DEFINE r == doing[u].room
  <2>1. pc[u] = "history" /\ r \in Rooms
    BY <1>2 DEF SendHistory, TypeOK, HandlerTypes, Requests
  <2>2. PICK found \in {Latest(GetHistory(r)), {}} :
          /\ inbox' = Sent(inbox, {u}, Packet("MESSAGE_HISTORY", r, found))
          /\ unseen' = [unseen EXCEPT ![u] =
                           (@ \ found) \cup
                           (IF found = {} THEN {m \in 1 .. Len(log) : log[m].room = r}
                            ELSE {m \in {k \in 1 .. Len(log) : log[k].room = r} : \A k \in found : m < k})]
    BY <1>2 DEF SendHistory
  <2>3. Len(log) \in Nat
    BY DEF TypeOK, ServerTypes
  <2>4. found \in SUBSET Nat
    <3>1. Latest(GetHistory(r)) \in SUBSET Nat
      BY <2>3 DEF Latest, GetHistory
    <3> QED
      BY <2>2, <3>1
  <2>5. Packet("MESSAGE_HISTORY", r, found) \in Answers
    BY <2>1, <2>4 DEF Packet, Answers
  <2>6. inbox' \in [Users -> Seq(Answers)]
    BY <2>2, <2>5, SentTypes DEF TypeOK, NetworkTypes
  <2>7. unseen' \in [Users -> SUBSET Nat]
    BY <2>2, <2>3 DEF TypeOK, HistoryTypes
  <2>8. joined' \in [Users -> SUBSET Rooms]
    BY <1>2, <2>1 DEF SendHistory, TypeOK, HistoryTypes
  <2>9. pc' = [pc EXCEPT ![u] = "read"] /\ doing' = [doing EXCEPT ![u] = NoPacket]
    BY <1>2 DEF SendHistory, GoTo
  <2>10. HandlerTypes'
    BY <1>2, <2>9 DEF SendHistory, TypeOK, HandlerTypes
  <2> QED
    BY <1>2, <2>6, <2>7, <2>8, <2>10 DEF SendHistory, TypeOK, PanelTypes, NetworkTypes, ServerTypes, HistoryTypes,
                                         client, server, leftover
<1>3. CASE HandleLeaveRoom(u)
  <2> DEFINE p == Head(out[u])
  <2>1. p.room \in Rooms /\ home[u] \in Servers /\ out' \in [Users -> Seq(Requests)]
    BY <1>3, RequestTypes DEF HandleLeaveRoom
  <2>2. /\ clients' = [clients EXCEPT ![home[u]][p.room] = @ \ {u}]
        /\ stale' = [stale EXCEPT ![home[u]][p.room] = @ \ {u}]
        /\ joined' = [joined EXCEPT ![u] = @ \ {p.room}]
    BY <1>3 DEF HandleLeaveRoom
  <2> HIDE DEF p
  <2> DEFINE T == clients[home[u]][p.room] \ {u}
  <2>3. T \in SUBSET Users /\ clients' = [clients EXCEPT ![home[u]][p.room] = T]
    BY <2>1, <2>2 DEF TypeOK, ServerTypes
  <2> HIDE DEF T
  <2>4. clients' \in [Servers -> [Rooms -> SUBSET Users]]
    BY <2>1, <2>3, RoomChanges
  <2>5. joined' \in [Users -> SUBSET Rooms]
    BY <2>2 DEF TypeOK, HistoryTypes
  <2>6. stale' \in [Servers -> [Rooms -> SUBSET Users]]
    BY <2>1, <2>2, StaleChanges
  <2> QED
    BY <1>3, <2>1, <2>4, <2>5, <2>6 DEF HandleLeaveRoom, TypeOK, PanelTypes, NetworkTypes, ServerTypes, HandlerTypes,
                            HistoryTypes, client, handler
<1> QED
  BY <1>1, <1>2, <1>3

\* The number of the message that is stored
LEMMA StoreTypes ==
    ASSUME TypeOK, NEW u \in Users, NEW r \in Rooms, StoreMessage(u, r)
    PROVE /\ log' \in Seq(Entries) /\ Len(log') = Len(log) + 1 /\ Len(log) \in Nat
          /\ \A m \in 1 .. Len(log) : log'[m] = log[m]
          /\ log'[Len(log) + 1] = [room |-> r, by |-> u]
          /\ id' \in [Users -> Nat] /\ id'[u] = Len(log) + 1 /\ \A v \in Users : v # u => id'[v] = id[v]
<1> DEFINE e == [room |-> r, by |-> u]
<1>1. log \in Seq(Entries) /\ id \in [Users -> Nat]
  BY DEF TypeOK, ServerTypes, HandlerTypes
<1>2. log' = Append(log, e) /\ id' = [id EXCEPT ![u] = Len(log) + 1]
  BY DEF StoreMessage
<1>3. e \in Entries
  BY DEF Entries
<1> HIDE DEF e
<1>4. /\ log' \in Seq(Entries) /\ Len(log') = Len(log) + 1 /\ Len(log) \in Nat
      /\ \A m \in 1 .. Len(log) : log'[m] = log[m]
      /\ log'[Len(log) + 1] = e
  BY <1>1, <1>2, <1>3
<1>5. id' \in [Users -> Nat] /\ id'[u] = Len(log) + 1 /\ \A v \in Users : v # u => id'[v] = id[v]
  BY <1>1, <1>2, <1>4
<1> QED
  BY <1>4, <1>5 DEF e

\* The handlers of messages
LEMMA MessageHandlerTypes ==
    ASSUME TypeOK, NEW u \in Users, HandleChatMessage(u) \/ GetClients(u) PROVE TypeOK'
<1>1. CASE HandleChatMessage(u)
  <2> DEFINE p == Head(out[u])
             there == clients[home[u]][p.room] \cup LazyJoin(u, home[u], p.room)
  <2>1. p \in Requests /\ p.room \in Rooms /\ home[u] \in Servers /\ out' \in [Users -> Seq(Requests)]
    <3>1. u \in up /\ out[u] # <<>> /\ out' = [out EXCEPT ![u] = Tail(@)]
      BY <1>1 DEF HandleChatMessage
    <3> QED
      BY <3>1, RequestTypes
  <2>2. /\ clients' = clients \/ clients' = [clients EXCEPT ![home[u]][p.room] = there]
        /\ \/ /\ StoreMessage(u, p.room)
              /\ pc' = [pc EXCEPT ![u] = "stored"] /\ doing' = [doing EXCEPT ![u] = p]
           \/ UNCHANGED <<log, id, pc, doing>>
    BY <1>1 DEF HandleChatMessage
  <2> HIDE DEF p
  <2>3. there \in SUBSET Users
    BY <2>1 DEF LazyJoin, TypeOK, ServerTypes
  <2> HIDE DEF there
  <2>4. clients' \in [Servers -> [Rooms -> SUBSET Users]]
    <3>1. CASE clients' = [clients EXCEPT ![home[u]][p.room] = there]
      BY <2>1, <2>3, <3>1, RoomChanges
    <3> QED
      BY <2>2, <3>1 DEF TypeOK, ServerTypes
  <2>5. log' \in Seq(Entries) /\ id' \in [Users -> Nat]
    <3>1. CASE StoreMessage(u, p.room)
      BY <2>1, <3>1, StoreTypes
    <3> QED
      BY <2>2, <3>1 DEF TypeOK, ServerTypes, HandlerTypes
  <2>6. pc' \in [Users -> {"read", "history", "stored", "send"}] /\ doing' \in [Users -> Requests \cup {NoPacket}]
    BY <2>1, <2>2 DEF TypeOK, HandlerTypes
  <2>7. \A v \in Users : pc'[v] # "read" => doing'[v] \in Requests /\ home[v] \in Servers
    BY <2>1, <2>2 DEF TypeOK, HandlerTypes
  <2>8. unechoed' \subseteq Nat
    <3>1. unechoed' = unechoed \/ unechoed' = unechoed \cup {Len(log) + 1}
      BY <1>1 DEF HandleChatMessage
    <3>2. log \in Seq(Entries) /\ unechoed \subseteq Nat
      BY DEF TypeOK, ServerTypes, HistoryTypes
    <3>3. Len(log) + 1 \in Nat
      BY <3>2
    <3> QED
      BY <3>1, <3>2, <3>3
  <2> HIDE DEF p
  <2>9. ServerTypes'
    BY <1>1, <2>4, <2>5 DEF HandleChatMessage, TypeOK, ServerTypes, leftover
  <2>10. HandlerTypes' /\ HistoryTypes'
    BY <1>1, <2>5, <2>6, <2>7, <2>8 DEF HandleChatMessage, TypeOK, HandlerTypes, HistoryTypes
  <2> QED
    BY <1>1, <2>1, <2>9, <2>10 DEF HandleChatMessage, TypeOK, PanelTypes, NetworkTypes, client
<1>2. CASE GetClients(u)
  <2>1. home[u] \in Servers /\ doing[u].room \in Rooms /\ pc[u] = "stored"
    BY <1>2 DEF GetClients, TypeOK, HandlerTypes, Requests
  <2>2. /\ targets' = [targets EXCEPT ![u] = {<<v, session[v]>> : v \in clients[home[u]][doing[u].room]}
                                             \cup (stale[home[u]][doing[u].room] \X {0})]
        /\ pc' = [pc EXCEPT ![u] = "send"] /\ doing' = doing
    BY <1>2 DEF GetClients, GoTo
  <2>3. {<<v, session[v]>> : v \in clients[home[u]][doing[u].room]} \cup (stale[home[u]][doing[u].room] \X {0})
           \in SUBSET (Users \X Nat)
    BY <2>1 DEF TypeOK, ServerTypes, NetworkTypes
  <2>4. targets' \in [Users -> SUBSET (Users \X Nat)]
    BY <2>2, <2>3 DEF TypeOK, HandlerTypes
  <2>5. HandlerTypes'
    BY <1>2, <2>1, <2>2, <2>4 DEF GetClients, network, TypeOK, HandlerTypes
  <2> QED
    BY <1>2, <2>5 DEF GetClients, TypeOK, PanelTypes, NetworkTypes, ServerTypes, HistoryTypes, client, network,
                      server, leftover, history
<1> QED
  BY <1>1, <1>2

\* Whom a delivery is for: those found in the room, the other user of a DM room
\* who is here, or elsewhere, and who is left out for an overtaken handler
There(u) == {v \in Users : <<v, session[v]>> \in targets[u]}
ToPush(u) == {v \in Recipient(u, doing[u].room) : ~AlreadyDelivered(u, v)}
Local(u) == {v \in ToPush(u) : Registered(v, home[u])}
Remote(u) == ToPush(u) \ (Local(u) \cup lapsed[home[u]])
Lost(u) == Recipient(u, doing[u].room) \ (There(u) \cup Local(u) \cup Remote(u))
Push(u) == [to |-> CHOOSE v \in Remote(u) : TRUE, msg |-> id[u]]

\* Messages are delivered, and pushed by way of Redis.
LEMMA DeliverTypes == ASSUME TypeOK, NEW u \in Users, Deliver(u) PROVE TypeOK'
<1> DEFINE r == doing[u].room
           m == id[u]
           p == Packet("CHAT_MESSAGE", r, {m})
<1>1. pc[u] = "send" /\ r \in Rooms /\ m \in Nat
  BY DEF Deliver, TypeOK, HandlerTypes, Requests
<1>2. p \in Answers
  BY <1>1 DEF Packet, Answers
<1>3. Remote(u) \in SUBSET Users
  BY <1>1, ChatAssumption DEF Remote, ToPush, Recipient
<1>4. Remote(u) # {} => Push(u) \in Pushes
  BY <1>1, <1>3 DEF Push, Pushes
<1>5. /\ inbox' = Sent(Sent(inbox, There(u), p), Local(u), p)
      /\ got' = Noted(There(u) \cup Local(u), m)
      /\ targets' = [targets EXCEPT ![u] = {}] /\ id' = [id EXCEPT ![u] = 0]
      /\ pc' = [pc EXCEPT ![u] = "read"] /\ doing' = [doing EXCEPT ![u] = NoPacket]
  BY DEF Deliver, GoTo, There, Local, ToPush
<1>6. PICK failed \in {{}, Remote(u)} :
         /\ channel' = IF Remote(u) = failed THEN channel
                       ELSE [t \in Servers |-> IF t = home[u] THEN channel[t] ELSE Append(channel[t], Push(u))]
         /\ unseen' = [v \in Users |-> IF v \in Lost(u) \cup failed THEN unseen[v] \cup {m} ELSE unseen[v]]
  BY DEF Deliver, There, Remote, Local, ToPush, Push, Lost
<1> HIDE DEF r, m, p
<1>7. inbox' \in [Users -> Seq(Answers)]
  <2>1. Sent(inbox, There(u), p) \in [Users -> Seq(Answers)]
    BY <1>2, SentTypes DEF TypeOK, NetworkTypes
  <2> QED
    BY <1>2, <1>5, <2>1, SentTypes
<1>8. channel' \in [Servers -> Seq(Pushes)]
  <2>1. Remote(u) # {} => \A t \in Servers : Append(channel[t], Push(u)) \in Seq(Pushes)
    <3>1. channel \in [Servers -> Seq(Pushes)]
      BY DEF TypeOK, ServerTypes
    <3> QED
      BY <1>4, <3>1
  <2> QED
    BY <1>6, <2>1 DEF TypeOK, ServerTypes
<1>9. got' \in [Users -> SUBSET (Nat \X Nat)]
  <2>1. \A v \in Users : <<m, session[v]>> \in Nat \X Nat
    BY <1>1 DEF TypeOK, NetworkTypes
  <2> QED
    BY <1>5, <2>1 DEF Noted, TypeOK, HistoryTypes
<1>10. unseen' \in [Users -> SUBSET Nat]
  BY <1>1, <1>6 DEF TypeOK, HistoryTypes
<1>11. HandlerTypes'
  BY <1>1, <1>5 DEF Deliver, TypeOK, HandlerTypes
<1> QED
  BY <1>7, <1>8, <1>9, <1>10, <1>11 DEF Deliver, TypeOK, PanelTypes, NetworkTypes, ServerTypes, HistoryTypes, client,
                                        leftover

\* A server takes a message from its subscription.
LEMMA DmMessageTypes == ASSUME TypeOK, NEW s \in Servers, Sending, HandleDmMessage(s) PROVE TypeOK'
<1> DEFINE d == Head(channel[s])
           p == Packet("CHAT_MESSAGE", log[d.msg].room, {d.msg})
<1>1. channel[s] \in Seq(Pushes) /\ channel[s] # <<>>
  BY DEF HandleDmMessage, TypeOK, ServerTypes
<1>2. /\ d \in Pushes /\ d = channel[s][1] /\ 1 \in 1 .. Len(channel[s])
      /\ Tail(channel[s]) \in Seq(Pushes)
  BY <1>1, FirstAndRest
<1>3. /\ channel' = [channel EXCEPT ![s] = Tail(channel[s])]
      /\ inbox' = inbox \/ inbox' = Sent(inbox, {d.to}, p)
      /\ got' = got \/ got' = Noted({d.to}, d.msg)
  BY DEF HandleDmMessage
<1>4. d.msg \in 1 .. Len(log)
  BY <1>2 DEF Sending
<1> HIDE DEF d
<1>5. log[d.msg].room \in Rooms /\ d.msg \in Nat /\ d.to \in Users
  <2>1. log \in Seq(Entries)
    BY DEF TypeOK, ServerTypes
  <2>2. log[d.msg] \in Entries
    BY <1>4, <2>1
  <2> QED
    BY <1>2, <2>2 DEF Entries, Pushes
<1>6. p \in Answers
  BY <1>5 DEF Packet, Answers
<1> HIDE DEF p
<1>7. inbox' \in [Users -> Seq(Answers)]
  <2>1. Sent(inbox, {d.to}, p) \in [Users -> Seq(Answers)]
    BY <1>6, SentTypes DEF TypeOK, NetworkTypes
  <2> QED
    BY <1>3, <2>1 DEF TypeOK, NetworkTypes
<1>8. channel' \in [Servers -> Seq(Pushes)]
  BY <1>2, <1>3 DEF TypeOK, ServerTypes
<1>9. got' \in [Users -> SUBSET (Nat \X Nat)]
  <2>1. \A v \in Users : <<d.msg, session[v]>> \in Nat \X Nat
    BY <1>5 DEF TypeOK, NetworkTypes
  <2> QED
    BY <1>3, <2>1 DEF Noted, TypeOK, HistoryTypes
<1> QED
  BY <1>7, <1>8, <1>9 DEF HandleDmMessage, TypeOK, PanelTypes, NetworkTypes, ServerTypes, HandlerTypes,
                          HistoryTypes, client, handler, leftover

\* The types are kept, as long as what waits in the channels is in the table.
LEMMA TypesKept == ASSUME TypeOK, Sending, [Next]_vars PROVE TypeOK'
<1>1. ASSUME NEW u \in Users, NEW r \in Rooms, OnJoinRoom(u, r) \/ OnRoomSelected(u, r) PROVE TypeOK'
  BY <1>1, ClickTypes
<1>2. ASSUME NEW u \in Users, OnLeaveRoom(u) \/ OnSend(u) PROVE TypeOK'
  BY <1>2, ClickTypes
<1>3. ASSUME NEW u \in Users, HandlePacket(u) PROVE TypeOK'
  BY <1>3, HandlePacketTypes
<1>4. ASSUME NEW u \in Users, Lose(u) \/ Cleanup(u) \/ \E s \in Servers : Reconnect(u, s) \/ CleanupOld(u, s)
      PROVE TypeOK'
  BY <1>4, ConnectionTypes
<1>5. ASSUME NEW u \in Users, HandleJoinRoom(u) \/ SendHistory(u) \/ HandleLeaveRoom(u) PROVE TypeOK'
  BY <1>5, RoomHandlerTypes
<1>6. ASSUME NEW u \in Users, HandleChatMessage(u) \/ GetClients(u) PROVE TypeOK'
  BY <1>6, MessageHandlerTypes
<1>7. ASSUME NEW u \in Users, Deliver(u) PROVE TypeOK'
  BY <1>7, DeliverTypes
<1>8. ASSUME NEW s \in Servers, HandleDmMessage(s) PROVE TypeOK'
  BY <1>8, DmMessageTypes
<1>9. CASE UNCHANGED vars
  BY <1>9 DEF vars, client, network, server, leftover, handler, history, TypeOK, PanelTypes, NetworkTypes, ServerTypes,
              HandlerTypes, HistoryTypes
<1> QED
  BY <1>1, <1>2, <1>3, <1>4, <1>5, <1>6, <1>7, <1>8, <1>9 DEF Next

\* What holds at the start
LEMMA AtTheStart == Init => TypeOK /\ Storing /\ Sending /\ Echoing /\ Places /\ Filed /\ Covering
<1> SUFFICES ASSUME Init PROVE TypeOK /\ Storing /\ Sending /\ Echoing /\ Places /\ Filed /\ Covering
  OBVIOUS
<1>1. /\ \A u \in Users : view[u] = <<>> /\ inbox[u] = <<>> /\ out[u] = <<>> /\ got[u] = {} /\ joined[u] = {}
                          /\ pc[u] = "read" /\ doing[u] = NoPacket /\ id[u] = 0 /\ targets[u] = {}
      /\ \A s \in Servers : channel[s] = <<>> /\ \A r \in Rooms : clients[s][r] = {} /\ stale[s][r] = {}
      /\ log = <<>> /\ up = Users
  BY DEF Init
<1>2. TypeOK
  <2>1. /\ <<>> \in Seq(Panels) /\ <<>> \in Seq(Requests) /\ <<>> \in Seq(Answers) /\ DOMAIN <<>> = {}
        /\ <<>> \in Seq(Entries) /\ <<>> \in Seq(Pushes)
    OBVIOUS
  <2>2. PanelTypes
    BY <2>1 DEF Init, PanelTypes
  <2>3. NetworkTypes
    BY <2>1 DEF Init, NetworkTypes
  <2>4. ServerTypes
    BY <2>1 DEF Init, ServerTypes
  <2>5. HandlerTypes /\ HistoryTypes
    BY DEF Init, HandlerTypes, HistoryTypes
  <2> QED
    BY <2>2, <2>3, <2>4, <2>5 DEF TypeOK
<1>3. Storing /\ Sending
  BY <1>1 DEF Storing, Sending, Busy
<1>4. Echoing /\ Places
  <2>1. NoPacket.room = NoRoom /\ NoRoom \notin DmRooms
    BY ChatAssumption DEF NoPacket
  <2> QED
    BY <1>1, <2>1 DEF Echoing, Echo, Places, Busy
<1>5. Filed /\ Covering
  BY <1>1 DEF Filed, BoxFiled, HistoryOpen, Covering, Owed
<1> QED
  BY <1>2, <1>3, <1>4, <1>5

-----------------------------------------------------------------------------
(* Messages come once *)

\* A delivery, by what it does to each user and server
LEMMA DeliverStep ==
    ASSUME TypeOK, NEW u \in Users, Deliver(u)
    PROVE /\ pc[u] = "send" /\ home[u] \in Servers /\ doing[u].room \in Rooms
          /\ There(u) \cap Local(u) = {} /\ (There(u) \cup Local(u)) \cap Remote(u) = {}
          /\ There(u) \subseteq Users /\ Local(u) \subseteq Users /\ Remote(u) \subseteq Users
          /\ \A v \in Local(u) : home[v] = home[u]
          /\ \A v \in Remote(u) : v \notin cut => home[v] # home[u]
          /\ pc' = [pc EXCEPT ![u] = "read"] /\ doing' = [doing EXCEPT ![u] = NoPacket]
          /\ id' = [id EXCEPT ![u] = 0] /\ targets' = [targets EXCEPT ![u] = {}]
          /\ \A v \in Users : got'[v] = IF v \in There(u) \cup Local(u) THEN got[v] \cup {<<id[u], session[v]>>}
                                        ELSE got[v]
          /\ twice' = (twice \/ Had(There(u) \cup Local(u), id[u]))
          /\ \/ /\ Remote(u) # {} /\ Push(u) \in Pushes /\ Push(u).to \in Remote(u) /\ Push(u).msg = id[u]
                /\ \A t \in Servers : channel'[t] = IF t = home[u] THEN channel[t] ELSE Append(channel[t], Push(u))
             \/ /\ channel' = channel
                /\ \A v \in Remote(u) : id[u] \in unseen'[v]
          /\ \A v \in Users : unseen[v] \subseteq unseen'[v] /\ (v \in Lost(u) => id[u] \in unseen'[v])
          /\ UNCHANGED <<client, up, home, session, out, clients, leftover, log, joined, unechoed, misfiled>>
<1>1. pc[u] = "send" /\ doing[u].room \in Rooms /\ id[u] \in Nat /\ home[u] \in Servers
  BY DEF Deliver, TypeOK, HandlerTypes, Requests
<1>2. There(u) \subseteq Users /\ ToPush(u) \subseteq Users
  BY <1>1, ChatAssumption DEF There, ToPush, Recipient
<1>3. There(u) \cap ToPush(u) = {}
  <2>1. ASSUME NEW v \in There(u) PROVE AlreadyDelivered(u, v)
    <3>1. <<v, session[v]>> \in targets[u] /\ <<v, session[v]>>[1] = v
      BY DEF There
    <3> QED
      BY <3>1 DEF AlreadyDelivered
  <2> QED
    BY <2>1 DEF ToPush
<1>4. Remote(u) # {} => Push(u) \in Pushes /\ Push(u).to \in Remote(u) /\ Push(u).msg = id[u]
  BY <1>1, <1>2 DEF Remote, Push, Pushes
<1>5. /\ got' = Noted(There(u) \cup Local(u), id[u])
      /\ twice' = (twice \/ There(u) \cap Local(u) # {} \/ Had(There(u) \cup Local(u), id[u]))
  BY DEF Deliver, There, Local, ToPush
<1>6. PICK failed \in {{}, Remote(u)} :
         /\ channel' = IF Remote(u) = failed THEN channel
                       ELSE [t \in Servers |-> IF t = home[u] THEN channel[t] ELSE Append(channel[t], Push(u))]
         /\ unseen' = [v \in Users |-> IF v \in Lost(u) \cup failed THEN unseen[v] \cup {id[u]} ELSE unseen[v]]
  BY DEF Deliver, There, Remote, Local, ToPush, Push, Lost
<1>7. /\ \/ /\ Remote(u) # {} /\ Push(u) \in Pushes /\ Push(u).to \in Remote(u) /\ Push(u).msg = id[u]
            /\ \A t \in Servers : channel'[t] = IF t = home[u] THEN channel[t] ELSE Append(channel[t], Push(u))
         \/ /\ channel' = channel
            /\ \A v \in Remote(u) : id[u] \in unseen'[v]
      /\ \A v \in Users : unseen[v] \subseteq unseen'[v] /\ (v \in Lost(u) => id[u] \in unseen'[v])
  <2>1. Remote(u) \subseteq Users
    BY <1>2 DEF Remote
  <2> QED
    BY <1>4, <1>6, <2>1
<1>8. /\ There(u) \cap Local(u) = {} /\ (There(u) \cup Local(u)) \cap Remote(u) = {}
      /\ Local(u) \subseteq Users /\ Remote(u) \subseteq Users
      /\ \A v \in Local(u) : home[v] = home[u]
      /\ \A v \in Remote(u) : v \notin cut => home[v] # home[u]
  BY <1>2, <1>3 DEF Local, Remote, Registered
<1>9. /\ pc' = [pc EXCEPT ![u] = "read"] /\ doing' = [doing EXCEPT ![u] = NoPacket]
      /\ id' = [id EXCEPT ![u] = 0] /\ targets' = [targets EXCEPT ![u] = {}]
      /\ UNCHANGED <<client, up, home, session, out, clients, leftover, log, joined, unechoed, misfiled>>
  BY DEF Deliver, GoTo
<1>10. \A v \in Users : got'[v] = IF v \in There(u) \cup Local(u) THEN got[v] \cup {<<id[u], session[v]>>} ELSE got[v]
  BY <1>5 DEF Noted
<1> QED
  BY <1>1, <1>2, <1>5, <1>7, <1>8, <1>9, <1>10

\* Steps that send nothing and store nothing
SendsNothing ==
    /\ UNCHANGED <<got, twice, channel, log, id>>
    /\ \A v \in Users : Busy(v)' => Busy(v)
    /\ \A v \in Users : home'[v] \in {home[v], NoServer} /\ session'[v] = session[v]

\* What is stored and what was sent stays so when nothing is.
LEMMA SendingNothing ==
    ASSUME TypeOK, Storing, Sending, LiveOnce, SendsNothing PROVE Storing' /\ Sending' /\ LiveOnce'
<1>1. \A m : Unsent(m) => Unsent(m)'
  BY DEF Unsent, SendsNothing
<1>2. Storing'
  BY <1>1 DEF Storing, SendsNothing
<1>3. \A s \in Servers : \A i \in 1 .. Len(channel[s]) : channel[s][i].to \in Users /\ channel[s] \in Seq(Pushes)
  <2> SUFFICES ASSUME NEW s \in Servers, NEW i \in 1 .. Len(channel[s])
               PROVE channel[s][i].to \in Users /\ channel[s] \in Seq(Pushes)
    OBVIOUS
  <2>1. channel[s] \in Seq(Pushes)
    BY DEF TypeOK, ServerTypes
  <2>2. channel[s][i] \in Pushes
    BY <2>1
  <2> QED
    BY <2>1, <2>2 DEF Pushes
<1>4. ASSUME NEW s \in Servers, NEW i \in 1 .. Len(channel[s]), home'[channel[s][i].to] = s
      PROVE home[channel[s][i].to] = s /\ session'[channel[s][i].to] = session[channel[s][i].to]
  BY <1>3, <1>4, ChatAssumption DEF SendsNothing
<1>5. \A v \in Users : \A g \in got'[v] : g[1] <= Len(log') /\ g[2] <= session'[v]
  BY DEF Sending, SendsNothing
<1>6. \A s \in Servers : \A i \in 1 .. Len(channel'[s]) :
         /\ channel'[s][i].msg \in 1 .. Len(log')
         /\ home'[channel'[s][i].to] = s => <<channel'[s][i].msg, session'[channel'[s][i].to]>> \notin got'[channel'[s][i].to]
  <2>1. channel' = channel /\ got' = got /\ log' = log
    BY DEF SendsNothing
  <2> SUFFICES ASSUME NEW s \in Servers, NEW i \in 1 .. Len(channel[s])
               PROVE /\ channel[s][i].msg \in 1 .. Len(log)
                     /\ home'[channel[s][i].to] = s
                            => <<channel[s][i].msg, session'[channel[s][i].to]>> \notin got[channel[s][i].to]
    BY <2>1
  <2>2. /\ channel[s][i].msg \in 1 .. Len(log)
        /\ home[channel[s][i].to] = s => <<channel[s][i].msg, session[channel[s][i].to]>> \notin got[channel[s][i].to]
    BY DEF Sending
  <2> QED
    BY <1>4, <2>2
<1>7. Sending'
  BY <1>5, <1>6 DEF Sending, SendsNothing
<1> QED
  BY <1>2, <1>7 DEF LiveOnce, SendsNothing

\* A new connection has got nothing yet.
LEMMA ReconnectSends ==
    ASSUME TypeOK, Storing, Sending, LiveOnce, NEW u \in Users, NEW s \in Servers, Reconnect(u, s)
    PROVE Storing' /\ Sending' /\ LiveOnce'
<1>1. /\ UNCHANGED <<got, twice, channel, log, id, pc>>
      /\ home' = [home EXCEPT ![u] = s] /\ session' = [session EXCEPT ![u] = @ + 1]
  BY DEF Reconnect, history, handler
<1>2. session[u] \in Nat /\ got[u] \in SUBSET (Nat \X Nat)
  BY DEF TypeOK, NetworkTypes, HistoryTypes
<1>3. \A v \in Users : v # u => home'[v] = home[v] /\ session'[v] = session[v]
  BY <1>1 DEF TypeOK, NetworkTypes
<1>4. session'[u] = session[u] + 1
  BY <1>1 DEF TypeOK, NetworkTypes
<1>5. \A g \in got[u] : g[2] <= session[u] /\ g[2] \in Nat
  BY <1>2 DEF Sending
<1>6. \A m : <<m, session'[u]>> \notin got[u]
  <2> SUFFICES ASSUME NEW m, <<m, session'[u]>> \in got[u] PROVE FALSE
    OBVIOUS
  <2>1. <<m, session'[u]>>[2] <= session[u] /\ <<m, session'[u]>>[2] = session'[u]
    BY <1>5
  <2> QED
    BY <1>2, <1>4, <2>1
<1>7. Storing'
  BY <1>1 DEF Storing, Busy, Unsent
<1>8. \A v \in Users : \A g \in got'[v] : g[1] <= Len(log') /\ g[2] <= session'[v]
  <2> SUFFICES ASSUME NEW v \in Users, NEW g \in got[v] PROVE g[1] <= Len(log) /\ g[2] <= session'[v]
    BY <1>1
  <2>1. g[1] <= Len(log) /\ g[2] <= session[v]
    BY DEF Sending
  <2> QED
    BY <1>2, <1>3, <1>4, <1>5, <2>1
<1>9. \A t \in Servers : \A i \in 1 .. Len(channel'[t]) :
         /\ channel'[t][i].msg \in 1 .. Len(log')
         /\ home'[channel'[t][i].to] = t => <<channel'[t][i].msg, session'[channel'[t][i].to]>> \notin got'[channel'[t][i].to]
  <2> SUFFICES ASSUME NEW t \in Servers, NEW i \in 1 .. Len(channel[t])
               PROVE /\ channel[t][i].msg \in 1 .. Len(log)
                     /\ home'[channel[t][i].to] = t
                            => <<channel[t][i].msg, session'[channel[t][i].to]>> \notin got[channel[t][i].to]
    BY <1>1
  <2>1. channel[t] \in Seq(Pushes)
    BY DEF TypeOK, ServerTypes
  <2>2. channel[t][i] \in Pushes
    BY <2>1
  <2>3. channel[t][i].to \in Users
    BY <2>2 DEF Pushes
  <2>4. /\ channel[t][i].msg \in 1 .. Len(log)
        /\ home[channel[t][i].to] = t => <<channel[t][i].msg, session[channel[t][i].to]>> \notin got[channel[t][i].to]
    BY DEF Sending
  <2> QED
    BY <1>3, <1>6, <2>3, <2>4
<1>10. Sending'
  BY <1>1, <1>8, <1>9 DEF Sending
<1> QED
  BY <1>1, <1>7, <1>10 DEF LiveOnce

\* A message that is stored has a new number.
LEMMA StoredIsNew ==
    ASSUME TypeOK, Storing, Sending, LiveOnce, NEW u \in Users, HandleChatMessage(u)
    PROVE Storing' /\ Sending' /\ LiveOnce'
<1>1. UNCHANGED <<home, session, channel, got, twice>> /\ pc[u] = "read"
  BY DEF HandleChatMessage
<1>2. CASE UNCHANGED <<log, id, pc>>
  <2>1. SendsNothing
    BY <1>1, <1>2 DEF SendsNothing, Busy
  <2> QED
    BY <2>1, SendingNothing
<1>3. CASE StoreMessage(u, Head(out[u]).room) /\ pc' = [pc EXCEPT ![u] = "stored"]
  <2>1. u \in up /\ out[u] # <<>> /\ out' = [out EXCEPT ![u] = Tail(@)]
    BY DEF HandleChatMessage
  <2>2. Head(out[u]).room \in Rooms
    BY <2>1, RequestTypes
  <2>3. /\ Len(log') = Len(log) + 1 /\ Len(log) \in Nat
        /\ id'[u] = Len(log) + 1 /\ \A v \in Users : v # u => id'[v] = id[v]
    BY <1>3, <2>2, StoreTypes
  <2>4. \A m \in 1 .. Len(log) : m \in 1 .. Len(log') /\ m # Len(log) + 1
    BY <2>3
  <2>5. \A v \in Users : v # u => (Busy(v)' => Busy(v))
    BY <1>3 DEF Busy, TypeOK, HandlerTypes
  <2>6. Unsent(Len(log) + 1)
    <3>1. \A v \in Users : \A g \in got[v] : g[1] \in Nat /\ g[1] <= Len(log)
      BY DEF Sending, TypeOK, HistoryTypes
    <3>2. \A s \in Servers : \A i \in 1 .. Len(channel[s]) : channel[s][i].msg \in 1 .. Len(log)
      BY DEF Sending
    <3> QED
      BY <2>3, <2>4, <3>1, <3>2 DEF Unsent
  <2>7. \A m : Unsent(m) => Unsent(m)'
    BY <1>1 DEF Unsent
  <2>8. \A v \in Users : Busy(v)' => id'[v] \in 1 .. Len(log') /\ Unsent(id[v])'
    <3> SUFFICES ASSUME NEW v \in Users, Busy(v)' PROVE id'[v] \in 1 .. Len(log') /\ Unsent(id[v])'
      OBVIOUS
    <3>1. CASE v = u
      BY <2>3, <2>6, <2>7, <3>1
    <3>2. CASE v # u
      BY <2>3, <2>4, <2>5, <2>7, <3>2 DEF Storing
    <3> QED
      BY <3>1, <3>2
  <2>9. \A v, w \in Users : Busy(v)' /\ Busy(w)' /\ id'[v] = id'[w] => v = w
    <3>1. \A v \in Users : v # u /\ Busy(v)' => id'[v] # Len(log) + 1 /\ id'[v] = id[v] /\ Busy(v)
      BY <2>3, <2>4, <2>5 DEF Storing
    <3> QED
      BY <2>3, <3>1 DEF Storing
  <2>10. Sending'
    <3>1. \A v \in Users : \A g \in got[v] : g[1] <= Len(log')
      BY <2>3 DEF Sending, TypeOK, HistoryTypes
    <3>2. \A s \in Servers : \A i \in 1 .. Len(channel[s]) : channel[s][i].msg \in 1 .. Len(log')
      BY <2>4 DEF Sending
    <3> QED
      BY <1>1, <3>1, <3>2 DEF Sending
  <2> QED
    BY <1>1, <2>8, <2>9, <2>10 DEF Storing, LiveOnce
<1> QED
  BY <1>2, <1>3 DEF HandleChatMessage

\* What a delivery leaves in the channels: what was there, and the message.
LEMMA ChannelsAfterDelivery ==
    ASSUME TypeOK, NEW u \in Users, Deliver(u), NEW t \in Servers
    PROVE /\ Len(channel[t]) \in Nat /\ Len(channel'[t]) \in {Len(channel[t]), Len(channel[t]) + 1}
          /\ \A i \in 1 .. Len(channel[t]) : i \in 1 .. Len(channel'[t]) /\ channel'[t][i] = channel[t][i]
          /\ \A i \in 1 .. Len(channel'[t]) :
                \/ i \in 1 .. Len(channel[t])
                \/ /\ i = Len(channel[t]) + 1 /\ channel'[t][i].msg = id[u]
                   /\ channel'[t][i].to \in Remote(u) /\ t # home[u]
<1>1. channel[t] \in Seq(Pushes)
  BY DEF TypeOK, ServerTypes
<1>2. \/ /\ Push(u) \in Pushes /\ Push(u).to \in Remote(u) /\ Push(u).msg = id[u]
         /\ \A q \in Servers : channel'[q] = IF q = home[u] THEN channel[q] ELSE Append(channel[q], Push(u))
      \/ channel' = channel
  BY DeliverStep
<1>3. CASE channel'[t] = channel[t]
  BY <1>1, <1>3
<1>4. CASE t # home[u] /\ Push(u) \in Pushes /\ Push(u).to \in Remote(u) /\ Push(u).msg = id[u]
           /\ channel'[t] = Append(channel[t], Push(u))
  <2> DEFINE w == Append(channel[t], Push(u))
  <2>1. /\ Len(channel[t]) \in Nat /\ Len(w) = Len(channel[t]) + 1 /\ w[Len(channel[t]) + 1] = Push(u)
        /\ \A i \in 1 .. Len(channel[t]) : w[i] = channel[t][i]
    BY <1>1, <1>4
  <2>2. channel'[t] = w
    BY <1>4
  <2> HIDE DEF w
  <2> QED
    BY <1>4, <2>1, <2>2
<1> QED
  BY <1>2, <1>3, <1>4

\* A message is delivered to connections that have not got it.
LEMMA DeliverySends ==
    ASSUME TypeOK, Storing, Sending, LiveOnce, NEW u \in Users, Deliver(u)
    PROVE Storing' /\ Sending' /\ LiveOnce'
<1>1. /\ pc[u] = "send" /\ pc' = [pc EXCEPT ![u] = "read"] /\ id' = [id EXCEPT ![u] = 0]
      /\ UNCHANGED <<home, session, log>>
      /\ There(u) \subseteq Users /\ Local(u) \subseteq Users /\ Remote(u) \subseteq Users
      /\ (There(u) \cup Local(u)) \cap Remote(u) = {}
      /\ twice' = (twice \/ Had(There(u) \cup Local(u), id[u]))
      /\ \A v \in Users : got'[v] = IF v \in There(u) \cup Local(u) THEN got[v] \cup {<<id[u], session[v]>>}
                                    ELSE got[v]
  BY DeliverStep
<1>2. id[u] \in 1 .. Len(log) /\ Unsent(id[u]) /\ Len(log) \in Nat /\ id[u] <= Len(log)
  BY <1>1 DEF Storing, Busy, TypeOK, ServerTypes
<1>3. \A v \in Users : Busy(v)' => v # u /\ Busy(v) /\ id'[v] = id[v] /\ id[v] # id[u]
  BY <1>1 DEF Busy, Storing, TypeOK, HandlerTypes
<1>4. \A v \in Users : \A g \in got'[v] : g \in got[v] \/ g = <<id[u], session[v]>>
  BY <1>1
<1>5. \A m : Unsent(m) /\ m # id[u] => Unsent(m)'
  <2> SUFFICES ASSUME NEW m, Unsent(m), m # id[u] PROVE Unsent(m)'
    OBVIOUS
  <2>1. \A v \in Users : \A g \in got'[v] : g[1] # m
    BY <1>4 DEF Unsent
  <2>2. \A t \in Servers : \A i \in 1 .. Len(channel'[t]) : channel'[t][i].msg # m
    BY ChannelsAfterDelivery DEF Unsent
  <2> QED
    BY <2>1, <2>2 DEF Unsent
<1>6. Storing'
  BY <1>1, <1>3, <1>5 DEF Storing
<1>7. \A v \in Users : \A g \in got'[v] : g[1] <= Len(log') /\ g[2] <= session'[v]
  <2> SUFFICES ASSUME NEW v \in Users, NEW g \in got'[v] PROVE g[1] <= Len(log) /\ g[2] <= session[v]
    BY <1>1
  <2>1. CASE g \in got[v]
    BY <2>1 DEF Sending
  <2>2. CASE g = <<id[u], session[v]>>
    BY <1>2, <2>2 DEF TypeOK, NetworkTypes
  <2> QED
    BY <1>4, <2>1, <2>2
<1>8. ASSUME NEW t \in Servers, NEW i \in 1 .. Len(channel'[t])
      PROVE /\ channel'[t][i].msg \in 1 .. Len(log)
            /\ home[channel'[t][i].to] = t
                  => <<channel'[t][i].msg, session[channel'[t][i].to]>> \notin got'[channel'[t][i].to]
  <2>1. CASE i \in 1 .. Len(channel[t])
    <3>1. channel[t] \in Seq(Pushes) /\ channel'[t][i] = channel[t][i]
      BY <2>1, ChannelsAfterDelivery DEF TypeOK, ServerTypes
    <3>2. channel[t][i] \in Pushes
      BY <2>1, <3>1
    <3>3. channel[t][i].to \in Users /\ channel[t][i].msg # id[u]
      BY <1>2, <2>1, <3>2 DEF Pushes, Unsent
    <3>4. /\ channel[t][i].msg \in 1 .. Len(log)
          /\ home[channel[t][i].to] = t => <<channel[t][i].msg, session[channel[t][i].to]>> \notin got[channel[t][i].to]
      BY <2>1 DEF Sending
    <3>5. <<channel[t][i].msg, session[channel[t][i].to]>> # <<id[u], session[channel[t][i].to]>>
      BY <3>3
    <3> QED
      BY <1>4, <3>1, <3>3, <3>4, <3>5
  <2>2. CASE channel'[t][i].msg = id[u] /\ channel'[t][i].to \in Remote(u)
    <3>1. got'[channel'[t][i].to] = got[channel'[t][i].to] /\ channel'[t][i].to \in Users
      BY <1>1, <2>2
    <3>2. \A g \in got[channel'[t][i].to] : g[1] # id[u]
      BY <1>2, <3>1 DEF Unsent
    <3>3. <<channel'[t][i].msg, session[channel'[t][i].to]>> \notin got[channel'[t][i].to]
      BY <2>2, <3>2
    <3> QED
      BY <1>2, <2>2, <3>1, <3>3
  <2> QED
    BY <2>1, <2>2, ChannelsAfterDelivery
<1>9. ASSUME NEW t \in Servers, NEW i \in 1 .. Len(channel'[t]), NEW j \in 1 .. Len(channel'[t]),
             channel'[t][i].msg = channel'[t][j].msg
      PROVE i = j
  <2>1. \A k \in 1 .. Len(channel[t]) : channel'[t][k] = channel[t][k] /\ channel[t][k].msg # id[u]
    BY <1>2, ChannelsAfterDelivery DEF Unsent
  <2>2. \A k \in 1 .. Len(channel'[t]) :
           k \in 1 .. Len(channel[t]) \/ (k = Len(channel[t]) + 1 /\ channel'[t][k].msg = id[u])
    BY ChannelsAfterDelivery
  <2>3. CASE i \in 1 .. Len(channel[t]) /\ j \in 1 .. Len(channel[t])
    BY <1>9, <2>1, <2>3 DEF Sending
  <2> QED
    BY <1>9, <2>1, <2>2, <2>3
<1>10. Sending'
  BY <1>1, <1>7, <1>8, <1>9 DEF Sending
<1>11. ~Had(There(u) \cup Local(u), id[u])
  <2>1. \A v \in Users : <<id[u], session[v]>> \notin got[v]
    <3> SUFFICES ASSUME NEW v \in Users, <<id[u], session[v]>> \in got[v] PROVE FALSE
      OBVIOUS
    <3>1. <<id[u], session[v]>>[1] # id[u]
      BY <1>2 DEF Unsent
    <3> QED
      BY <3>1
  <2> QED
    BY <1>1, <2>1 DEF Had
<1> QED
  BY <1>1, <1>6, <1>10, <1>11 DEF LiveOnce

\* Server s takes message d from its subscription.
Takes(s, d) ==
    /\ d \in Pushes /\ d = channel[s][1] /\ 1 \in 1 .. Len(channel[s]) /\ d.to \in Users
    /\ Len(channel[s]) \in Nat /\ Len(channel'[s]) = Len(channel[s]) - 1
    /\ \A i \in 1 .. Len(channel'[s]) : i + 1 \in 1 .. Len(channel[s]) /\ channel'[s][i] = channel[s][i + 1]
    /\ \A t \in Servers : t # s => channel'[t] = channel[t]
    /\ \/ ~Registered(d.to, s) /\ UNCHANGED <<inbox, got, twice>>
       \/ /\ Registered(d.to, s)
          /\ inbox' = Sent(inbox, {d.to}, Packet("CHAT_MESSAGE", log[d.msg].room, {d.msg}))
          /\ twice' = (twice \/ <<d.msg, session[d.to]>> \in got[d.to])
          /\ got'[d.to] = got[d.to] \cup {<<d.msg, session[d.to]>>}
          /\ \A v \in Users : v # d.to => got'[v] = got[v]

\* That is what the thread of the subscription does.
LEMMA DmMessageStep ==
    ASSUME TypeOK, NEW s \in Servers, HandleDmMessage(s), NEW d, d = Head(channel[s]) PROVE Takes(s, d)
<1>1. channel[s] \in Seq(Pushes) /\ channel[s] # <<>> /\ channel' = [channel EXCEPT ![s] = Tail(channel[s])]
  BY DEF HandleDmMessage, TypeOK, ServerTypes
<1>2. /\ d \in Pushes /\ d = channel[s][1] /\ 1 \in 1 .. Len(channel[s]) /\ Len(channel[s]) \in Nat
      /\ Len(Tail(channel[s])) = Len(channel[s]) - 1
      /\ \A i \in 1 .. Len(channel[s]) - 1 : Tail(channel[s])[i] = channel[s][i + 1] /\ i + 1 \in 1 .. Len(channel[s])
  BY <1>1, FirstAndRest
<1>3. channel'[s] = Tail(channel[s]) /\ \A t \in Servers : t # s => channel'[t] = channel[t]
  BY <1>1 DEF TypeOK, ServerTypes
<1>4. \/ ~Registered(d.to, s) /\ UNCHANGED <<inbox, got, twice>>
      \/ /\ Registered(d.to, s)
         /\ inbox' = Sent(inbox, {d.to}, Packet("CHAT_MESSAGE", log[d.msg].room, {d.msg}))
         /\ got' = Noted({d.to}, d.msg)
         /\ twice' = (twice \/ Had({d.to}, d.msg))
  BY DEF HandleDmMessage
<1>5. d.to \in Users
  BY <1>2 DEF Pushes
<1>6. got' = Noted({d.to}, d.msg) => /\ got'[d.to] = got[d.to] \cup {<<d.msg, session[d.to]>>}
                                     /\ \A v \in Users : v # d.to => got'[v] = got[v]
  BY <1>5 DEF Noted
<1>7. Had({d.to}, d.msg) <=> <<d.msg, session[d.to]>> \in got[d.to]
  BY DEF Had
<1>8. /\ Len(channel'[s]) = Len(channel[s]) - 1
      /\ \A i \in 1 .. Len(channel'[s]) : i + 1 \in 1 .. Len(channel[s]) /\ channel'[s][i] = channel[s][i + 1]
  BY <1>2, <1>3
<1>9. \/ ~Registered(d.to, s) /\ UNCHANGED <<inbox, got, twice>>
      \/ /\ Registered(d.to, s)
         /\ inbox' = Sent(inbox, {d.to}, Packet("CHAT_MESSAGE", log[d.msg].room, {d.msg}))
         /\ twice' = (twice \/ <<d.msg, session[d.to]>> \in got[d.to])
         /\ got'[d.to] = got[d.to] \cup {<<d.msg, session[d.to]>>}
         /\ \A v \in Users : v # d.to => got'[v] = got[v]
  BY <1>4, <1>6, <1>7
<1> QED
  BY <1>2, <1>3, <1>5, <1>8, <1>9 DEF Takes

\* A message that comes by way of Redis comes to a connection that has not got it.
LEMMA DmMessageSends ==
    ASSUME TypeOK, Storing, Sending, LiveOnce, NEW s \in Servers, HandleDmMessage(s)
    PROVE Storing' /\ Sending' /\ LiveOnce'
<1>0. PICK d : d = Head(channel[s])
  OBVIOUS
<1>1. /\ d = channel[s][1] /\ 1 \in 1 .. Len(channel[s]) /\ d.to \in Users
      /\ Len(channel[s]) \in Nat /\ Len(channel'[s]) = Len(channel[s]) - 1
      /\ \A i \in 1 .. Len(channel'[s]) : i + 1 \in 1 .. Len(channel[s]) /\ channel'[s][i] = channel[s][i + 1]
      /\ \A t \in Servers : t # s => channel'[t] = channel[t]
      /\ \/ UNCHANGED <<got, twice>>
         \/ /\ home[d.to] = s
            /\ twice' = (twice \/ <<d.msg, session[d.to]>> \in got[d.to])
            /\ got'[d.to] = got[d.to] \cup {<<d.msg, session[d.to]>>}
            /\ \A v \in Users : v # d.to => got'[v] = got[v]
  <2>1. Takes(s, d)
    BY <1>0, DmMessageStep
  <2> QED
    BY <2>1 DEF Takes, Registered
<1>2. UNCHANGED <<home, session, log, pc, id>>
  BY DEF HandleDmMessage, handler
<1>3. /\ d.msg \in 1 .. Len(log) /\ Len(log) \in Nat /\ d.msg <= Len(log)
      /\ home[d.to] = s => <<d.msg, session[d.to]>> \notin got[d.to]
  <2>1. d.msg \in 1 .. Len(log) /\ (home[d.to] = s => <<d.msg, session[d.to]>> \notin got[d.to])
    BY <1>1 DEF Sending
  <2>2. Len(log) \in Nat
    BY DEF TypeOK, ServerTypes
  <2> QED
    BY <2>1, <2>2
<1>4. \A v \in Users : \A g \in got'[v] :
         g \in got[v] \/ (g = <<d.msg, session[v]>> /\ v = d.to /\ home[d.to] = s)
  BY <1>1
<1>5. \A m : Unsent(m) => Unsent(m)'
  <2> SUFFICES ASSUME NEW m, Unsent(m) PROVE Unsent(m)'
    OBVIOUS
  <2>1. d.msg # m
    BY <1>1 DEF Unsent
  <2>2. \A v \in Users : \A g \in got'[v] : g[1] # m
    BY <1>4, <2>1 DEF Unsent
  <2>3. \A t \in Servers : \A i \in 1 .. Len(channel'[t]) : channel'[t][i].msg # m
    <3> SUFFICES ASSUME NEW t \in Servers, NEW i \in 1 .. Len(channel'[t]) PROVE channel'[t][i].msg # m
      OBVIOUS
    <3>1. CASE t = s
      <4>1. \A k \in 1 .. Len(channel[s]) : channel[s][k].msg # m
        BY DEF Unsent
      <4>2. i + 1 \in 1 .. Len(channel[s]) /\ channel'[s][i] = channel[s][i + 1]
        BY <1>1, <3>1
      <4> QED
        BY <3>1, <4>1, <4>2
    <3>2. CASE t # s
      BY <1>1, <3>2 DEF Unsent
    <3> QED
      BY <3>1, <3>2
  <2> QED
    BY <2>2, <2>3 DEF Unsent
<1>6. Storing'
  BY <1>2, <1>5 DEF Storing, Busy
<1>7. \A v \in Users : \A g \in got'[v] : g[1] <= Len(log') /\ g[2] <= session'[v]
  <2> SUFFICES ASSUME NEW v \in Users, NEW g \in got'[v] PROVE g[1] <= Len(log) /\ g[2] <= session[v]
    BY <1>2
  <2>1. CASE g \in got[v]
    BY <2>1 DEF Sending
  <2>2. CASE g = <<d.msg, session[v]>>
    BY <1>3, <2>2 DEF TypeOK, NetworkTypes
  <2> QED
    BY <1>4, <2>1, <2>2
<1>8. ASSUME NEW t \in Servers, NEW i \in 1 .. Len(channel'[t])
      PROVE \E k \in 1 .. Len(channel[t]) : channel'[t][i] = channel[t][k] /\ (t = s => k = i + 1) /\ (t # s => k = i)
  BY <1>1
<1>9. ASSUME NEW t \in Servers, NEW i \in 1 .. Len(channel'[t])
      PROVE /\ channel'[t][i].msg \in 1 .. Len(log)
            /\ home[channel'[t][i].to] = t
                  => <<channel'[t][i].msg, session[channel'[t][i].to]>> \notin got'[channel'[t][i].to]
  <2>1. PICK k \in 1 .. Len(channel[t]) :
           channel'[t][i] = channel[t][k] /\ (t = s => k = i + 1) /\ (t # s => k = i)
    BY <1>8
  <2>2. channel[t] \in Seq(Pushes) /\ channel[t][k] \in Pushes
    <3>1. channel[t] \in Seq(Pushes)
      BY DEF TypeOK, ServerTypes
    <3> QED
      BY <3>1
  <2> DEFINE e == channel[t][k]
  <2>3. /\ e.msg \in 1 .. Len(log)
        /\ home[e.to] = t => <<e.msg, session[e.to]>> \notin got[e.to]
    BY DEF Sending
  <2>4. e.to \in Users
    BY <2>2 DEF Pushes
  <2>5. t = s => e.msg # d.msg
    <3> SUFFICES ASSUME t = s, e.msg = d.msg PROVE FALSE
      OBVIOUS
    <3>1. k = 1
      BY <1>1 DEF Sending
    <3>2. k = i + 1 /\ i \in 1 .. Len(channel'[s])
      BY <2>1
    <3> QED
      BY <1>1, <3>1, <3>2
  <2>6. channel'[t][i] = e
    BY <2>1
  <2> HIDE DEF e
  <2>7. ASSUME home[e.to] = t PROVE <<e.msg, session[e.to]>> \notin got'[e.to]
    <3>1. <<e.msg, session[e.to]>> \notin got[e.to]
      BY <2>3, <2>7
    <3>2. <<e.msg, session[e.to]>> = <<d.msg, session[e.to]>> => e.msg = d.msg
      OBVIOUS
    <3> QED
      BY <1>4, <2>4, <2>5, <2>7, <3>1, <3>2
  <2> QED
    BY <2>3, <2>6, <2>7
<1>10. ASSUME NEW t \in Servers, NEW i \in 1 .. Len(channel'[t]), NEW j \in 1 .. Len(channel'[t]),
              channel'[t][i].msg = channel'[t][j].msg
       PROVE i = j
  <2>1. PICK k \in 1 .. Len(channel[t]) :
           channel'[t][i] = channel[t][k] /\ (t = s => k = i + 1) /\ (t # s => k = i)
    BY <1>8
  <2>2. PICK l \in 1 .. Len(channel[t]) :
           channel'[t][j] = channel[t][l] /\ (t = s => l = j + 1) /\ (t # s => l = j)
    BY <1>8
  <2>3. k = l
    BY <1>10, <2>1, <2>2 DEF Sending
  <2> QED
    BY <2>1, <2>2, <2>3
<1>11. Sending'
  BY <1>2, <1>7, <1>9, <1>10 DEF Sending
<1>12. ~twice'
  BY <1>1, <1>3 DEF LiveOnce
<1> QED
  BY <1>6, <1>11, <1>12 DEF LiveOnce

\* The steps that only move packets, people or the handlers between them
LEMMA QuietSteps ==
    ASSUME TypeOK, NEW u \in Users,
           \/ \E r \in Rooms : OnJoinRoom(u, r) \/ OnRoomSelected(u, r)
           \/ OnLeaveRoom(u) \/ OnSend(u) \/ HandlePacket(u) \/ Lose(u) \/ Cleanup(u)
           \/ \E s \in Servers : CleanupOld(u, s)
           \/ HandleJoinRoom(u) \/ SendHistory(u) \/ HandleLeaveRoom(u) \/ GetClients(u)
    PROVE SendsNothing
<1>1. CASE \/ \E r \in Rooms : OnJoinRoom(u, r) \/ OnRoomSelected(u, r)
           \/ OnLeaveRoom(u) \/ OnSend(u) \/ HandlePacket(u) \/ Lose(u) \/ HandleLeaveRoom(u)
  BY <1>1 DEF OnJoinRoom, OnRoomSelected, OnLeaveRoom, OnSend, HandlePacket, Lose, HandleLeaveRoom, network, server, leftover,
              handler, history, SendsNothing, Busy
<1>2. CASE Cleanup(u)
  <2>1. \A v \in Users : home'[v] \in {home[v], NoServer}
    BY <1>2 DEF Cleanup, TypeOK, NetworkTypes
  <2> QED
    BY <1>2, <2>1 DEF Cleanup, handler, history, SendsNothing, Busy
<1>3. CASE HandleJoinRoom(u)
  <2>1. \A v \in Users : pc'[v] = pc[v] \/ pc'[v] = "history"
    BY <1>3 DEF HandleJoinRoom, TypeOK, HandlerTypes
  <2> QED
    BY <1>3, <2>1 DEF HandleJoinRoom, history, SendsNothing, Busy
<1>4. CASE SendHistory(u)
  <2>1. \A v \in Users : pc'[v] = pc[v] \/ pc'[v] = "read"
    BY <1>4 DEF SendHistory, GoTo, TypeOK, HandlerTypes
  <2> QED
    BY <1>4, <2>1 DEF SendHistory, server, leftover, SendsNothing, Busy
<1>5. CASE GetClients(u)
  <2>1. \A v \in Users : pc'[v] = pc[v] \/ pc[v] = "stored"
    BY <1>5 DEF GetClients, GoTo, TypeOK, HandlerTypes
  <2> QED
    BY <1>5, <2>1 DEF GetClients, network, server, leftover, history, SendsNothing, Busy
<1>6. CASE \E s \in Servers : CleanupOld(u, s)
  BY <1>6 DEF CleanupOld, network, handler, SendsNothing, Busy
<1> QED
  BY <1>1, <1>2, <1>3, <1>4, <1>5, <1>6

\* The invariant of both theorems below
Once == TypeOK /\ Storing /\ Sending /\ LiveOnce

\* No step sends a connection a message again.
LEMMA OnceKept == ASSUME Once, [Next]_vars PROVE Once'
<1> USE DEF Once
<1>1. TypeOK'
  BY TypesKept
<1>2. ASSUME NEW u \in Users, NEW r \in Rooms, OnJoinRoom(u, r) \/ OnRoomSelected(u, r) PROVE Once'
  BY <1>1, <1>2, QuietSteps, SendingNothing
<1>3. ASSUME NEW u \in Users,
             \/ OnLeaveRoom(u) \/ OnSend(u) \/ HandlePacket(u) \/ Lose(u) \/ Cleanup(u)
             \/ \E s \in Servers : CleanupOld(u, s)
             \/ HandleJoinRoom(u) \/ SendHistory(u) \/ HandleLeaveRoom(u) \/ GetClients(u)
      PROVE Once'
  BY <1>1, <1>3, QuietSteps, SendingNothing
<1>4. ASSUME NEW u \in Users, NEW s \in Servers, Reconnect(u, s) PROVE Once'
  BY <1>1, <1>4, ReconnectSends
<1>5. ASSUME NEW u \in Users, HandleChatMessage(u) PROVE Once'
  BY <1>1, <1>5, StoredIsNew
<1>6. ASSUME NEW u \in Users, Deliver(u) PROVE Once'
  BY <1>1, <1>6, DeliverySends
<1>7. ASSUME NEW s \in Servers, HandleDmMessage(s) PROVE Once'
  BY <1>1, <1>7, DmMessageSends
<1>8. CASE UNCHANGED vars
  <2>1. SendsNothing
    BY <1>8 DEF vars, network, server, leftover, handler, history, SendsNothing, Busy
  <2> QED
    BY <1>1, <2>1, SendingNothing
<1> QED
  BY <1>2, <1>3, <1>4, <1>5, <1>6, <1>7, <1>8 DEF Next

\* The invariant that ChatTypeCorrect and MessagesComeOnce follow from
LEMMA OnceHolds == Spec => []Once
<1>1. Init => Once
  BY AtTheStart DEF Once, Init, LiveOnce
<1>2. Once /\ [Next]_vars => Once'
  BY OnceKept
<1> QED
  BY <1>1, <1>2, PTL DEF Spec

\* The variables keep their types: no handler works for a room or a user there
\* is not, and no server is left with the handler of a user it does not serve.
THEOREM ChatTypeCorrect == Spec => []TypeOK
<1>1. Once => TypeOK
  BY DEF Once
<1> QED
  BY <1>1, OnceHolds, PTL

\* No connection gets a message twice, for any number of servers and users: by
\* name the direct push leaves out whom the room reached, and Redis what this
\* server reaches.
THEOREM MessagesComeOnce == Spec => []LiveOnce
<1>1. Once => LiveOnce
  BY DEF Once
<1> QED
  BY <1>1, OnceHolds, PTL

-----------------------------------------------------------------------------
(* Senders see what they send *)

\* A handler adds and removes its own user only, and adds it on its own server.
LEMMA OwnPresence ==
    ASSUME TypeOK, NEW u \in Users,
           \/ HandleJoinRoom(u) \/ HandleLeaveRoom(u) \/ HandleChatMessage(u) \/ Cleanup(u)
           \/ \E s \in Servers : Reconnect(u, s) \/ CleanupOld(u, s)
    PROVE \A s \in Servers : \A r \in Rooms :
             /\ \A v \in Users : v # u => (v \in clients'[s][r] <=> v \in clients[s][r])
             /\ u \in clients'[s][r] => \/ u \in clients[s][r]
                                        \/ u \in up /\ home[u] = s /\ (r \notin DmRooms => Pin[r] = s)
<1>1. ASSUME NEW s \in Servers, NEW r \in Rooms, NEW T \in SUBSET Users, clients' = [clients EXCEPT ![s][r] = T],
             \A v \in Users : v # u => (v \in T <=> v \in clients[s][r]),
             u \in T => \/ u \in clients[s][r]
                        \/ u \in up /\ home[u] = s /\ (r \notin DmRooms => Pin[r] = s)
      PROVE \A t \in Servers : \A q \in Rooms :
             /\ \A v \in Users : v # u => (v \in clients'[t][q] <=> v \in clients[t][q])
             /\ u \in clients'[t][q] => \/ u \in clients[t][q]
                                        \/ u \in up /\ home[u] = t /\ (q \notin DmRooms => Pin[q] = t)
  <2>1. clients'[s][r] = T /\ \A t \in Servers : \A q \in Rooms : t # s \/ q # r => clients'[t][q] = clients[t][q]
    <3>1. clients' = [clients EXCEPT ![s][r] = T]
      BY <1>1
    <3>2. clients'[s][r] = T
      BY <3>1, RoomChanges
    <3>3. \A t \in Servers : \A q \in Rooms : t # s \/ q # r => clients'[t][q] = clients[t][q]
      BY <3>1, RoomChanges
    <3> QED
      BY <3>2, <3>3
  <2> SUFFICES ASSUME NEW t \in Servers, NEW q \in Rooms
               PROVE /\ \A v \in Users : v # u => (v \in clients'[t][q] <=> v \in clients[t][q])
                     /\ u \in clients'[t][q] => \/ u \in clients[t][q]
                                                \/ u \in up /\ home[u] = t /\ (q \notin DmRooms => Pin[q] = t)
    OBVIOUS
  <2>2. CASE t = s /\ q = r
    BY <1>1, <2>1, <2>2
  <2>3. CASE t # s \/ q # r
    BY <2>1, <2>3
  <2> QED
    BY <2>2, <2>3
<1>2. CASE HandleJoinRoom(u)
  <2> DEFINE p == Head(out[u])
             T == clients[home[u]][p.room] \cup {u}
  <2>1. p.room \in Rooms /\ home[u] \in Servers /\ u \in up
    BY <1>2, RequestTypes DEF HandleJoinRoom
  <2>2. \/ Admits(home[u], p.room) /\ clients' = [clients EXCEPT ![home[u]][p.room] = T]
        \/ clients' = clients
    BY <1>2 DEF HandleJoinRoom
  <2> HIDE DEF p
  <2>3. T \in SUBSET Users
    BY <2>1 DEF TypeOK, ServerTypes
  <2>4. CASE Admits(home[u], p.room) /\ clients' = [clients EXCEPT ![home[u]][p.room] = T]
    <3>1. \A v \in Users : v # u => (v \in T <=> v \in clients[home[u]][p.room])
      OBVIOUS
    <3>2. p.room \notin DmRooms => Pin[p.room] = home[u]
      BY <2>4 DEF Admits
    <3> HIDE DEF T
    <3> QED
      BY <1>1, <2>1, <2>3, <2>4, <3>1, <3>2
  <2> QED
    BY <2>2, <2>4
<1>3. CASE HandleLeaveRoom(u)
  <2> DEFINE p == Head(out[u])
             T == clients[home[u]][p.room] \ {u}
  <2>1. p.room \in Rooms /\ home[u] \in Servers
    BY <1>3, RequestTypes DEF HandleLeaveRoom
  <2>2. clients' = [clients EXCEPT ![home[u]][p.room] = T]
    BY <1>3 DEF HandleLeaveRoom
  <2> HIDE DEF p
  <2>3. T \in SUBSET Users
    BY <2>1 DEF TypeOK, ServerTypes
  <2>4. u \notin T /\ \A v \in Users : v # u => (v \in T <=> v \in clients[home[u]][p.room])
    OBVIOUS
  <2> HIDE DEF T
  <2> QED
    BY <1>1, <2>1, <2>2, <2>3, <2>4
<1>4. CASE HandleChatMessage(u)
  <2> DEFINE p == Head(out[u])
             T == clients[home[u]][p.room] \cup LazyJoin(u, home[u], p.room)
  <2>1. p.room \in Rooms /\ home[u] \in Servers /\ u \in up
    <3>1. u \in up /\ out[u] # <<>> /\ out' = [out EXCEPT ![u] = Tail(@)]
      BY <1>4 DEF HandleChatMessage
    <3> QED
      BY <3>1, RequestTypes
  <2>2. clients' = [clients EXCEPT ![home[u]][p.room] = T] \/ clients' = clients
    BY <1>4 DEF HandleChatMessage
  <2> HIDE DEF p
  <2>3. T \in SUBSET Users
    BY <2>1 DEF LazyJoin, TypeOK, ServerTypes
  <2>4. CASE clients' = [clients EXCEPT ![home[u]][p.room] = T]
    <3>1. \A v \in Users : v # u => (v \in T <=> v \in clients[home[u]][p.room])
      BY DEF LazyJoin
    <3>2. u \in T => u \in clients[home[u]][p.room] \/ p.room \in DmRooms
      BY DEF LazyJoin
    <3> HIDE DEF T
    <3> QED
      BY <1>1, <2>1, <2>3, <2>4, <3>1, <3>2
  <2> QED
    BY <2>2, <2>4
<1>5. ASSUME NEW h \in Servers, Unregister(u, h) \/ Overtake(u, h)
      PROVE \A t \in Servers : \A q \in Rooms :
               clients'[t][q] = IF t = h THEN clients[t][q] \ {u} ELSE clients[t][q]
  <2>1. CASE Unregister(u, h)
    <3>1. \A t \in Servers : \A q \in Rooms :
             /\ clients'[t][q] = IF t = h THEN clients[t][q] \ {u} ELSE clients[t][q]
             /\ stale'[t][q] \subseteq stale[t][q]
      BY <2>1, UnregisterTypes
    <3> QED
      BY <3>1
  <2>2. CASE Overtake(u, h)
    <3>1. \A t \in Servers : \A q \in Rooms :
             /\ clients'[t][q] = IF t = h THEN clients[t][q] \ {u} ELSE clients[t][q]
             /\ stale'[t][q] # {} => stale[t][q] # {} \/ clients[t][q] # {}
      BY <2>2, OvertakeTypes
    <3> QED
      BY <3>1
  <2> QED
    BY <1>5, <2>1, <2>2
<1>6. CASE Cleanup(u)
  <2>1. home[u] \in Servers /\ Unregister(u, home[u])
    BY <1>6 DEF Cleanup, TypeOK, NetworkTypes
  <2>2. \A t \in Servers : \A q \in Rooms :
           clients'[t][q] = IF t = home[u] THEN clients[t][q] \ {u} ELSE clients[t][q]
    BY <1>5, <2>1
  <2> QED
    BY <2>2
<1>7. CASE \E s \in Servers : CleanupOld(u, s)
  <2>1. PICK s \in Servers : Unregister(u, s)
    BY <1>7 DEF CleanupOld
  <2>2. \A t \in Servers : \A q \in Rooms :
           clients'[t][q] = IF t = s THEN clients[t][q] \ {u} ELSE clients[t][q]
    BY <1>5, <2>1
  <2> QED
    BY <2>2
<1>8. CASE \E s \in Servers : Reconnect(u, s)
  <2>1. (home[u] # NoServer /\ Overtake(u, home[u])) \/ clients' = clients
    BY <1>8 DEF Reconnect
  <2>2. CASE home[u] # NoServer /\ Overtake(u, home[u])
    <3>1. home[u] \in Servers
      BY <2>2 DEF TypeOK, NetworkTypes
    <3>2. \A t \in Servers : \A q \in Rooms :
             clients'[t][q] = IF t = home[u] THEN clients[t][q] \ {u} ELSE clients[t][q]
      BY <1>5, <2>2, <3>1
    <3> QED
      BY <3>2
  <2>3. CASE clients' = clients
    BY <2>3
  <2> QED
    BY <2>1, <2>2, <2>3
<1> QED
  BY <1>2, <1>3, <1>4, <1>6, <1>7, <1>8

\* A handler that another one's step leaves alone
Steady(v) ==
    /\ pc'[v] = pc[v] /\ doing'[v] = doing[v] /\ id'[v] = id[v] /\ targets'[v] = targets[v]
    /\ home'[v] = home[v] /\ session'[v] = session[v]
    /\ unechoed \subseteq unechoed'
    /\ pc[v] = "stored" /\ v \in clients[home[v]][doing[v].room] =>
          v \in clients'[home[v]][doing[v].room] \/ id[v] \in unechoed'

\* The table only grows.
LogGrows == \A m \in 1 .. Len(log) : m \in 1 .. Len(log') /\ log'[m] = log[m]

\* A handler that is left alone, or is done, echoes as before.
LEMMA SteadyEchoes ==
    ASSUME TypeOK, Storing, NEW v \in Users, Echo(v), LogGrows, Steady(v) \/ (~Busy(v)' /\ id'[v] = 0)
    PROVE Echo(v)'
<1>1. CASE ~Busy(v)' /\ id'[v] = 0
  BY <1>1 DEF Echo, Busy
<1>2. CASE Steady(v)
  <2>1. Busy(v)' <=> Busy(v)
    BY <1>2 DEF Steady, Busy
  <2>2. Busy(v) => id[v] \in 1 .. Len(log)
    BY DEF Storing
  <2>3. Busy(v) => log'[id[v]] = log[id[v]]
    BY <2>2 DEF LogGrows
  <2>4. pc[v] = "stored" => Busy(v)
    BY DEF Busy
  <2> QED
    BY <1>2, <2>1, <2>3, <2>4 DEF Echo, Steady
<1> QED
  BY <1>1, <1>2

\* What a step of another user, or of a server, leaves of a handler
LEMMA OthersSteady ==
    ASSUME TypeOK, NEW u \in Users,
           \/ \E r \in Rooms : OnJoinRoom(u, r) \/ OnRoomSelected(u, r)
           \/ OnLeaveRoom(u) \/ OnSend(u) \/ HandlePacket(u) \/ Lose(u) \/ Cleanup(u)
           \/ \E s \in Servers : Reconnect(u, s) \/ CleanupOld(u, s)
           \/ HandleJoinRoom(u) \/ SendHistory(u) \/ HandleLeaveRoom(u)
           \/ HandleChatMessage(u) \/ GetClients(u) \/ Deliver(u)
    PROVE \A v \in Users : v # u => Steady(v)
<1> SUFFICES ASSUME NEW v \in Users, v # u PROVE Steady(v)
  OBVIOUS
<1>0. pc[v] = "stored" => home[v] \in Servers /\ doing[v].room \in Rooms
  BY DEF TypeOK, HandlerTypes, Requests
<1>1. CASE \/ \E r \in Rooms : OnJoinRoom(u, r) \/ OnRoomSelected(u, r)
           \/ OnLeaveRoom(u) \/ OnSend(u) \/ HandlePacket(u) \/ Lose(u)
  BY <1>1 DEF OnJoinRoom, OnRoomSelected, OnLeaveRoom, OnSend, HandlePacket, Lose, network, server, leftover, handler,
              history, Steady
<1>2. CASE Cleanup(u)
  <2>1. v \in clients[home[v]][doing[v].room] /\ pc[v] = "stored" => v \in clients'[home[v]][doing[v].room]
    BY <1>0, <1>2, OwnPresence
  <2>2. home'[v] = home[v]
    BY <1>2 DEF Cleanup, TypeOK, NetworkTypes
  <2> QED
    BY <1>2, <2>1, <2>2 DEF Cleanup, handler, history, Steady
<1>3. CASE \E s \in Servers : Reconnect(u, s)
  <2>1. v \in clients[home[v]][doing[v].room] /\ pc[v] = "stored" => v \in clients'[home[v]][doing[v].room]
    BY <1>0, <1>3, OwnPresence
  <2>2. home'[v] = home[v] /\ session'[v] = session[v]
    BY <1>3 DEF Reconnect, TypeOK, NetworkTypes
  <2> QED
    BY <1>3, <2>1, <2>2 DEF Reconnect, handler, history, Steady
<1>4. CASE HandleJoinRoom(u)
  <2>1. v \in clients[home[v]][doing[v].room] /\ pc[v] = "stored" => v \in clients'[home[v]][doing[v].room]
    BY <1>0, <1>4, OwnPresence
  <2>2. pc'[v] = pc[v] /\ doing'[v] = doing[v]
    BY <1>4 DEF HandleJoinRoom, TypeOK, HandlerTypes
  <2> QED
    BY <1>4, <2>1, <2>2 DEF HandleJoinRoom, history, Steady
<1>5. CASE SendHistory(u)
  <2>1. pc'[v] = pc[v] /\ doing'[v] = doing[v]
    BY <1>5 DEF SendHistory, GoTo, TypeOK, HandlerTypes
  <2> QED
    BY <1>5, <2>1 DEF SendHistory, server, leftover, Steady
<1>6. CASE HandleLeaveRoom(u)
  <2>1. v \in clients[home[v]][doing[v].room] /\ pc[v] = "stored" => v \in clients'[home[v]][doing[v].room]
    BY <1>0, <1>6, OwnPresence
  <2> QED
    BY <1>6, <2>1 DEF HandleLeaveRoom, handler, Steady
<1>7. CASE HandleChatMessage(u)
  <2>1. v \in clients[home[v]][doing[v].room] /\ pc[v] = "stored" => v \in clients'[home[v]][doing[v].room]
    BY <1>0, <1>7, OwnPresence
  <2>2. pc'[v] = pc[v] /\ doing'[v] = doing[v] /\ id'[v] = id[v]
    BY <1>7 DEF HandleChatMessage, StoreMessage, TypeOK, HandlerTypes
  <2> QED
    BY <1>7, <2>1, <2>2 DEF HandleChatMessage, Steady
<1>8. CASE GetClients(u)
  <2>1. pc'[v] = pc[v] /\ doing'[v] = doing[v] /\ targets'[v] = targets[v]
    BY <1>8 DEF GetClients, GoTo, TypeOK, HandlerTypes
  <2> QED
    BY <1>8, <2>1 DEF GetClients, network, server, leftover, history, Steady
<1>9. CASE Deliver(u)
  <2>1. pc'[v] = pc[v] /\ doing'[v] = doing[v] /\ targets'[v] = targets[v] /\ id'[v] = id[v]
    BY <1>9 DEF Deliver, GoTo, TypeOK, HandlerTypes
  <2> QED
    BY <1>9, <2>1 DEF Deliver, Steady
<1>10. CASE \E s \in Servers : CleanupOld(u, s)
  <2>1. v \in clients[home[v]][doing[v].room] /\ pc[v] = "stored" => v \in clients'[home[v]][doing[v].room]
    BY <1>0, <1>10, OwnPresence
  <2>2. unechoed \subseteq unechoed'
    BY <1>10 DEF CleanupOld
  <2> QED
    BY <1>10, <2>1, <2>2 DEF CleanupOld, network, handler, Steady
<1> QED
  BY <1>1, <1>2, <1>3, <1>4, <1>5, <1>6, <1>7, <1>8, <1>9, <1>10

\* The end of an overtaken handler leaves its user's present one alone, but for
\* the echo of the message it may be at.
LEMMA CleanupOldSteady ==
    ASSUME TypeOK, NEW u \in Users, NEW s \in Servers, CleanupOld(u, s) PROVE Steady(u)
<1>1. pc[u] = "stored" => home[u] \in Servers /\ doing[u].room \in Rooms
  BY DEF TypeOK, HandlerTypes, Requests
<1>2. Unregister(u, s) /\ unechoed' = IF home[u] = s /\ pc[u] = "stored" THEN unechoed \cup {id[u]} ELSE unechoed
  BY DEF CleanupOld
<1>3. \A t \in Servers : \A r \in Rooms :
         /\ clients'[t][r] = IF t = s THEN clients[t][r] \ {u} ELSE clients[t][r]
         /\ stale'[t][r] \subseteq stale[t][r]
  BY <1>2, UnregisterTypes
<1>4. pc[u] = "stored" /\ u \in clients[home[u]][doing[u].room] =>
         u \in clients'[home[u]][doing[u].room] \/ id[u] \in unechoed'
  BY <1>1, <1>2, <1>3
<1>5. unechoed \subseteq unechoed'
  BY <1>2
<1> QED
  BY <1>4, <1>5 DEF CleanupOld, network, handler, Steady

\* A step of u's handler or client leaves u with no message stored, or where it was.
LEMMA OwnEchoes ==
    ASSUME TypeOK, Storing, NEW u \in Users, Echo(u),
           \/ \E r \in Rooms : OnJoinRoom(u, r) \/ OnRoomSelected(u, r)
           \/ OnLeaveRoom(u) \/ OnSend(u) \/ HandlePacket(u) \/ Lose(u) \/ Cleanup(u)
           \/ \E s \in Servers : Reconnect(u, s) \/ CleanupOld(u, s)
           \/ HandleJoinRoom(u) \/ SendHistory(u) \/ HandleLeaveRoom(u)
    PROVE Echo(u)' /\ log' = log /\ id' = id /\ got' = got /\ unechoed \subseteq unechoed'
<1>1. CASE \/ \E r \in Rooms : OnJoinRoom(u, r) \/ OnRoomSelected(u, r)
           \/ OnLeaveRoom(u) \/ OnSend(u) \/ HandlePacket(u) \/ Lose(u)
  <2>1. Steady(u) /\ log' = log /\ id' = id /\ got' = got /\ unechoed' = unechoed
    BY <1>1 DEF OnJoinRoom, OnRoomSelected, OnLeaveRoom, OnSend, HandlePacket, Lose, network, server, leftover, handler,
                history, Steady
  <2> QED
    BY <2>1, SteadyEchoes DEF LogGrows
<1>2. CASE Cleanup(u) \/ HandleLeaveRoom(u)
  <2>1. pc[u] = "read" /\ log' = log /\ id' = id /\ got' = got /\ pc' = pc /\ unechoed' = unechoed
    BY <1>2 DEF Cleanup, HandleLeaveRoom, handler, history
  <2> QED
    BY <2>1, SteadyEchoes DEF LogGrows, Echo, Busy
<1>3. CASE \E s \in Servers : Reconnect(u, s)
  <2>1. pc[u] = "read" /\ pc' = pc /\ id' = id /\ log' = log /\ got' = got /\ unechoed' = unechoed
    BY <1>3 DEF Reconnect, handler, history
  <2> QED
    BY <2>1, SteadyEchoes DEF LogGrows, Echo, Busy
<1>4. CASE HandleJoinRoom(u)
  <2>1. /\ pc[u] = "read" /\ pc'[u] \in {"read", "history"}
        /\ log' = log /\ id' = id /\ got' = got /\ unechoed' = unechoed
    BY <1>4 DEF HandleJoinRoom, history, TypeOK, HandlerTypes
  <2> QED
    BY <2>1, SteadyEchoes DEF LogGrows, Echo, Busy
<1>5. CASE SendHistory(u)
  <2>1. /\ pc[u] = "history" /\ pc'[u] = "read"
        /\ log' = log /\ id' = id /\ got' = got /\ unechoed' = unechoed
    BY <1>5 DEF SendHistory, GoTo, server, leftover, TypeOK, HandlerTypes
  <2> QED
    BY <2>1, SteadyEchoes DEF LogGrows, Echo, Busy
<1>6. CASE \E s \in Servers : CleanupOld(u, s)
  <2>1. Steady(u)
    BY <1>6, CleanupOldSteady
  <2>2. log' = log /\ id' = id /\ got' = got /\ unechoed \subseteq unechoed'
    BY <1>6, <2>1 DEF CleanupOld, handler, Steady
  <2> QED
    BY <2>1, <2>2, SteadyEchoes DEF LogGrows
<1> QED
  BY <1>1, <1>2, <1>3, <1>4, <1>5, <1>6

\* The handler joins the DM room it is to send to, and finds itself there.
LEMMA StoreEchoes ==
    ASSUME TypeOK, Storing, Echoing, SenderSees, NEW u \in Users, HandleChatMessage(u)
    PROVE Echoing' /\ SenderSees'
<1> DEFINE r == Head(out[u]).room
<1>1. /\ u \in up /\ out[u] # <<>> /\ out' = [out EXCEPT ![u] = Tail(@)] /\ pc[u] = "read" /\ ~Busy(u)
      /\ UNCHANGED <<home, got>> /\ unechoed \subseteq unechoed'
  BY DEF HandleChatMessage, Busy
<1>2. r \in Rooms /\ home[u] \in Servers
  BY <1>1, RequestTypes
<1>3. \A v \in Users : v # u => Steady(v)
  BY OthersSteady
<1>4. id[u] = 0
  BY <1>1 DEF Echoing, Echo
<1>5. CASE UNCHANGED <<log, id, pc, doing>>
  <2>1. \A v \in Users : Echo(v)'
    BY <1>1, <1>3, <1>4, <1>5, SteadyEchoes DEF Echoing, LogGrows, Busy
  <2> QED
    BY <1>1, <1>5, <2>1 DEF Echoing, SenderSees
<1>6. CASE /\ StoreMessage(u, r) /\ pc' = [pc EXCEPT ![u] = "stored"] /\ doing' = [doing EXCEPT ![u] = Head(out[u])]
           /\ clients' = [clients EXCEPT ![home[u]][r] = clients[home[u]][r] \cup LazyJoin(u, home[u], r)]
           /\ unechoed' = IF u \in stale[home[u]][r] THEN unechoed \cup {Len(log) + 1} ELSE unechoed
  <2> DEFINE T == clients[home[u]][r] \cup LazyJoin(u, home[u], r)
  <2> HIDE DEF r
  <2>1. /\ Len(log') = Len(log) + 1 /\ Len(log) \in Nat /\ \A m \in 1 .. Len(log) : log'[m] = log[m]
        /\ log'[Len(log) + 1] = [room |-> r, by |-> u]
        /\ id'[u] = Len(log) + 1 /\ \A v \in Users : v # u => id'[v] = id[v]
    BY <1>2, <1>6, StoreTypes
  <2>2. LogGrows
    BY <2>1 DEF LogGrows
  <2>3. \A v \in Users : v # u => Echo(v)'
    BY <1>3, <2>2, SteadyEchoes DEF Echoing
  <2>4. T \in SUBSET Users /\ (r \in DmRooms => u \in T \/ u \in stale[home[u]][r])
    BY <1>2 DEF LazyJoin, TypeOK, ServerTypes
  <2>5. clients' = [clients EXCEPT ![home[u]][r] = T]
    BY <1>6
  <2> HIDE DEF T
  <2>6. clients'[home[u]][r] = T
    BY <1>2, <2>4, <2>5, RoomChanges
  <2>7. pc'[u] = "stored" /\ doing'[u].room = r /\ home'[u] = home[u]
    BY <1>1, <1>6 DEF TypeOK, HandlerTypes, r
  <2>8. Echo(u)'
    BY <1>6, <2>1, <2>4, <2>6, <2>7 DEF Echo, Busy
  <2>9. ASSUME NEW m \in 1 .. Len(log')
        PROVE \/ id'[log'[m].by] = m \/ \E g \in got'[log'[m].by] : g[1] = m
              \/ log'[m].room \notin DmRooms \/ m \in unechoed'
    <3>1. CASE m = Len(log) + 1
      BY <2>1, <3>1
    <3>2. CASE m \in 1 .. Len(log)
      <4>1. \/ id[log[m].by] = m \/ \E g \in got[log[m].by] : g[1] = m
            \/ log[m].room \notin DmRooms \/ m \in unechoed
        BY <3>2 DEF SenderSees
      <4>2. log[m] \in Entries
        <5>1. log \in Seq(Entries)
          BY DEF TypeOK, ServerTypes
        <5> QED
          BY <3>2, <5>1
      <4>3. log[m].by \in Users
        BY <4>2 DEF Entries
      <4>4. id[log[m].by] = m => log[m].by # u
        BY <1>4, <3>2
      <4> QED
        BY <1>1, <2>1, <3>2, <4>1, <4>3, <4>4
    <3> QED
      BY <2>1, <3>1, <3>2
  <2> QED
    BY <2>3, <2>8, <2>9 DEF Echoing, SenderSees
<1> QED
  BY <1>5, <1>6 DEF HandleChatMessage, StoreMessage

\* The handler finds those who are in the room.
LEMMA GetClientsStep ==
    ASSUME TypeOK, NEW u \in Users, GetClients(u)
    PROVE /\ pc[u] = "stored" /\ pc'[u] = "send" /\ doing' = doing /\ home[u] \in Servers /\ doing[u].room \in Rooms
          /\ \A v \in Users : <<v, session[v]>> \in targets'[u] <=> v \in clients[home[u]][doing[u].room]
          /\ UNCHANGED <<client, network, server, id, bounds, history>>
<1>1. pc[u] = "stored"
  BY DEF GetClients
<1>2. home[u] \in Servers /\ doing[u].room \in Rooms
  BY <1>1 DEF TypeOK, HandlerTypes, Requests
<1>3. pc' = [pc EXCEPT ![u] = "send"] /\ doing' = doing
  BY DEF GetClients, GoTo
<1>4. /\ targets' = [targets EXCEPT ![u] = {<<v, session[v]>> : v \in clients[home[u]][doing[u].room]}
                                              \cup (stale[home[u]][doing[u].room] \X {0})]
      /\ UNCHANGED <<client, network, server, id, bounds, history>>
  BY DEF GetClients
<1>5. targets'[u] = {<<v, session[v]>> : v \in clients[home[u]][doing[u].room]}
                    \cup (stale[home[u]][doing[u].room] \X {0})
  BY <1>4 DEF TypeOK, HandlerTypes
<1>6. ASSUME NEW v \in Users PROVE <<v, session[v]>> \in targets'[u] <=> v \in clients[home[u]][doing[u].room]
  <2>1. session[v] # 0
    BY DEF TypeOK, NetworkTypes
  <2>2. <<v, session[v]>> \notin stale[home[u]][doing[u].room] \X {0}
    BY <2>1
  <2> QED
    BY <1>5, <2>2
<1>7. pc'[u] = "send"
  BY <1>3 DEF TypeOK, HandlerTypes
<1> QED
  BY <1>1, <1>2, <1>3, <1>4, <1>6, <1>7

\* The sender of a DM is in the room, and so among the handlers found there.
LEMMA FindEchoes ==
    ASSUME TypeOK, Storing, Echoing, SenderSees, NEW u \in Users, GetClients(u)
    PROVE Echoing' /\ SenderSees'
<1>1. /\ pc[u] = "stored" /\ pc'[u] = "send" /\ doing' = doing
      /\ \A v \in Users : <<v, session[v]>> \in targets'[u] <=> v \in clients[home[u]][doing[u].room]
      /\ UNCHANGED <<log, id, got, session, unechoed>>
  BY GetClientsStep DEF network, server, leftover, history
<1>2. \A v \in Users : v # u => Echo(v)'
  BY <1>1, OthersSteady, SteadyEchoes DEF Echoing, LogGrows
<1>3. Echo(u)
  BY DEF Echoing
<1>4. Echo(u)'
  BY <1>1, <1>3 DEF Echo, Busy
<1> QED
  BY <1>1, <1>2, <1>4 DEF Echoing, SenderSees

\* What is delivered goes to its sender, in a DM room.
LEMMA DeliveryEchoes ==
    ASSUME TypeOK, Storing, Echoing, SenderSees, NEW u \in Users, Deliver(u)
    PROVE Echoing' /\ SenderSees'
<1>1. /\ pc[u] = "send" /\ pc' = [pc EXCEPT ![u] = "read"] /\ id' = [id EXCEPT ![u] = 0] /\ log' = log
      /\ unechoed' = unechoed
      /\ \A v \in Users : got'[v] = IF v \in There(u) \cup Local(u) THEN got[v] \cup {<<id[u], session[v]>>}
                                    ELSE got[v]
  BY DeliverStep
<1>2. /\ pc'[u] = "read" /\ id'[u] = 0 /\ \A v \in Users : v # u => id'[v] = id[v]
  BY <1>1 DEF TypeOK, HandlerTypes
<1>3. \A v \in Users : v # u => Echo(v)'
  BY <1>1, OthersSteady, SteadyEchoes DEF Echoing, LogGrows
<1>4. Echo(u)'
  BY <1>1, <1>2, SteadyEchoes DEF Echoing, LogGrows, Busy
<1>5. ASSUME NEW m \in 1 .. Len(log)
      PROVE \/ id'[log[m].by] = m \/ \E g \in got'[log[m].by] : g[1] = m
            \/ log[m].room \notin DmRooms \/ m \in unechoed
  <2>1. log \in Seq(Entries)
    BY DEF TypeOK, ServerTypes
  <2>2. log[m] \in Entries
    BY <2>1
  <2>3. log[m].by \in Users
    BY <2>2 DEF Entries
  <2>4. \/ id[log[m].by] = m \/ \E g \in got[log[m].by] : g[1] = m
        \/ log[m].room \notin DmRooms \/ m \in unechoed
    BY DEF SenderSees
  <2>5. \A g : g \in got[log[m].by] => g \in got'[log[m].by]
    BY <1>1, <2>3
  <2>6. CASE log[m].by = u /\ id[u] = m /\ log[m].room \in DmRooms /\ m \notin unechoed
    <3>1. <<u, session[u]>> \in targets[u]
      BY <1>1, <2>6 DEF Echoing, Echo, Busy
    <3>2. u \in There(u)
      BY <3>1 DEF There
    <3>3. <<m, session[u]>> \in got'[u] /\ <<m, session[u]>>[1] = m
      BY <1>1, <2>6, <3>2
    <3> QED
      BY <2>6, <3>3
  <2>7. CASE log[m].by # u \/ id[u] # m \/ log[m].room \notin DmRooms \/ m \in unechoed
    BY <1>2, <2>3, <2>4, <2>5, <2>7
  <2> QED
    BY <2>6, <2>7
<1>6. SenderSees'
  BY <1>1, <1>5 DEF SenderSees
<1> QED
  BY <1>3, <1>4, <1>6 DEF Echoing

\* A server that takes a message from its subscription does nothing to handlers.
LEMMA DmMessageEchoes ==
    ASSUME TypeOK, Storing, Echoing, SenderSees, NEW s \in Servers, HandleDmMessage(s)
    PROVE Echoing' /\ SenderSees'
<1>0. PICK d : d = Head(channel[s])
  OBVIOUS
<1>1. Takes(s, d)
  BY <1>0, DmMessageStep
<1>2. \A v \in Users : got[v] \subseteq got'[v]
  BY <1>1 DEF Takes
<1>3. UNCHANGED <<pc, doing, id, targets, home, session, clients, log, unechoed>>
  BY DEF HandleDmMessage, handler
<1>4. Echoing'
  BY <1>3 DEF Echoing, Echo, Busy
<1>5. \A m \in 1 .. Len(log) : log[m].by \in Users
  <2>1. log \in Seq(Entries)
    BY DEF TypeOK, ServerTypes
  <2>2. \A m \in 1 .. Len(log) : log[m] \in Entries
    BY <2>1
  <2> QED
    BY <2>2 DEF Entries
<1>6. SenderSees'
  BY <1>2, <1>3, <1>5 DEF SenderSees
<1> QED
  BY <1>4, <1>6

\* No step takes the echo of a message from its sender.
LEMMA EchoingKept ==
    ASSUME TypeOK, Storing, Echoing, SenderSees, [Next]_vars PROVE Echoing' /\ SenderSees'
<1>1. ASSUME NEW u \in Users,
             \/ \E r \in Rooms : OnJoinRoom(u, r) \/ OnRoomSelected(u, r)
             \/ OnLeaveRoom(u) \/ OnSend(u) \/ HandlePacket(u) \/ Lose(u) \/ Cleanup(u)
             \/ \E s \in Servers : Reconnect(u, s) \/ CleanupOld(u, s)
             \/ HandleJoinRoom(u) \/ SendHistory(u) \/ HandleLeaveRoom(u)
      PROVE Echoing' /\ SenderSees'
  <2>1. Echo(u)' /\ log' = log /\ id' = id /\ got' = got /\ unechoed \subseteq unechoed'
    BY <1>1, OwnEchoes DEF Echoing
  <2>2. \A v \in Users : v # u => Steady(v)
    BY <1>1, OthersSteady
  <2>3. \A v \in Users : v # u => Echo(v)'
    BY <2>1, <2>2, SteadyEchoes DEF Echoing, LogGrows
  <2> QED
    BY <2>1, <2>3 DEF Echoing, SenderSees
<1>2. ASSUME NEW u \in Users, HandleChatMessage(u) \/ GetClients(u) \/ Deliver(u) PROVE Echoing' /\ SenderSees'
  BY <1>2, StoreEchoes, FindEchoes, DeliveryEchoes
<1>3. ASSUME NEW s \in Servers, HandleDmMessage(s) PROVE Echoing' /\ SenderSees'
  BY <1>3, DmMessageEchoes
<1>4. CASE UNCHANGED vars
  BY <1>4 DEF vars, network, server, leftover, handler, history, Echoing, Echo, SenderSees, Busy
<1> QED
  BY <1>1, <1>2, <1>3, <1>4 DEF Next

\* What is sent to a DM room is echoed to its sender when the handler is done
\* with it, for any number of users and servers: the sender joins the room with
\* the message, and nobody but its own handlers takes it out before the delivery,
\* of which only one that was overtaken can come in between.
THEOREM SendersSeeTheirs == Spec => []SenderSees
<1>1. Init => Echoing /\ SenderSees
  BY AtTheStart DEF Init, SenderSees
<1>2. Echoing /\ SenderSees /\ Once /\ [Next]_vars => (Echoing /\ SenderSees)'
  BY EchoingKept DEF Once
<1> QED
  BY <1>1, <1>2, OnceHolds, PTL DEF Spec

-----------------------------------------------------------------------------
(* Who has joined a room misses nothing *)

\* c is b with more at its end.
GrowsTo(b, c) == \A i \in 1 .. Len(b) : i \in 1 .. Len(c) /\ c[i] = b[i]

\* A panel that keeps its rooms keeps its messages.
LEMMA PanelKept ==
    ASSUME NEW v \in Seq(Panels), NEW w \in Seq(Panels), Keeps(v, w)
    PROVE RoomsIn(v) \subseteq RoomsIn(w) /\ \A r, m : InPanel(v, r, m) => InPanel(w, r, m)
<1>1. DOMAIN v = 1 .. Len(v) /\ DOMAIN w = 1 .. Len(w)
  OBVIOUS
<1> QED
  BY <1>1 DEF Keeps, RoomsIn, InPanel

\* A room that was opened stays open when packets come.
LEMMA OpenedKept ==
    ASSUME NEW v, NEW w, NEW b \in Seq(Answers), NEW c \in Seq(Answers), GrowsTo(b, c), NEW r,
           r \in RoomsIn(v) => r \in RoomsIn(w)
    PROVE /\ \A i \in 1 .. Len(b) + 1 : Opened(v, b, r, i) => Opened(w, c, r, i)
          /\ Opened(v, b, r, Len(b) + 1) => Opened(w, c, r, Len(c) + 1)
<1>1. Len(b) \in Nat /\ Len(c) \in Nat /\ Len(b) <= Len(c)
  <2>1. Len(b) \in Nat /\ Len(c) \in Nat
    OBVIOUS
  <2>2. CASE Len(b) = 0
    BY <2>1, <2>2
  <2>3. CASE Len(b) # 0
    <3>1. Len(b) \in 1 .. Len(b)
      BY <2>1, <2>3
    <3> QED
      BY <2>1, <3>1 DEF GrowsTo
  <2> QED
    BY <2>1, <2>2, <2>3
<1>2. \A i \in 1 .. Len(b) + 1 : \A j \in 1 .. i - 1 : j \in 1 .. Len(b) /\ j \in 1 .. (Len(c) + 1) - 1
  BY <1>1
<1>3. \A j \in 1 .. Len(b) : c[j] = b[j]
  BY DEF GrowsTo
<1>4. Len(b) + 1 \in 1 .. Len(b) + 1
  BY <1>1
<1> QED
  BY <1>2, <1>3, <1>4 DEF Opened

\* So a packet still goes to its room.
LEMMA BoxKept ==
    ASSUME NEW v, NEW w, NEW b \in Seq(Answers), NEW c \in Seq(Answers), GrowsTo(b, c), NEW r,
           r \in RoomsIn(v) => r \in RoomsIn(w), NEW m, InBox(v, b, r, m)
    PROVE InBox(w, c, r, m)
<1>1. PICK i \in 1 .. Len(b) : m \in b[i].messages /\ (b[i].type = "MESSAGE_HISTORY" => Opened(v, b, r, i))
  BY DEF InBox
<1>2. i \in 1 .. Len(c) /\ c[i] = b[i]
  BY DEF GrowsTo
<1>3. i \in 1 .. Len(b) + 1
  OBVIOUS
<1>4. Opened(v, b, r, i) => Opened(w, c, r, i)
  BY <1>3, OpenedKept
<1> QED
  BY <1>1, <1>2, <1>4 DEF InBox

\* When the panel has taken the first packet, the rooms opened by what came
\* before a later one are the same.
LEMMA OpenedShift ==
    ASSUME NEW v, NEW w, NEW b \in Seq(Answers), b # <<>>, NEW r,
           r \in RoomsIn(v) => r \in RoomsIn(w),
           b[1].type = "ROOM_STATE" /\ b[1].room = r => r \in RoomsIn(w)
    PROVE \A i \in 1 .. Len(b) : Opened(v, b, r, i + 1) => Opened(w, Tail(b), r, i)
<1>1. /\ Len(b) \in Nat
      /\ \A j \in 1 .. Len(b) - 1 : Tail(b)[j] = b[j + 1]
  OBVIOUS
<1> SUFFICES ASSUME NEW i \in 1 .. Len(b), Opened(v, b, r, i + 1) PROVE Opened(w, Tail(b), r, i)
  OBVIOUS
<1>2. CASE r \in RoomsIn(v)
  BY <1>2 DEF Opened
<1>3. CASE \E j \in 1 .. (i + 1) - 1 : b[j].type = "ROOM_STATE" /\ b[j].room = r
  <2>1. PICK j \in 1 .. (i + 1) - 1 : b[j].type = "ROOM_STATE" /\ b[j].room = r
    BY <1>3
  <2>2. CASE j = 1
    BY <2>1, <2>2 DEF Opened
  <2>3. CASE j # 1
    <3>1. j - 1 \in 1 .. i - 1 /\ j - 1 \in 1 .. Len(b) - 1 /\ (j - 1) + 1 = j
      BY <1>1, <2>3
    <3>2. Tail(b)[j - 1] = b[j]
      BY <1>1, <3>1
    <3> QED
      BY <2>1, <3>1, <3>2 DEF Opened
  <2> QED
    BY <2>2, <2>3
<1> QED
  BY <1>2, <1>3 DEF Opened

\* The steps that move nobody
StaysPut ==
    /\ UNCHANGED <<home, clients, stale, cut>>
    /\ \A u \in Users : joined'[u] \subseteq joined[u] /\ (u \in up \ up' => joined'[u] = {})
    /\ up' \subseteq up
    /\ \A u \in Users : pc'[u] \in {"history", "stored", "send"} => doing'[u] = doing[u]
    /\ \A u \in Users : pc'[u] = "history" => pc[u] = "history"
    /\ \A u \in Users : Busy(u)' => Busy(u)

\* Users are where they were when nobody moves.
LEMMA PlacesStay == ASSUME TypeOK, Places, StaysPut PROVE Places'
<1>1. \A u \in Users : \A r \in joined'[u] : u \in up' /\ (u \in clients[home[u]][r] \/ u \in cut)
  BY DEF Places, StaysPut
<1>2. \A u \in Users : pc'[u] = "history" => u \in clients[home[u]][doing'[u].room] \/ u \in cut
  BY DEF Places, StaysPut
<1>3. \A u \in Users : Busy(u)' => doing'[u] = doing[u]
  BY DEF StaysPut, Busy
<1>4. \A u \in Users : Busy(u)' /\ doing'[u].room \notin DmRooms => home[u] = Pin[doing'[u].room]
  BY <1>3 DEF Places, StaysPut
<1> QED
  BY <1>1, <1>2, <1>4 DEF Places, StaysPut

\* Clients do not move users, and neither does the sending of a message.
LEMMA StayPutSteps ==
    ASSUME TypeOK, NEW u \in Users,
           \/ \E r \in Rooms : OnJoinRoom(u, r) \/ OnRoomSelected(u, r)
           \/ OnLeaveRoom(u) \/ OnSend(u) \/ HandlePacket(u) \/ Lose(u) \/ GetClients(u) \/ Deliver(u)
    PROVE StaysPut
<1>1. CASE \/ \E r \in Rooms : OnJoinRoom(u, r) \/ OnRoomSelected(u, r)
           \/ OnSend(u) \/ HandlePacket(u)
  BY <1>1 DEF OnJoinRoom, OnRoomSelected, OnSend, HandlePacket, network, server, leftover, handler, history, StaysPut, Busy
<1>2. CASE OnLeaveRoom(u)
  <2>1. \A v \in Users : joined'[v] \subseteq joined[v]
    BY <1>2 DEF OnLeaveRoom, TypeOK, HistoryTypes
  <2> QED
    BY <1>2, <2>1 DEF OnLeaveRoom, server, leftover, handler, StaysPut, Busy
<1>3. CASE Lose(u)
  <2>1. joined'[u] = {} /\ \A v \in Users : joined'[v] \subseteq joined[v]
    BY <1>3 DEF Lose, TypeOK, HistoryTypes
  <2> QED
    BY <1>3, <2>1 DEF Lose, server, leftover, handler, StaysPut, Busy
<1>4. CASE GetClients(u)
  <2>1. /\ pc[u] = "stored" /\ pc'[u] = "send" /\ doing' = doing /\ \A v \in Users : v # u => pc'[v] = pc[v]
    BY <1>4 DEF GetClients, GoTo, TypeOK, HandlerTypes
  <2> QED
    BY <1>4, <2>1 DEF GetClients, network, server, leftover, history, StaysPut, Busy
<1>5. CASE Deliver(u)
  <2>1. /\ pc'[u] = "read" /\ \A v \in Users : v # u => pc'[v] = pc[v] /\ doing'[v] = doing[v]
    BY <1>5 DEF Deliver, GoTo, TypeOK, HandlerTypes
  <2> QED
    BY <1>5, <2>1 DEF Deliver, leftover, StaysPut, Busy
<1> QED
  BY <1>1, <1>2, <1>3, <1>4, <1>5

\* A handler is where its user is, and its user in the rooms it has joined.
LEMMA PlacesMove ==
    ASSUME TypeOK, Places, NEW u \in Users,
           \/ Cleanup(u) \/ HandleJoinRoom(u) \/ HandleLeaveRoom(u) \/ HandleChatMessage(u)
    PROVE Places'
<1>0. /\ \A v \in Users : v # u => Steady(v) /\ joined'[v] = joined[v]
      /\ up' = up /\ cut' = cut /\ pc[u] = "read"
  <2>1. \A v \in Users : v # u => joined'[v] = joined[v]
    BY DEF Cleanup, HandleJoinRoom, HandleLeaveRoom, HandleChatMessage, history, TypeOK, HistoryTypes
  <2> QED
    BY <2>1, OthersSteady DEF Cleanup, HandleJoinRoom, HandleLeaveRoom, HandleChatMessage, leftover
<1>01. \A s \in Servers : \A r \in Rooms : stale'[s][r] \subseteq stale[s][r]
  <2>1. CASE Cleanup(u)
    <3>1. home[u] \in Servers /\ Unregister(u, home[u])
      BY <2>1 DEF Cleanup, TypeOK, NetworkTypes
    <3>2. \A t \in Servers : \A r \in Rooms :
             /\ clients'[t][r] = IF t = home[u] THEN clients[t][r] \ {u} ELSE clients[t][r]
             /\ stale'[t][r] \subseteq stale[t][r]
      BY <3>1, UnregisterTypes
    <3> QED
      BY <3>2
  <2>2. CASE HandleJoinRoom(u) \/ HandleLeaveRoom(u)
    <3> DEFINE q == Head(out[u]).room
    <3>1. out[u] # <<>> /\ out' = [out EXCEPT ![u] = Tail(@)] /\ u \in up
      BY <2>2 DEF HandleJoinRoom, HandleLeaveRoom
    <3>2. q \in Rooms /\ home[u] \in Servers
      BY <3>1, RequestTypes
    <3>3. stale' = [stale EXCEPT ![home[u]][q] = @ \ {u}] \/ stale' = stale
      BY <2>2 DEF HandleJoinRoom, HandleLeaveRoom
    <3> HIDE DEF q
    <3>4. CASE stale' = [stale EXCEPT ![home[u]][q] = @ \ {u}]
      BY <3>2, <3>4, StaleChanges
    <3>5. CASE stale' = stale
      BY <3>5
    <3> QED
      BY <3>3, <3>4, <3>5
  <2>3. CASE HandleChatMessage(u)
    BY <2>3 DEF HandleChatMessage, leftover
  <2> QED
    BY <2>1, <2>2, <2>3
<1>02. \A s \in Servers : \A r \in Rooms : stale'[s][r] # {} /\ r \notin DmRooms => Pin[r] = s
  BY <1>01 DEF Places
<1>1. \A s \in Servers : \A r \in Rooms :
         /\ \A v \in Users : v # u => (v \in clients'[s][r] <=> v \in clients[s][r])
         /\ u \in clients'[s][r] => \/ u \in clients[s][r]
                                    \/ u \in up /\ home[u] = s /\ (r \notin DmRooms => Pin[r] = s)
  BY OwnPresence
<1>2. \A v \in Users : \A r \in Rooms : v # u /\ v \in clients[home[v]][r] /\ home[v] \in Servers
                          => v \in clients'[home'[v]][r]
  BY <1>0, <1>1 DEF Steady
<1>3. \A s \in Servers : \A r \in Rooms : \A v \in Users :
         v # u /\ v \in clients'[s][r] => home'[v] = s /\ (r \notin DmRooms => Pin[r] = s)
  BY <1>0, <1>1 DEF Steady, Places
<1>4. \A v \in Users : v # u => \A r \in joined'[v] : v \in up' /\ (v \in clients'[home'[v]][r] \/ v \in cut')
  <2> SUFFICES ASSUME NEW v \in Users, v # u, NEW r \in joined[v], v \notin cut
               PROVE v \in up /\ v \in clients'[home'[v]][r]
    BY <1>0 DEF Places
  <2>1. r \in Rooms /\ v \in up /\ v \in clients[home[v]][r]
    BY DEF Places, TypeOK, HistoryTypes
  <2>2. home[v] \in Servers
    BY <2>1 DEF TypeOK, NetworkTypes
  <2> QED
    BY <1>2, <2>1, <2>2
<1>5. \A v \in Users : v # u /\ pc'[v] = "history" => v \in clients'[home'[v]][doing'[v].room] \/ v \in cut'
  <2> SUFFICES ASSUME NEW v \in Users, v # u, pc'[v] = "history", v \notin cut
               PROVE v \in clients'[home'[v]][doing'[v].room]
    BY <1>0
  <2>1. pc[v] = "history" /\ doing'[v] = doing[v]
    BY <1>0 DEF Steady
  <2>2. home[v] \in Servers /\ doing[v].room \in Rooms /\ v \in clients[home[v]][doing[v].room]
    BY <2>1 DEF Places, TypeOK, HandlerTypes, Requests
  <2> QED
    BY <1>2, <2>1, <2>2
<1>6. \A v \in Users : v # u /\ Busy(v)' /\ doing'[v].room \notin DmRooms => home'[v] = Pin[doing'[v].room]
  BY <1>0 DEF Steady, Busy, Places
<1>7. \A s \in Servers : clients'[s] \in [Rooms -> SUBSET Users]
  BY TypesKept, ConnectionTypes, RoomHandlerTypes, MessageHandlerTypes DEF TypeOK, ServerTypes
<1>8. CASE Cleanup(u)
  <2>1. /\ u \notin up /\ home[u] \in Servers /\ home'[u] = NoServer
        /\ joined' = joined /\ pc'[u] = "read"
    BY <1>8 DEF Cleanup, TypeOK, NetworkTypes, history, handler
  <2>2. joined'[u] = {}
    BY <2>1 DEF Places
  <2>3. \A s \in Servers : \A r \in Rooms : u \notin clients'[s][r]
    <3>1. Unregister(u, home[u])
      BY <1>8 DEF Cleanup
    <3>2. \A t \in Servers : \A r \in Rooms :
             /\ clients'[t][r] = IF t = home[u] THEN clients[t][r] \ {u} ELSE clients[t][r]
             /\ stale'[t][r] \subseteq stale[t][r]
      BY <2>1, <3>1, UnregisterTypes
    <3> SUFFICES ASSUME NEW t \in Servers, NEW r \in Rooms PROVE u \notin clients'[t][r]
      OBVIOUS
    <3>3. u \in clients[t][r] => t = home[u]
      BY DEF Places
    <3>4. clients'[t][r] = IF t = home[u] THEN clients[t][r] \ {u} ELSE clients[t][r]
      BY <3>2
    <3> QED
      BY <3>3, <3>4
  <2>4. \A s \in Servers : \A r \in Rooms : \A v \in clients'[s][r] :
           home'[v] = s /\ (r \notin DmRooms => Pin[r] = s)
    BY <1>3, <1>7, <2>3
  <2> QED
    BY <1>02, <1>4, <1>5, <1>6, <2>1, <2>2, <2>4 DEF Places, Busy
<1>9. CASE HandleJoinRoom(u) \/ HandleLeaveRoom(u) \/ HandleChatMessage(u)
  <2>1. home' = home /\ u \in up /\ home[u] \in Servers /\ out[u] # <<>> /\ out' = [out EXCEPT ![u] = Tail(@)]
    BY <1>9 DEF HandleJoinRoom, HandleLeaveRoom, HandleChatMessage, TypeOK, NetworkTypes
  <2>2. Head(out[u]).room \in Rooms
    BY <2>1, RequestTypes
  <2>3. \A s \in Servers : \A r \in Rooms : \A v \in clients'[s][r] :
           home'[v] = s /\ (r \notin DmRooms => Pin[r] = s)
    <3>1. \A s \in Servers : \A r \in Rooms :
             u \in clients'[s][r] => home[u] = s /\ (r \notin DmRooms => Pin[r] = s)
      BY <1>1 DEF Places
    <3> QED
      BY <1>3, <1>7, <2>1, <3>1
  <2>4. CASE HandleJoinRoom(u)
    <3> DEFINE r == Head(out[u]).room
               T == clients[home[u]][r] \cup {u}
    <3>1. /\ joined' = joined
          /\ \/ clients' = [clients EXCEPT ![home[u]][r] = T] /\ pc'[u] = "history" /\ doing'[u].room = r
             \/ clients' = clients /\ pc'[u] = "read"
      BY <2>4 DEF HandleJoinRoom, history, TypeOK, HandlerTypes
    <3>0. r \in Rooms
      BY <2>2
    <3> HIDE DEF r
    <3>2. T \in SUBSET Users
      BY <2>1, <3>0 DEF TypeOK, ServerTypes
    <3>3. CASE clients' = [clients EXCEPT ![home[u]][r] = T] /\ pc'[u] = "history" /\ doing'[u].room = r
      <4>1. u \in T /\ clients[home[u]][r] \subseteq T
        OBVIOUS
      <4> HIDE DEF T
      <4>2. clients'[home[u]][r] = T
        BY <2>1, <3>0, <3>2, <3>3, RoomChanges
      <4>3. \A t \in Servers : \A q \in Rooms : t # home[u] \/ q # r => clients'[t][q] = clients[t][q]
        BY <2>1, <3>0, <3>2, <3>3, RoomChanges
      <4>4. \A q \in joined'[u] : u \in up' /\ (u \in clients'[home'[u]][q] \/ u \in cut')
        BY <1>0, <2>1, <3>1, <4>1, <4>2, <4>3 DEF Places, TypeOK, HistoryTypes
      <4> QED
        BY <1>02, <1>4, <1>5, <1>6, <2>1, <2>3, <3>3, <4>1, <4>2, <4>4 DEF Places, Busy
    <3>4. CASE clients' = clients /\ pc'[u] = "read"
      <4>1. \A q \in joined'[u] : u \in up' /\ (u \in clients'[home'[u]][q] \/ u \in cut')
        BY <1>0, <2>1, <3>1, <3>4 DEF Places
      <4> QED
        BY <1>02, <1>4, <1>5, <1>6, <2>3, <3>4, <4>1 DEF Places, Busy
    <3> QED
      BY <3>1, <3>3, <3>4
  <2>5. CASE HandleLeaveRoom(u)
    <3> DEFINE r == Head(out[u]).room
               T == clients[home[u]][r] \ {u}
    <3>1. /\ clients' = [clients EXCEPT ![home[u]][r] = T] /\ joined'[u] = joined[u] \ {r} /\ pc' = pc
      BY <2>5 DEF HandleLeaveRoom, handler, TypeOK, HistoryTypes
    <3>0. r \in Rooms
      BY <2>2
    <3> HIDE DEF r
    <3>2. T \in SUBSET Users
      BY <2>1, <3>0 DEF TypeOK, ServerTypes
    <3> HIDE DEF T
    <3>3. \A t \in Servers : \A q \in Rooms : t # home[u] \/ q # r => clients'[t][q] = clients[t][q]
      BY <2>1, <3>0, <3>1, <3>2, RoomChanges
    <3>4. \A q \in joined'[u] : u \in up' /\ (u \in clients'[home'[u]][q] \/ u \in cut')
      BY <1>0, <2>1, <3>1, <3>3 DEF Places, TypeOK, HistoryTypes
    <3> QED
      BY <1>0, <1>02, <1>4, <1>5, <1>6, <2>3, <3>1, <3>4 DEF Places, Busy
  <2>6. CASE HandleChatMessage(u)
    <3> DEFINE r == Head(out[u]).room
               T == clients[home[u]][r] \cup LazyJoin(u, home[u], r)
    <3>1. /\ joined' = joined
          /\ clients' = [clients EXCEPT ![home[u]][r] = T] \/ clients' = clients
          /\ \/ T \cup stale[home[u]][r] # {} /\ pc'[u] = "stored" /\ doing'[u].room = r
             \/ pc'[u] = "read"
      BY <2>6 DEF HandleChatMessage, TypeOK, HandlerTypes
    <3>0. r \in Rooms
      BY <2>2
    <3> HIDE DEF r
    <3>2. T \in SUBSET Users /\ clients[home[u]][r] \subseteq T
      BY <2>1, <3>0 DEF LazyJoin, TypeOK, ServerTypes
    <3>3. T \cup stale[home[u]][r] # {} /\ r \notin DmRooms => home[u] = Pin[r]
      <4>1. r \notin DmRooms => T = clients[home[u]][r]
        BY DEF LazyJoin
      <4> QED
        BY <2>1, <3>0, <4>1 DEF Places
    <3> HIDE DEF T
    <3>4. \A q \in Rooms : u \in clients[home[u]][q] => u \in clients'[home[u]][q]
      <4>1. CASE clients' = [clients EXCEPT ![home[u]][r] = T]
        <5>1. clients'[home[u]][r] = T
          BY <2>1, <3>0, <3>2, <4>1, RoomChanges
        <5>2. \A t \in Servers : \A q \in Rooms : t # home[u] \/ q # r => clients'[t][q] = clients[t][q]
          BY <2>1, <3>0, <3>2, <4>1, RoomChanges
        <5> QED
          BY <2>1, <3>2, <5>1, <5>2
      <4> QED
        BY <3>1, <4>1
    <3>5. \A q \in joined'[u] : u \in up' /\ (u \in clients'[home'[u]][q] \/ u \in cut')
      BY <1>0, <2>1, <3>1, <3>4 DEF Places, TypeOK, HistoryTypes
    <3>6. pc'[u] # "history" /\ (Busy(u)' /\ doing'[u].room \notin DmRooms => home'[u] = Pin[doing'[u].room])
      BY <2>1, <3>1, <3>3 DEF Busy
    <3> QED
      BY <1>02, <1>4, <1>5, <1>6, <2>3, <3>5, <3>6 DEF Places
  <2> QED
    BY <1>9, <2>4, <2>5, <2>6
<1> QED
  BY <1>8, <1>9

\* The end of an overtaken handler takes its user out of the rooms of a server,
\* also the present one; it is cut then.
LEMMA CleanupOldPlaces ==
    ASSUME TypeOK, Places, NEW u \in Users, NEW s \in Servers, CleanupOld(u, s) PROVE Places'
<1>1. /\ UNCHANGED <<up, home, joined, pc, doing>> /\ Unregister(u, s)
      /\ cut' = IF home[u] = s THEN cut \cup {u} ELSE cut
  BY DEF CleanupOld, network, handler
<1>2. \A t \in Servers : \A r \in Rooms :
         /\ clients'[t][r] = IF t = s THEN clients[t][r] \ {u} ELSE clients[t][r]
         /\ stale'[t][r] \subseteq stale[t][r]
  BY <1>1, UnregisterTypes
<1>3. /\ \A t \in Servers : \A r \in Rooms : \A v \in clients'[t][r] : home'[v] = t /\ (r \notin DmRooms => Pin[r] = t)
      /\ \A t \in Servers : \A r \in Rooms : stale'[t][r] # {} /\ r \notin DmRooms => Pin[r] = t
  <2>1. \A t \in Servers : \A r \in Rooms : clients'[t][r] \subseteq clients[t][r]
    BY <1>2
  <2>2. \A t \in Servers : \A r \in Rooms : stale'[t][r] # {} => stale[t][r] # {}
    BY <1>2
  <2> QED
    BY <1>1, <2>1, <2>2 DEF Places
<1>4. \A v \in Users : \A r \in Rooms : home[v] \in Servers /\ v \in clients[home[v]][r]
                          => v \in clients'[home[v]][r] \/ v \in cut'
  BY <1>1, <1>2
<1>5. \A v \in Users : \A r \in joined'[v] : v \in up' /\ (v \in clients'[home'[v]][r] \/ v \in cut')
  <2> SUFFICES ASSUME NEW v \in Users, NEW r \in joined[v]
               PROVE v \in up /\ (v \in clients'[home[v]][r] \/ v \in cut')
    BY <1>1
  <2>1. r \in Rooms /\ v \in up /\ (v \in clients[home[v]][r] \/ v \in cut)
    BY DEF Places, TypeOK, HistoryTypes
  <2>2. home[v] \in Servers
    BY <2>1 DEF TypeOK, NetworkTypes
  <2> QED
    BY <1>1, <1>4, <2>1, <2>2
<1>6. \A v \in Users : pc'[v] = "history" => v \in clients'[home'[v]][doing'[v].room] \/ v \in cut'
  <2> SUFFICES ASSUME NEW v \in Users, pc[v] = "history"
               PROVE v \in clients'[home[v]][doing[v].room] \/ v \in cut'
    BY <1>1
  <2>1. /\ home[v] \in Servers /\ doing[v].room \in Rooms
        /\ v \in clients[home[v]][doing[v].room] \/ v \in cut
    BY DEF Places, TypeOK, HandlerTypes, Requests
  <2> QED
    BY <1>1, <1>4, <2>1
<1>7. \A v \in Users : Busy(v)' /\ doing'[v].room \notin DmRooms => home'[v] = Pin[doing'[v].room]
  BY <1>1 DEF Places, Busy
<1> QED
  BY <1>3, <1>5, <1>6, <1>7 DEF Places

\* Whoever comes back is in no room, and has joined none.
LEMMA ReconnectPlaces ==
    ASSUME TypeOK, Places, NEW u \in Users, NEW s \in Servers, Reconnect(u, s)
    PROVE Places' /\ joined'[u] = {} /\ pc'[u] = "read"
<1>1. /\ u \notin up /\ pc[u] = "read" /\ UNCHANGED <<joined, pc, doing>> /\ up' = up \cup {u}
      /\ \A v \in Users : v # u => home'[v] = home[v]
      /\ cut' = cut \ {u}
  BY DEF Reconnect, Register, handler, history, TypeOK, NetworkTypes
<1>2. joined[u] = {}
  BY <1>1 DEF Places
<1>3. \A t \in Servers : \A r \in Rooms :
         /\ clients'[t][r] = clients[t][r] \ {u}
         /\ stale'[t][r] # {} => stale[t][r] # {} \/ clients[t][r] # {}
  <2>1. \A t \in Servers : \A r \in Rooms : u \in clients[t][r] => t = home[u]
    BY DEF Places
  <2>2. ASSUME NEW h \in Servers, h = home[u], Overtake(u, h), NEW t \in Servers, NEW r \in Rooms
        PROVE /\ clients'[t][r] = clients[t][r] \ {u}
              /\ stale'[t][r] # {} => stale[t][r] # {} \/ clients[t][r] # {}
    <3>1. \A q \in Servers : \A k \in Rooms :
             /\ clients'[q][k] = IF q = h THEN clients[q][k] \ {u} ELSE clients[q][k]
             /\ stale'[q][k] # {} => stale[q][k] # {} \/ clients[q][k] # {}
      BY <2>2, OvertakeTypes
    <3>2. t # h => clients[t][r] \ {u} = clients[t][r]
      BY <2>1, <2>2
    <3> QED
      BY <3>1, <3>2
  <2>3. home[u] # NoServer => home[u] \in Servers
    BY DEF TypeOK, NetworkTypes
  <2>4. CASE home[u] = NoServer /\ UNCHANGED <<stale, clients>>
    <3>1. \A t \in Servers : \A r \in Rooms : clients[t][r] \ {u} = clients[t][r]
      BY <2>1, <2>4, ChatAssumption
    <3> QED
      BY <2>4, <3>1
  <2>5. CASE home[u] # NoServer /\ Overtake(u, home[u])
    BY <2>2, <2>3, <2>5
  <2> QED
    BY <2>4, <2>5 DEF Reconnect
<1>4. \A t \in Servers : \A r \in Rooms : clients[t][r] \subseteq Users
  BY DEF TypeOK, ServerTypes
<1>5. \A t \in Servers : \A r \in Rooms : stale'[t][r] # {} /\ r \notin DmRooms => Pin[r] = t
  BY <1>3 DEF Places
<1>6. \A t \in Servers : \A r \in Rooms : \A v \in clients'[t][r] : home'[v] = t /\ (r \notin DmRooms => Pin[r] = t)
  BY <1>1, <1>3, <1>4 DEF Places
<1>7. \A v \in Users : \A r \in joined'[v] : v \in up' /\ (v \in clients'[home'[v]][r] \/ v \in cut')
  <2> SUFFICES ASSUME NEW v \in Users, NEW r \in joined[v]
               PROVE v \in up /\ (v \in clients'[home[v]][r] \/ v \in cut) /\ v # u
    BY <1>1, <1>2
  <2>1. r \in Rooms /\ v \in up /\ (v \in clients[home[v]][r] \/ v \in cut) /\ v # u
    BY <1>2 DEF Places, TypeOK, HistoryTypes
  <2>2. home[v] \in Servers
    BY <2>1 DEF TypeOK, NetworkTypes
  <2> QED
    BY <1>3, <2>1, <2>2
<1>8. \A v \in Users : pc'[v] = "history" => v \in clients'[home'[v]][doing'[v].room] \/ v \in cut'
  <2> SUFFICES ASSUME NEW v \in Users, pc[v] = "history", v # u
               PROVE v \in clients'[home[v]][doing[v].room] \/ v \in cut
    BY <1>1
  <2>1. /\ home[v] \in Servers /\ doing[v].room \in Rooms
        /\ v \in clients[home[v]][doing[v].room] \/ v \in cut
    BY DEF Places, TypeOK, HandlerTypes, Requests
  <2> QED
    BY <1>3, <2>1
<1>9. \A v \in Users : Busy(v)' /\ doing'[v].room \notin DmRooms => home'[v] = Pin[doing'[v].room]
  BY <1>1 DEF Places, Busy
<1>10. Places'
  BY <1>5, <1>6, <1>7, <1>8, <1>9 DEF Places
<1> QED
  BY <1>1, <1>2, <1>10

\* The room of the history is joined.
LEMMA HistoryPlaces ==
    ASSUME TypeOK, Places, NEW u \in Users, SendHistory(u)
    PROVE /\ Places' /\ pc[u] = "history" /\ pc'[u] = "read" /\ doing[u].room \in Rooms
          /\ \A v \in Users : v # u => pc'[v] = pc[v] /\ doing'[v] = doing[v] /\ joined'[v] = joined[v]
          /\ \A r \in joined'[u] : r \in joined[u] \/ (r = doing[u].room /\ u \in up)
<1>1. /\ pc[u] = "history" /\ UNCHANGED <<up, home, clients, stale, cut>>
      /\ pc'[u] = "read" /\ \A v \in Users : v # u => pc'[v] = pc[v] /\ doing'[v] = doing[v]
  BY DEF SendHistory, GoTo, server, leftover, TypeOK, HandlerTypes
<1>2. /\ \A v \in Users : v # u => joined'[v] = joined[v]
      /\ \A r \in joined'[u] : r \in joined[u] \/ (r = doing[u].room /\ u \in up)
  BY DEF SendHistory, TypeOK, HistoryTypes
<1>3. \A v \in Users : \A r \in joined'[v] : v \in up /\ (v \in clients[home[v]][r] \/ v \in cut)
  BY <1>1, <1>2 DEF Places
<1>4. \A v \in Users : pc'[v] = "history" => v \in clients[home[v]][doing'[v].room] \/ v \in cut
  BY <1>1 DEF Places
<1>5. \A v \in Users : Busy(v)' /\ doing'[v].room \notin DmRooms => home[v] = Pin[doing'[v].room]
  BY <1>1 DEF Places, Busy
<1>6. Places'
  BY <1>1, <1>3, <1>4, <1>5 DEF Places
<1>7. doing[u].room \in Rooms
  BY <1>1 DEF TypeOK, HandlerTypes, Requests
<1> QED
  BY <1>1, <1>2, <1>6, <1>7

\* Users are in rooms of the server that has their handler, at every step.
LEMMA PlacesKept == ASSUME TypeOK, Places, [Next]_vars PROVE Places'
<1>1. ASSUME NEW u \in Users,
             \/ \E r \in Rooms : OnJoinRoom(u, r) \/ OnRoomSelected(u, r)
             \/ OnLeaveRoom(u) \/ OnSend(u) \/ HandlePacket(u) \/ Lose(u) \/ GetClients(u) \/ Deliver(u)
      PROVE Places'
  BY <1>1, StayPutSteps, PlacesStay
<1>2. ASSUME NEW u \in Users, Cleanup(u) \/ HandleJoinRoom(u) \/ HandleLeaveRoom(u) \/ HandleChatMessage(u)
      PROVE Places'
  BY <1>2, PlacesMove
<1>3. ASSUME NEW u \in Users, NEW s \in Servers, Reconnect(u, s) \/ CleanupOld(u, s) PROVE Places'
  BY <1>3, ReconnectPlaces, CleanupOldPlaces
<1>4. ASSUME NEW u \in Users, SendHistory(u) PROVE Places'
  BY <1>4, HistoryPlaces
<1>5. ASSUME NEW s \in Servers, HandleDmMessage(s) PROVE Places'
  <2>1. StaysPut
    BY <1>5 DEF HandleDmMessage, handler, leftover, StaysPut, Busy
  <2> QED
    BY <2>1, PlacesStay
<1>6. CASE UNCHANGED vars
  <2>1. StaysPut
    BY <1>6 DEF vars, network, server, leftover, handler, history, StaysPut, Busy
  <2> QED
    BY <2>1, PlacesStay
<1> QED
  BY <1>1, <1>2, <1>3, <1>4, <1>5, <1>6 DEF Next

\* The rooms that are being left, when a packet is posted, or taken
LEMMA LeavingIs ==
    ASSUME NEW u \in Users, NEW r
    PROVE r \in Leaving(u) <=> \E i \in DOMAIN out[u] : out[u][i].op = "LEAVE_ROOM" /\ out[u][i].room = r
BY DEF Leaving

\* A packet that is posted takes no LEAVE_ROOM away, and may be one.
LEMMA LeavingPosted ==
    ASSUME TypeOK, NEW u \in Users, NEW op, NEW r, Post(u, op, r)
    PROVE (\A v \in Users : Leaving(v) \subseteq Leaving(v)') /\ (op = "LEAVE_ROOM" => r \in Leaving(u)')
<1> DEFINE p == [op |-> op, room |-> r]
<1>1. out[u] \in Seq(Requests) /\ out' = [out EXCEPT ![u] = Append(out[u], p)]
  BY DEF TypeOK, NetworkTypes, Post
<1>2. p.op = op /\ p.room = r
  OBVIOUS
<1> HIDE DEF p
<1>3. /\ out'[u] = Append(out[u], p) /\ \A v \in Users : v # u => out'[v] = out[v]
  BY <1>1 DEF TypeOK, NetworkTypes
<1>4. /\ Len(out[u]) + 1 \in DOMAIN out'[u] /\ out'[u][Len(out[u]) + 1] = p
      /\ \A i \in DOMAIN out[u] : i \in DOMAIN out'[u] /\ out'[u][i] = out[u][i]
  <2>1. /\ DOMAIN out[u] = 1 .. Len(out[u]) /\ Len(out[u]) \in Nat
        /\ DOMAIN Append(out[u], p) = 1 .. Len(out[u]) + 1
        /\ \A i \in 1 .. Len(out[u]) : Append(out[u], p)[i] = out[u][i]
        /\ Append(out[u], p)[Len(out[u]) + 1] = p
    BY <1>1
  <2> QED
    BY <1>3, <2>1
<1> QED
  BY <1>2, <1>3, <1>4 DEF Leaving

\* A packet that the handler takes is no longer under way.
LEMMA LeavingTaken ==
    ASSUME TypeOK, NEW u \in Users, out[u] # <<>>, out' = [out EXCEPT ![u] = Tail(@)]
    PROVE \A v \in Users : \A r \in Leaving(v) :
             r \in Leaving(v)' \/ (v = u /\ Head(out[u]).op = "LEAVE_ROOM" /\ Head(out[u]).room = r)
<1>1. out[u] \in Seq(Requests) /\ out'[u] = Tail(out[u]) /\ \A v \in Users : v # u => out'[v] = out[v]
  BY DEF TypeOK, NetworkTypes
<1>2. /\ Head(out[u]) = out[u][1] /\ Len(out[u]) \in Nat /\ DOMAIN out[u] = 1 .. Len(out[u])
      /\ DOMAIN out'[u] = 1 .. Len(out[u]) - 1
      /\ \A i \in 1 .. Len(out[u]) - 1 : out'[u][i] = out[u][i + 1]
  <2>1. /\ Head(out[u]) = out[u][1] /\ Len(out[u]) \in Nat /\ DOMAIN out[u] = 1 .. Len(out[u])
        /\ DOMAIN Tail(out[u]) = 1 .. Len(out[u]) - 1
        /\ \A i \in 1 .. Len(out[u]) - 1 : Tail(out[u])[i] = out[u][i + 1]
    BY <1>1
  <2> QED
    BY <1>1, <2>1
<1>3. ASSUME NEW r \in Leaving(u)
      PROVE r \in Leaving(u)' \/ (Head(out[u]).op = "LEAVE_ROOM" /\ Head(out[u]).room = r)
  <2>1. PICK i \in DOMAIN out[u] : out[u][i].op = "LEAVE_ROOM" /\ out[u][i].room = r
    BY <1>3, LeavingIs
  <2>2. CASE i = 1
    BY <1>2, <2>1, <2>2
  <2>3. CASE i # 1
    <3>1. i - 1 \in 1 .. Len(out[u]) - 1 /\ (i - 1) + 1 = i
      BY <1>2, <2>3
    <3>2. i - 1 \in DOMAIN out'[u] /\ out'[u][i - 1] = out[u][i]
      BY <1>2, <3>1
    <3> QED
      BY <2>1, <3>2 DEF Leaving
  <2> QED
    BY <2>2, <2>3
<1>4. \A v \in Users : v # u => Leaving(v)' = Leaving(v)
  BY <1>1 DEF Leaving
<1> QED
  BY <1>3, <1>4

\* A message stays covered when panel and packets stay, and what happens to the
\* other ways it can come does not lose it.
Kept(u, m) ==
    /\ log'[m] = log[m]
    /\ view'[u] = view[u] /\ GrowsTo(inbox[u], inbox'[u])
    /\ InChannel(channel[home[u]], u, m) => Covered(u, m)'
    /\ \A v \in Users : PromisedBy(v, u, m) => Covered(u, m)'
    /\ m \in unseen[u] => m \in unseen'[u]

\* That is enough for a message to stay covered.
LEMMA CoverKept ==
    ASSUME TypeOK, TypeOK', NEW u \in Users, NEW m \in 1 .. Len(log), Covered(u, m), Kept(u, m)
    PROVE Covered(u, m)'
<1>1. inbox[u] \in Seq(Answers) /\ inbox'[u] \in Seq(Answers)
  BY DEF TypeOK, NetworkTypes
<1>2. view'[u] = view[u] /\ log'[m] = log[m] /\ GrowsTo(inbox[u], inbox'[u])
  BY DEF Kept
<1>3. CASE InPanel(view[u], log[m].room, m)
  BY <1>2, <1>3 DEF Covered, InPanel
<1>4. CASE InBox(view[u], inbox[u], log[m].room, m)
  <2>1. InBox(view'[u], inbox'[u], log'[m].room, m)
    BY <1>1, <1>2, <1>4, BoxKept
  <2>2. InBox(view[u], inbox[u], log[m].room, m)'
    BY <2>1 DEF InBox, Opened, RoomsIn
  <2> QED
    BY <2>2 DEF Covered
<1>5. CASE InChannel(channel[home[u]], u, m) \/ Promised(u, m)
  BY <1>5 DEF Kept, Promised
<1>6. CASE m \in unseen[u]
  BY <1>6 DEF Kept, Covered
<1> QED
  BY <1>3, <1>4, <1>5, <1>6 DEF Covered

\* A handler that is left alone keeps its promise.
LEMMA PromiseKept ==
    ASSUME NEW u \in Users, NEW v \in Users, NEW m, PromisedBy(v, u, m), Steady(v), log'[m] = log[m],
           session'[u] = session[u]
    PROVE Covered(u, m)'
<1>1. PromisedBy(v, u, m)'
  BY DEF PromisedBy, Steady, Busy, AlreadyDelivered
<1> QED
  BY <1>1 DEF Covered, Promised

\* A step that brings and takes no messages
Calm ==
    /\ UNCHANGED <<view, channel, unseen, misfiled>> /\ LogGrows
    /\ \A u \in Users : inbox'[u] \in {inbox[u], <<>>}
    /\ \A u \in up' : joined'[u] = {} \/
          /\ u \in up /\ inbox'[u] = inbox[u] /\ home'[u] = home[u] /\ session'[u] = session[u]
          /\ joined'[u] \subseteq joined[u] /\ (u \in cut => u \in cut')
          /\ \A r \in joined'[u] : r \in Leaving(u) => r \in Leaving(u)'
    /\ \A u \in up' : pc'[u] = "history" =>
          /\ u \in up /\ pc[u] = "history" /\ doing'[u] = doing[u] /\ inbox'[u] = inbox[u]
          /\ Leaving(u) \subseteq Leaving(u)'
    /\ \A v \in Users : Busy(v) => Steady(v)

\* A calm step leaves what was covered covered.
LEMMA CalmCovers ==
    ASSUME TypeOK, TypeOK', Filed, Covering, Calm
    PROVE Filed' /\ \A u \in up' \ cut' : \A m \in 1 .. Len(log) : Owed(u, m)' => Covered(u, m)'
<1>1. ASSUME NEW u \in Users PROVE BoxFiled(inbox[u])'
  <2>1. BoxFiled(inbox[u])
    BY DEF Filed
  <2>2. CASE inbox'[u] = inbox[u]
    BY <2>1, <2>2 DEF BoxFiled, Calm, LogGrows
  <2>3. CASE inbox'[u] = <<>>
    BY <2>3 DEF BoxFiled
  <2> QED
    BY <2>2, <2>3 DEF Calm
<1>2. ASSUME NEW u \in Users PROVE HistoryOpen(u)'
  <2> SUFFICES ASSUME u \in up', pc'[u] = "history", doing'[u].room \notin Leaving(u)'
               PROVE Opened(view[u], inbox[u], doing[u].room, Len(inbox[u]) + 1)'
    BY DEF HistoryOpen
  <2>1. /\ u \in up /\ pc[u] = "history" /\ doing'[u] = doing[u] /\ inbox'[u] = inbox[u] /\ view' = view
        /\ Leaving(u) \subseteq Leaving(u)'
    BY DEF Calm
  <2>2. Opened(view[u], inbox[u], doing[u].room, Len(inbox[u]) + 1)
    BY <2>1 DEF Filed, HistoryOpen
  <2> QED
    BY <2>1, <2>2 DEF Opened, RoomsIn
<1>3. ASSUME NEW u \in up' \ cut', NEW m \in 1 .. Len(log), Owed(u, m)' PROVE Covered(u, m)'
  <2>1. u \in Users
    BY DEF TypeOK, NetworkTypes
  <2>2. log'[m] = log[m] /\ log'[m].room \in joined'[u]
    BY <1>3 DEF Owed, Calm, LogGrows
  <2>3. /\ u \in up /\ inbox'[u] = inbox[u] /\ home'[u] = home[u] /\ session'[u] = session[u]
        /\ joined'[u] \subseteq joined[u] /\ u \notin cut
        /\ \A r \in joined'[u] : r \in Leaving(u) => r \in Leaving(u)'
    BY <2>2 DEF Calm
  <2>4. Owed(u, m)
    BY <1>3, <2>2, <2>3 DEF Owed, Meant, Calm
  <2>5. Covered(u, m)
    BY <2>3, <2>4 DEF Covering
  <2>6. InChannel(channel[home[u]], u, m) => Covered(u, m)'
    BY <2>3 DEF Covered, InChannel, Calm
  <2>7. \A v \in Users : PromisedBy(v, u, m) => Covered(u, m)'
    <3> SUFFICES ASSUME NEW v \in Users, PromisedBy(v, u, m) PROVE Covered(u, m)'
      OBVIOUS
    <3>1. Steady(v)
      BY DEF PromisedBy, Calm
    <3> QED
      BY <2>1, <2>2, <2>3, <3>1, PromiseKept
  <2>8. Kept(u, m)
    BY <2>2, <2>3, <2>6, <2>7 DEF Kept, Calm, GrowsTo
  <2> QED
    BY <2>1, <2>5, <2>8, CoverKept
<1> QED
  BY <1>1, <1>2, <1>3 DEF Filed

\* The posts and choices of a client, and the loss of its connection, are calm.
LEMMA ClientsAreCalm ==
    ASSUME TypeOK, Places, NEW u \in Users,
           \/ \E r \in Rooms : OnJoinRoom(u, r) \/ OnRoomSelected(u, r)
           \/ OnSend(u) \/ Lose(u)
    PROVE Calm /\ log' = log
<1>0. \A v \in Users : v # u => Steady(v)
  BY OthersSteady
<1>1. CASE \/ \E r \in Rooms : OnJoinRoom(u, r)
           \/ OnSend(u)
  <2>1. PICK op, r : Post(u, op, r)
    BY <1>1 DEF OnJoinRoom, OnSend
  <2>2. \A v \in Users : Leaving(v) \subseteq Leaving(v)'
    BY <2>1, LeavingPosted
  <2>3. /\ UNCHANGED <<view, channel, unseen, misfiled, log, inbox, up, joined, home, session, pc, doing, cut>>
        /\ Steady(u)
    BY <1>1 DEF OnJoinRoom, OnSend, client, server, leftover, handler, history, Steady
  <2>4. up \subseteq Users
    BY DEF TypeOK, NetworkTypes
  <2> QED
    BY <1>0, <2>2, <2>3, <2>4 DEF Calm, LogGrows
<1>2. CASE \E r \in Rooms : OnRoomSelected(u, r)
  <2>1. /\ UNCHANGED <<view, channel, unseen, misfiled, log, inbox, up, joined, home, session, pc, doing, out, cut>>
        /\ Steady(u)
    BY <1>2 DEF OnRoomSelected, network, server, leftover, handler, history, Steady
  <2> QED
    BY <1>0, <2>1 DEF Calm, LogGrows, Leaving
<1>3. CASE Lose(u)
  <2>1. /\ UNCHANGED <<view, channel, unseen, misfiled, log, home, session, pc, doing, cut>> /\ up' = up \ {u}
        /\ Steady(u)
    BY <1>3 DEF Lose, client, server, leftover, handler, Steady
  <2>2. /\ inbox'[u] = <<>> /\ \A v \in Users : v # u => inbox'[v] = inbox[v] /\ out'[v] = out[v] /\ joined'[v] = joined[v]
    BY <1>3 DEF Lose, TypeOK, NetworkTypes, HistoryTypes
  <2>3. \A v \in up' : v \in Users /\ v \in up /\ v # u
    BY <2>1 DEF TypeOK, NetworkTypes
  <2>4. \A v \in up' : Leaving(v)' = Leaving(v)
    BY <2>2, <2>3 DEF Leaving
  <2> QED
    BY <1>0, <2>1, <2>2, <2>3, <2>4 DEF Calm, LogGrows
<1> QED
  BY <1>1, <1>2, <1>3

\* So are the end and the start of a handler, also an overtaken one, and a
\* LEAVE_ROOM.
LEMMA HandlersAreCalm ==
    ASSUME TypeOK, Places, NEW u \in Users,
           \/ Cleanup(u) \/ HandleLeaveRoom(u)
           \/ \E s \in Servers : Reconnect(u, s) \/ CleanupOld(u, s)
    PROVE Calm /\ log' = log
<1>0. /\ \A v \in Users : v # u => Steady(v)
      /\ up \subseteq Users
  BY OthersSteady DEF TypeOK, NetworkTypes
<1>1. CASE Cleanup(u)
  <2>1. /\ UNCHANGED <<view, channel, unseen, misfiled, log, inbox, up, joined, session, pc, doing, out, cut>>
        /\ u \notin up /\ pc[u] = "read" /\ \A v \in Users : v # u => home'[v] = home[v]
    BY <1>1 DEF Cleanup, client, handler, history, TypeOK, NetworkTypes
  <2>2. \A v \in up' : Leaving(v)' = Leaving(v) /\ v # u /\ v \in Users
    BY <1>0, <2>1 DEF Leaving
  <2> QED
    BY <1>0, <2>1, <2>2 DEF Calm, LogGrows, Busy
<1>2. CASE HandleLeaveRoom(u)
  <2>1. /\ UNCHANGED <<view, channel, unseen, misfiled, log, inbox, up, home, session, pc, doing, cut>>
        /\ pc[u] = "read" /\ out[u] # <<>> /\ out' = [out EXCEPT ![u] = Tail(@)] /\ u \in up
    BY <1>2 DEF HandleLeaveRoom, client, handler
  <2>2. /\ joined'[u] = joined[u] \ {Head(out[u]).room} /\ \A v \in Users : v # u => joined'[v] = joined[v]
    BY <1>2 DEF HandleLeaveRoom, TypeOK, HistoryTypes
  <2>3. \A v \in Users : \A r \in Leaving(v) : r \in Leaving(v)' \/ (v = u /\ Head(out[u]).room = r)
    BY <2>1, LeavingTaken
  <2>4. \A v \in up' : v \in Users
    BY <1>0, <2>1
  <2> QED
    BY <1>0, <2>1, <2>2, <2>3, <2>4 DEF Calm, LogGrows, Busy
<1>3. CASE \E s \in Servers : Reconnect(u, s)
  <2>1. /\ UNCHANGED <<view, channel, unseen, misfiled, log, inbox, joined, pc, doing>>
        /\ \A v \in Users : v # u => home'[v] = home[v] /\ session'[v] = session[v] /\ out'[v] = out[v]
        /\ up' = up \cup {u} /\ \A v \in cut : v # u => v \in cut'
    BY <1>3 DEF Reconnect, Register, client, handler, history, TypeOK, NetworkTypes
  <2>2. joined'[u] = {} /\ pc'[u] = "read"
    BY <1>3, ReconnectPlaces
  <2>3. \A v \in up' : v # u => v \in up /\ v \in Users /\ Leaving(v)' = Leaving(v)
    BY <1>0, <2>1 DEF Leaving
  <2> QED
    BY <1>0, <2>1, <2>2, <2>3 DEF Calm, LogGrows, Busy
<1>4. CASE \E s \in Servers : CleanupOld(u, s)
  <2>1. /\ UNCHANGED <<view, channel, unseen, misfiled, log, inbox, joined, pc, doing, home, session, out, up>>
        /\ cut \subseteq cut'
    BY <1>4 DEF CleanupOld, client, network, handler
  <2>2. Steady(u)
    BY <1>4, CleanupOldSteady
  <2> QED
    BY <1>0, <2>1, <2>2 DEF Calm, LogGrows, Leaving
<1> QED
  BY <1>1, <1>2, <1>3, <1>4

\* A message that is stored is promised to everybody.
LEMMA StoreCovers ==
    ASSUME TypeOK, TypeOK', Filed, Covering, NEW u \in Users, HandleChatMessage(u)
    PROVE Filed' /\ Covering'
<1> DEFINE r == Head(out[u]).room
<1>1. /\ u \in up /\ out[u] # <<>> /\ out' = [out EXCEPT ![u] = Tail(@)] /\ pc[u] = "read" /\ Head(out[u]).op = "CHAT_MESSAGE"
      /\ UNCHANGED <<view, channel, unseen, misfiled, inbox, up, joined, home, session, cut>>
      /\ up \subseteq Users
  BY DEF HandleChatMessage, client, leftover, TypeOK, NetworkTypes
<1>2. \A v \in Users : v # u => Steady(v)
  BY OthersSteady
<1>3. \A v \in Users : Leaving(v) \subseteq Leaving(v)'
  BY <1>1, LeavingTaken
<1>4. \/ UNCHANGED <<log, id, pc, doing>>
      \/ StoreMessage(u, r) /\ pc' = [pc EXCEPT ![u] = "stored"]
  BY DEF HandleChatMessage
<1>5. r \in Rooms
  BY <1>1, RequestTypes
<1> HIDE DEF r
<1>6. LogGrows /\ pc'[u] # "history"
  <2>1. CASE UNCHANGED <<log, id, pc, doing>>
    BY <1>1, <2>1 DEF LogGrows
  <2>2. CASE StoreMessage(u, r) /\ pc' = [pc EXCEPT ![u] = "stored"]
    <3>1. Len(log') = Len(log) + 1 /\ Len(log) \in Nat /\ \A m \in 1 .. Len(log) : log'[m] = log[m]
      BY <1>5, <2>2, StoreTypes
    <3>2. \A m \in 1 .. Len(log) : m \in 1 .. Len(log')
      BY <3>1
    <3>3. pc'[u] = "stored"
      BY <2>2 DEF TypeOK, HandlerTypes
    <3> QED
      BY <3>1, <3>2, <3>3 DEF LogGrows
  <2> QED
    BY <1>4, <2>1, <2>2
<1>7. Calm
  <2>1. \A v \in up : v \in Users /\ (v # u => pc'[v] = pc[v] /\ doing'[v] = doing[v])
    BY <1>1, <1>2 DEF Steady
  <2> QED
    BY <1>1, <1>2, <1>3, <1>6, <2>1 DEF Calm, Busy
<1>8. Filed' /\ \A v \in up' \ cut' : \A m \in 1 .. Len(log) : Owed(v, m)' => Covered(v, m)'
  BY <1>7, CalmCovers
<1>9. CASE UNCHANGED <<log, id, pc, doing>>
  BY <1>8, <1>9 DEF Covering
<1>10. CASE StoreMessage(u, r) /\ pc' = [pc EXCEPT ![u] = "stored"]
  <2>1. /\ Len(log') = Len(log) + 1 /\ Len(log) \in Nat /\ id'[u] = Len(log) + 1 /\ pc'[u] = "stored"
    BY <1>5, <1>10, StoreTypes DEF TypeOK, HandlerTypes
  <2>2. ASSUME NEW v \in up' \ cut', NEW m \in 1 .. Len(log'), Owed(v, m)' PROVE Covered(v, m)'
    <3>1. CASE m \in 1 .. Len(log)
      BY <1>8, <2>2, <3>1
    <3>2. CASE m = Len(log) + 1
      <4>1. PromisedBy(u, v, m)'
        BY <2>1, <3>2 DEF PromisedBy, Busy
      <4> QED
        BY <4>1 DEF Covered, Promised
    <3> QED
      BY <2>1, <3>1, <3>2
  <2> QED
    BY <1>8, <2>2 DEF Covering
<1> QED
  BY <1>4, <1>9, <1>10

\* What is to hold of one user
Served(u) ==
    /\ BoxFiled(inbox[u]) /\ HistoryOpen(u)
    /\ u \in up \ cut => \A m \in 1 .. Len(log) : Owed(u, m) => Covered(u, m)

\* Filed and Covering, user by user
LEMMA AllServed == ASSUME TypeOK PROVE Filed /\ Covering <=> \A u \in Users : Served(u)
BY DEF Filed, Covering, Served, TypeOK, NetworkTypes

\* The same after a step
LEMMA AllServedNext == ASSUME TypeOK', \A u \in Users : Served(u)' PROVE Filed' /\ Covering'
BY DEF Filed, Covering, Served, TypeOK, NetworkTypes

\* A user whom another one's step does not concern
Aside(u) ==
    /\ view'[u] = view[u] /\ inbox'[u] = inbox[u] /\ out'[u] = out[u] /\ unseen'[u] = unseen[u]
    /\ misfiled'[u] = misfiled[u] /\ joined'[u] = joined[u]
    /\ home'[u] = home[u] /\ session'[u] = session[u] /\ (u \in up' => u \in up) /\ cut' = cut
    /\ pc'[u] = pc[u] /\ doing'[u] = doing[u]
    /\ UNCHANGED <<channel, log>>
    /\ \A v \in Users : Busy(v) => Steady(v)

\* Such a user is served as before.
LEMMA AsideServed == ASSUME TypeOK, TypeOK', NEW u \in Users, Served(u), Aside(u) PROVE Served(u)'
<1>1. BoxFiled(inbox[u])'
  BY DEF Served, Aside, BoxFiled
<1>2. Leaving(u)' = Leaving(u)
  BY DEF Aside, Leaving
<1>3. HistoryOpen(u)'
  BY <1>2 DEF Served, Aside, HistoryOpen, Opened, RoomsIn
<1>4. ASSUME u \in up' \ cut', NEW m \in 1 .. Len(log), Owed(u, m)' PROVE Covered(u, m)'
  <2>1. Owed(u, m) /\ u \in up \ cut /\ log' = log
    BY <1>2, <1>4 DEF Owed, Meant, Aside
  <2>2. Covered(u, m)
    BY <2>1 DEF Served
  <2>3. InChannel(channel[home[u]], u, m) => Covered(u, m)'
    BY DEF Covered, InChannel, Aside
  <2>4. \A v \in Users : PromisedBy(v, u, m) => Covered(u, m)'
    <3> SUFFICES ASSUME NEW v \in Users, PromisedBy(v, u, m) PROVE Covered(u, m)'
      OBVIOUS
    <3>1. Steady(v) /\ log'[m] = log[m] /\ session'[u] = session[u]
      BY <2>1 DEF PromisedBy, Aside
    <3> QED
      BY <3>1, PromiseKept
  <2>5. Kept(u, m)
    BY <2>1, <2>3, <2>4 DEF Kept, Aside, GrowsTo
  <2> QED
    BY <2>2, <2>5, CoverKept
<1>5. log' = log
  BY DEF Aside
<1> QED
  BY <1>1, <1>3, <1>4, <1>5 DEF Served

\* Who leaves a room keeps the others.
LEMMA LeaveCovers ==
    ASSUME TypeOK, TypeOK', Filed, Covering, NEW u \in Users, OnLeaveRoom(u)
    PROVE Filed' /\ Covering'
<1> DEFINE r == current[u]
           w == Without(view[u], r)
<1>1. /\ u \in up /\ r \in Rooms /\ view[u] \in Seq(Panels) /\ OneEach(view[u])
      /\ UNCHANGED <<up, home, session, inbox, channel, log, unseen, misfiled, pc, doing, cut>>
      /\ view' = [view EXCEPT ![u] = w] /\ joined' = [joined EXCEPT ![u] = @ \ {r}]
      /\ Post(u, "LEAVE_ROOM", r)
      /\ Steady(u)
  BY DEF OnLeaveRoom, TypeOK, PanelTypes, OneEach, server, leftover, handler, Steady
<1>2. \A v \in Users : v # u => Steady(v)
  BY OthersSteady
<1>3. \A v \in Users : Served(v)
  BY AllServed
<1>4. ASSUME NEW v \in Users, v # u PROVE Served(v)'
  <2>1. view'[v] = view[v] /\ joined'[v] = joined[v] /\ out'[v] = out[v]
    BY <1>1, <1>4 DEF Post, TypeOK, PanelTypes, HistoryTypes, NetworkTypes
  <2>2. Aside(v)
    BY <1>1, <1>2, <2>1 DEF Aside
  <2> QED
    BY <1>3, <2>2, AsideServed
<1>5. Leaving(u) \subseteq Leaving(u)' /\ r \in Leaving(u)'
  BY <1>1, LeavingPosted
<1>6. w \in Seq(Panels) /\ \A i \in 1 .. Len(view[u]) : view[u][i].room # r => \E j \in 1 .. Len(w) : w[j] = view[u][i]
  BY <1>1, RoomRemoved
<1>7. view'[u] = w /\ joined'[u] = joined[u] \ {r}
  BY <1>1 DEF TypeOK, PanelTypes, HistoryTypes
<1> HIDE DEF w, r
<1>8. \A q : q # r /\ q \in RoomsIn(view[u]) => q \in RoomsIn(w)
  <2>1. DOMAIN view[u] = 1 .. Len(view[u]) /\ DOMAIN w = 1 .. Len(w)
    BY <1>1, <1>6
  <2> QED
    BY <1>6, <2>1 DEF RoomsIn
<1>9. BoxFiled(inbox[u])'
  BY <1>1, <1>3 DEF Served, BoxFiled
<1>10. HistoryOpen(u)'
  <2> SUFFICES ASSUME pc[u] = "history", doing[u].room \notin Leaving(u)'
               PROVE Opened(w, inbox[u], doing[u].room, Len(inbox[u]) + 1)
    BY <1>1, <1>7 DEF HistoryOpen, Opened, RoomsIn
  <2>1. doing[u].room # r /\ Opened(view[u], inbox[u], doing[u].room, Len(inbox[u]) + 1)
    BY <1>1, <1>3, <1>5 DEF Served, HistoryOpen
  <2> QED
    BY <1>8, <2>1 DEF Opened
<1>11. ASSUME u \notin cut', NEW m \in 1 .. Len(log), Owed(u, m)' PROVE Covered(u, m)'
  <2>1. Owed(u, m) /\ log[m].room # r
    BY <1>1, <1>5, <1>7, <1>11 DEF Owed, Meant
  <2>2. Covered(u, m)
    BY <1>1, <1>3, <1>11, <2>1 DEF Served
  <2>3. CASE InPanel(view[u], log[m].room, m)
    <3>1. InPanel(w, log[m].room, m)
      <4>1. PICK i \in 1 .. Len(view[u]) : view[u][i].room = log[m].room /\ m \in view[u][i].messages
        BY <2>3 DEF InPanel
      <4>2. PICK j \in 1 .. Len(w) : w[j] = view[u][i]
        BY <1>6, <2>1, <4>1
      <4> QED
        BY <4>1, <4>2 DEF InPanel
    <3> QED
      BY <1>1, <1>7, <3>1 DEF Covered, InPanel
  <2>4. CASE InBox(view[u], inbox[u], log[m].room, m)
    <3>1. InBox(w, inbox[u], log[m].room, m)
      BY <1>8, <2>1, <2>4 DEF InBox, Opened
    <3> QED
      BY <1>1, <1>7, <3>1 DEF Covered, InBox, Opened, RoomsIn
  <2>5. CASE InChannel(channel[home[u]], u, m) \/ m \in unseen[u]
    BY <1>1, <2>5 DEF Covered, InChannel
  <2>6. CASE Promised(u, m)
    <3>1. PICK v \in Users : PromisedBy(v, u, m)
      BY <2>6 DEF Promised
    <3>2. Steady(v) /\ log'[m] = log[m] /\ session'[u] = session[u]
      BY <1>1, <1>2
    <3> QED
      BY <3>1, <3>2, PromiseKept
  <2> QED
    BY <2>2, <2>3, <2>4, <2>5, <2>6 DEF Covered
<1>12. Served(u)'
  BY <1>1, <1>9, <1>10, <1>11 DEF Served
<1> QED
  BY <1>4, <1>12, AllServedNext

\* Message m comes to the panel in packet p.
Arrives(u, p, m) ==
    \/ InPanel(view[u], p.room, m)'
    \/ p.room \in misfiled'[u]
    \/ p.type = "MESSAGE_HISTORY" /\ view[u] = <<>>

\* The panel takes a packet: it keeps what it has, opens the room of a
\* ROOM_STATE, and has the messages, unless the history goes elsewhere.
LEMMA PanelTakes ==
    ASSUME TypeOK, TypeOK', NEW u \in Users, HandlePacket(u), NEW p, p = Head(inbox[u])
    PROVE /\ p \in Answers /\ Keeps(view[u], view'[u])
          /\ p.type = "ROOM_STATE" => p.room \in RoomsIn(view'[u])
          /\ \A m \in p.messages : p.type # "ROOM_STATE" => Arrives(u, p, m)
<1>1. inbox[u] \in Seq(Answers) /\ inbox[u] # <<>>
  BY DEF HandlePacket, TypeOK, NetworkTypes
<1>2. p \in Answers
  BY <1>1, FirstAndRest
<1>3. p.room \in Rooms /\ p.messages \in SUBSET Nat /\ p.type \in {"ROOM_STATE", "MESSAGE_HISTORY", "CHAT_MESSAGE"}
  BY <1>2 DEF Answers
<1>4. view[u] \in Seq(Panels) /\ OneEach(view[u]) /\ view'[u] \in Seq(Panels)
  BY DEF TypeOK, PanelTypes, OneEach
<1>5. DOMAIN view = Users /\ DOMAIN misfiled = Users
  BY DEF TypeOK, PanelTypes, HistoryTypes
<1> DEFINE h == HistoryRoom(view[u], p.room)
<1>6. \/ p.type = "ROOM_STATE" /\ view' = [view EXCEPT ![u] = AddRoom(view[u], p.room)]
      \/ p.type = "MESSAGE_HISTORY" /\ view[u] = <<>> /\ view' = view
      \/ /\ p.type = "MESSAGE_HISTORY" /\ view[u] # <<>>
         /\ view' = [view EXCEPT ![u] = [view[u] EXCEPT ![h].messages = @ \cup p.messages]]
         /\ misfiled' = IF view[u][h].room = p.room \/ p.messages = {} THEN misfiled
                        ELSE [misfiled EXCEPT ![u] = @ \cup {p.room}]
      \/ p.type = "CHAT_MESSAGE" /\ view' = [view EXCEPT ![u] = AddMessage(view[u], p.room, p.messages)]
  BY DEF HandlePacket
<1> HIDE DEF h
<1>7. \A i \in 1 .. Len(view[u]) : view[u][i].messages \subseteq view[u][i].messages
  OBVIOUS
<1>8. CASE p.type = "ROOM_STATE" /\ view'[u] = AddRoom(view[u], p.room)
  <2> DEFINE w == AddRoom(view[u], p.room)
  <2>1. w \in Seq(Panels) /\ Keeps(view[u], w) /\ \E i \in 1 .. Len(w) : w[i].room = p.room
    BY <1>3, <1>4, RoomAdded
  <2>2. view'[u] = w
    BY <1>8
  <2> HIDE DEF w
  <2>3. DOMAIN w = 1 .. Len(w)
    BY <2>1
  <2>4. p.room \in RoomsIn(w)
    BY <2>1, <2>3 DEF RoomsIn
  <2> QED
    BY <1>2, <1>8, <2>1, <2>2, <2>4
<1>9. CASE p.type = "MESSAGE_HISTORY" /\ view[u] = <<>> /\ view' = view
  BY <1>2, <1>9 DEF Keeps, Arrives
<1>10. CASE /\ p.type = "MESSAGE_HISTORY" /\ view[u] # <<>>
            /\ view'[u] = [view[u] EXCEPT ![h].messages = @ \cup p.messages]
            /\ misfiled' = IF view[u][h].room = p.room \/ p.messages = {} THEN misfiled
                           ELSE [misfiled EXCEPT ![u] = @ \cup {p.room}]
  <2> DEFINE w == [view[u] EXCEPT ![h].messages = @ \cup p.messages]
  <2>1. h \in 1 .. Len(view[u])
    BY <1>4, <1>10, HistoryRoomIsThere DEF h
  <2>2. Keeps(view[u], w) /\ w[h].room = view[u][h].room /\ p.messages \subseteq w[h].messages /\ Len(w) = Len(view[u])
    <3>1. Keeps(view[u], w)
      BY <1>3, <1>4, <2>1, PanelGrows
    <3>2. w[h].room = view[u][h].room
      BY <1>3, <1>4, <2>1, PanelGrows
    <3>3. p.messages \subseteq w[h].messages
      BY <1>3, <1>4, <2>1, PanelGrows
    <3>4. Len(w) = Len(view[u])
      BY <1>3, <1>4, <2>1, PanelGrows
    <3> QED
      BY <3>1, <3>2, <3>3, <3>4
  <2>3. view'[u] = w
    BY <1>10
  <2> HIDE DEF w
  <2>4. ASSUME NEW m \in p.messages PROVE Arrives(u, p, m)
    <3>1. CASE view[u][h].room = p.room
      <4>1. InPanel(w, p.room, m)
        BY <2>1, <2>2, <2>4, <3>1 DEF InPanel
      <4> QED
        BY <2>3, <4>1 DEF Arrives, InPanel
    <3>2. CASE view[u][h].room # p.room
      <4>1. p.room \in misfiled'[u]
        BY <1>5, <1>10, <2>4, <3>2
      <4> QED
        BY <4>1 DEF Arrives
    <3> QED
      BY <3>1, <3>2
  <2> QED
    BY <1>2, <1>10, <2>2, <2>3, <2>4
<1>11. CASE p.type = "CHAT_MESSAGE" /\ view'[u] = AddMessage(view[u], p.room, p.messages)
  <2> DEFINE w == AddMessage(view[u], p.room, p.messages)
  <2>1. Keeps(view[u], w) /\ \E i \in 1 .. Len(w) : w[i].room = p.room /\ p.messages \subseteq w[i].messages
    BY <1>3, <1>4, MessageAdded
  <2>2. view'[u] = w
    BY <1>11
  <2> HIDE DEF w
  <2>3. \A m \in p.messages : InPanel(w, p.room, m)
    BY <2>1 DEF InPanel
  <2>4. \A m \in p.messages : Arrives(u, p, m)
    BY <2>2, <2>3 DEF Arrives, InPanel
  <2> QED
    BY <1>2, <1>11, <2>1, <2>2, <2>4
<1> QED
  BY <1>5, <1>6, <1>8, <1>9, <1>10, <1>11

\* So what was under way to the panel is in it, or still under way.
LEMMA PacketCovers ==
    ASSUME TypeOK, TypeOK', Filed, Covering, NEW u \in Users, HandlePacket(u)
    PROVE Filed' /\ Covering'
<1>0. PICK p : p = Head(inbox[u])
  OBVIOUS
<1>1. /\ u \in up /\ inbox[u] # <<>> /\ inbox[u] \in Seq(Answers)
      /\ UNCHANGED <<up, home, session, out, channel, log, unseen, joined, pc, doing, cut>>
      /\ Steady(u)
  BY DEF HandlePacket, TypeOK, NetworkTypes, server, leftover, handler, Steady
<1>2. \A v \in Users : v # u => Steady(v)
  BY OthersSteady
<1>3. \A v \in Users : Served(v)
  BY AllServed
<1>4. ASSUME NEW v \in Users, v # u PROVE Served(v)'
  <2>1. view'[v] = view[v] /\ inbox'[v] = inbox[v] /\ misfiled'[v] = misfiled[v]
    <3> DEFINE q == Head(inbox[u])
               h == HistoryRoom(view[u], q.room)
    <3>1. /\ \/ view' = view
             \/ view' = [view EXCEPT ![u] = AddRoom(view[u], q.room)]
             \/ view' = [view EXCEPT ![u] = [view[u] EXCEPT ![h].messages = @ \cup q.messages]]
             \/ view' = [view EXCEPT ![u] = AddMessage(view[u], q.room, q.messages)]
          /\ misfiled' = misfiled \/ misfiled' = [misfiled EXCEPT ![u] = @ \cup {q.room}]
          /\ inbox' = [inbox EXCEPT ![u] = Tail(@)]
      BY DEF HandlePacket
    <3> HIDE DEF q, h
    <3>2. DOMAIN view = Users /\ DOMAIN misfiled = Users /\ DOMAIN inbox = Users
      BY DEF TypeOK, PanelTypes, HistoryTypes, NetworkTypes
    <3> QED
      BY <1>4, <3>1, <3>2
  <2>2. Aside(v)
    BY <1>1, <1>2, <2>1 DEF Aside
  <2> QED
    BY <1>3, <2>2, AsideServed
<1>5. /\ Len(inbox[u]) \in Nat /\ 1 \in 1 .. Len(inbox[u]) /\ p = inbox[u][1]
      /\ inbox'[u] = Tail(inbox[u]) /\ Len(inbox'[u]) = Len(inbox[u]) - 1
      /\ \A i \in 1 .. Len(inbox[u]) - 1 : inbox'[u][i] = inbox[u][i + 1] /\ i + 1 \in 1 .. Len(inbox[u])
  <2>1. inbox'[u] = Tail(inbox[u])
    BY DEF HandlePacket, TypeOK, NetworkTypes
  <2> QED
    BY <1>0, <1>1, <2>1, FirstAndRest
<1>6. /\ p \in Answers /\ Keeps(view[u], view'[u])
      /\ p.type = "ROOM_STATE" => p.room \in RoomsIn(view'[u])
      /\ \A m \in p.messages : p.type # "ROOM_STATE" => Arrives(u, p, m)
  BY <1>0, PanelTakes
<1>7. view[u] \in Seq(Panels) /\ view'[u] \in Seq(Panels)
  BY DEF TypeOK, PanelTypes
<1>8. RoomsIn(view[u]) \subseteq RoomsIn(view'[u])
  BY <1>6, <1>7, PanelKept
<1>9. \A r : \A i \in 1 .. Len(inbox[u]) : Opened(view[u], inbox[u], r, i + 1) => Opened(view'[u], inbox'[u], r, i)
  BY <1>1, <1>5, <1>6, <1>8, OpenedShift
<1>10. Leaving(u)' = Leaving(u)
  BY <1>1 DEF Leaving
<1>11. BoxFiled(inbox[u]) /\ HistoryOpen(u)
  BY <1>3 DEF Served
<1>12. BoxFiled(inbox[u])'
  BY <1>1, <1>5, <1>11 DEF BoxFiled
<1>13. HistoryOpen(u)'
  <2> SUFFICES ASSUME pc[u] = "history", doing[u].room \notin Leaving(u)
               PROVE Opened(view'[u], inbox'[u], doing[u].room, Len(inbox'[u]) + 1)
    BY <1>1, <1>10 DEF HistoryOpen, Opened, RoomsIn
  <2>1. Opened(view[u], inbox[u], doing[u].room, Len(inbox[u]) + 1)
    BY <1>1, <1>11 DEF HistoryOpen
  <2>2. Len(inbox[u]) \in 1 .. Len(inbox[u]) /\ Len(inbox'[u]) + 1 = Len(inbox[u])
    BY <1>5
  <2> QED
    BY <1>9, <2>1, <2>2
<1>14. ASSUME u \notin cut', NEW m \in 1 .. Len(log), Owed(u, m)' PROVE Covered(u, m)'
  <2> DEFINE r == log[m].room
  <2>1. r \notin misfiled'[u] /\ log' = log
    BY <1>1, <1>14 DEF Owed
  <2>2. Owed(u, m)
    <3>1. misfiled[u] \subseteq misfiled'[u]
      <4>1. misfiled' = misfiled \/ \E q : misfiled' = [misfiled EXCEPT ![u] = @ \cup {q}]
        BY DEF HandlePacket
      <4> QED
        BY <4>1 DEF TypeOK, HistoryTypes
    <3> QED
      BY <1>1, <1>10, <1>14, <3>1 DEF Owed, Meant
  <2>3. Covered(u, m)
    BY <1>1, <1>3, <1>14, <2>2 DEF Served
  <2>4. CASE InPanel(view[u], r, m)
    <3>1. InPanel(view'[u], r, m)
      BY <1>6, <1>7, <2>4, PanelKept
    <3> QED
      BY <2>1, <3>1 DEF Covered, InPanel
  <2>5. CASE InBox(view[u], inbox[u], r, m)
    <3>1. PICK i \in 1 .. Len(inbox[u]) : /\ m \in inbox[u][i].messages
                                          /\ inbox[u][i].type = "MESSAGE_HISTORY" => Opened(view[u], inbox[u], r, i)
      BY <2>5 DEF InBox
    <3>2. CASE i = 1
      <4>1. m \in p.messages /\ p.room = r /\ p.type # "ROOM_STATE"
        BY <1>5, <1>11, <3>1, <3>2 DEF BoxFiled
      <4>2. p.type = "MESSAGE_HISTORY" => view[u] # <<>>
        <5>1. p.type = "MESSAGE_HISTORY" => Opened(view[u], inbox[u], r, 1)
          BY <1>5, <3>1, <3>2
        <5>2. Opened(view[u], inbox[u], r, 1) => r \in RoomsIn(view[u])
          BY DEF Opened
        <5>3. r \in RoomsIn(view[u]) => view[u] # <<>>
          BY DEF RoomsIn
        <5> QED
          BY <5>1, <5>2, <5>3
      <4>3. InPanel(view[u], r, m)'
        BY <1>6, <2>1, <4>1, <4>2 DEF Arrives, InPanel
      <4> QED
        BY <2>1, <4>3 DEF Covered, InPanel
    <3>3. CASE i # 1
      <4>1. PICK j \in 1 .. Len(inbox[u]) - 1 : j + 1 = i
        <5>1. i - 1 \in 1 .. Len(inbox[u]) - 1 /\ (i - 1) + 1 = i
          BY <1>5, <3>3
        <5> QED
          BY <5>1
      <4>2. j \in 1 .. Len(inbox'[u]) /\ inbox'[u][j] = inbox[u][i] /\ j \in 1 .. Len(inbox[u])
        BY <1>5, <4>1
      <4>3. Opened(view[u], inbox[u], r, i) => Opened(view'[u], inbox'[u], r, j)
        BY <1>9, <4>1, <4>2
      <4>4. InBox(view'[u], inbox'[u], r, m)
        BY <3>1, <4>2, <4>3 DEF InBox
      <4> QED
        BY <2>1, <4>4 DEF Covered, InBox, Opened, RoomsIn
    <3> QED
      BY <3>2, <3>3
  <2>6. CASE InChannel(channel[home[u]], u, m) \/ m \in unseen[u]
    BY <1>1, <2>6 DEF Covered, InChannel
  <2>7. CASE Promised(u, m)
    <3>1. PICK v \in Users : PromisedBy(v, u, m)
      BY <2>7 DEF Promised
    <3>2. Steady(v) /\ log'[m] = log[m] /\ session'[u] = session[u]
      BY <1>1, <1>2
    <3> QED
      BY <3>1, <3>2, PromiseKept
  <2> QED
    BY <2>3, <2>4, <2>5, <2>6, <2>7 DEF Covered
<1>15. Served(u)'
  BY <1>1, <1>12, <1>13, <1>14 DEF Served
<1> QED
  BY <1>4, <1>15, AllServedNext

\* A packet with messages of its room
PacketFiled(p) ==
    /\ \A m \in p.messages : m \in 1 .. Len(log) /\ log[m].room = p.room
    /\ p.type = "ROOM_STATE" => p.messages = {}

\* A packet is put behind the others.
LEMMA PacketAdded ==
    ASSUME NEW b \in Seq(Answers), NEW p \in Answers
    PROVE /\ GrowsTo(b, Append(b, p)) /\ Len(b) + 1 \in 1 .. Len(Append(b, p)) /\ Append(b, p)[Len(b) + 1] = p
          /\ Len(Append(b, p)) = Len(b) + 1 /\ Append(b, p) \in Seq(Answers)
          /\ BoxFiled(b) /\ PacketFiled(p) => BoxFiled(Append(b, p))
<1> DEFINE c == Append(b, p)
<1>1. /\ Len(b) \in Nat /\ Len(c) = Len(b) + 1 /\ c[Len(b) + 1] = p /\ c \in Seq(Answers)
      /\ \A i \in 1 .. Len(b) : c[i] = b[i]
  OBVIOUS
<1> HIDE DEF c
<1>2. /\ Len(b) + 1 \in 1 .. Len(c) /\ \A i \in 1 .. Len(b) : i \in 1 .. Len(c)
      /\ \A i \in 1 .. Len(c) : i \in 1 .. Len(b) \/ i = Len(b) + 1
  BY <1>1
<1>3. GrowsTo(b, c)
  BY <1>1, <1>2 DEF GrowsTo
<1>4. BoxFiled(b) /\ PacketFiled(p) => BoxFiled(c)
  BY <1>1, <1>2 DEF BoxFiled, PacketFiled
<1> QED
  BY <1>1, <1>2, <1>3, <1>4 DEF c

\* What u has in the box, or in the channel, or is promised, stays when a step
\* of its own handler sends it packet p.
LEMMA OwnPacketKeeps ==
    ASSUME TypeOK, TypeOK', NEW u \in Users, NEW p \in Answers, Served(u), PacketFiled(p), u \in up,
           inbox'[u] = Append(inbox[u], p) \/ inbox'[u] = inbox[u],
           view' = view, log' = log, channel' = channel, home'[u] = home[u], session'[u] = session[u],
           \A v \in Users : Busy(v) => Steady(v)
    PROVE /\ BoxFiled(inbox[u])'
          /\ GrowsTo(inbox[u], inbox'[u])
          /\ \A m \in 1 .. Len(log) :
                Covered(u, m) /\ (m \in unseen[u] => m \in unseen'[u]) => Covered(u, m)'
<1>1. inbox[u] \in Seq(Answers) /\ BoxFiled(inbox[u])
  BY DEF Served, TypeOK, NetworkTypes
<1>2. GrowsTo(inbox[u], inbox'[u])
  <2>1. GrowsTo(inbox[u], Append(inbox[u], p))
    BY <1>1, PacketAdded
  <2> QED
    BY <2>1 DEF GrowsTo
<1>3. BoxFiled(inbox'[u])
  BY <1>1, PacketAdded
<1>4. BoxFiled(inbox[u])'
  BY <1>3 DEF BoxFiled
<1>5. ASSUME NEW m \in 1 .. Len(log), Covered(u, m), m \in unseen[u] => m \in unseen'[u] PROVE Covered(u, m)'
  <2>1. InChannel(channel[home[u]], u, m) => Covered(u, m)'
    BY DEF Covered, InChannel
  <2>2. \A v \in Users : PromisedBy(v, u, m) => Covered(u, m)'
    <3> SUFFICES ASSUME NEW v \in Users, PromisedBy(v, u, m) PROVE Covered(u, m)'
      OBVIOUS
    <3>1. Steady(v)
      BY DEF PromisedBy
    <3> QED
      BY <3>1, PromiseKept
  <2>3. Kept(u, m)
    BY <1>2, <1>5, <2>1, <2>2 DEF Kept
  <2> QED
    BY <1>5, <2>3, CoverKept
<1> QED
  BY <1>2, <1>4, <1>5

\* A room that is entered is opened before its history comes.
LEMMA JoinCovers ==
    ASSUME TypeOK, TypeOK', Filed, Covering, NEW u \in Users, HandleJoinRoom(u)
    PROVE Filed' /\ Covering'
<1> DEFINE r == Head(out[u]).room
           p == Packet("ROOM_STATE", r, {})
<1>1. /\ u \in up /\ pc[u] = "read" /\ out[u] # <<>> /\ out' = [out EXCEPT ![u] = Tail(@)] /\ Head(out[u]).op = "JOIN_ROOM"
      /\ UNCHANGED <<view, up, home, session, channel, log, unseen, joined, misfiled, cut>>
  BY DEF HandleJoinRoom, client, history
<1>2. r \in Rooms
  BY <1>1, RequestTypes
<1>3. \A v \in Users : Busy(v) => Steady(v)
  BY <1>1, OthersSteady DEF Busy
<1>4. \A v \in Users : Served(v)
  BY AllServed
<1>5. \/ /\ inbox' = Sent(inbox, {u}, p) /\ pc' = [pc EXCEPT ![u] = "history"]
         /\ doing' = [doing EXCEPT ![u] = Head(out[u])]
      \/ UNCHANGED <<inbox, pc, doing>>
  BY DEF HandleJoinRoom
<1>6. p \in Answers /\ PacketFiled(p) /\ p.type = "ROOM_STATE" /\ p.room = r
  BY <1>2 DEF Packet, Answers, PacketFiled
<1>7. \/ inbox'[u] = Append(inbox[u], p) /\ pc'[u] = "history" /\ doing'[u].room = r
      \/ inbox'[u] = inbox[u] /\ pc'[u] = "read"
  BY <1>1, <1>5 DEF Sent, TypeOK, HandlerTypes
<1>8. ASSUME NEW v \in Users, v # u PROVE Served(v)'
  <2>1. inbox'[v] = inbox[v] /\ pc'[v] = pc[v] /\ doing'[v] = doing[v] /\ out'[v] = out[v]
    BY <1>1, <1>5, <1>8 DEF Sent, TypeOK, HandlerTypes, NetworkTypes
  <2>2. Aside(v)
    BY <1>1, <1>3, <2>1 DEF Aside
  <2> QED
    BY <1>4, <2>2, AsideServed
<1> HIDE DEF p, r
<1>9. Leaving(u) \subseteq Leaving(u)'
  BY <1>1, LeavingTaken
<1>10. /\ BoxFiled(inbox[u])'
       /\ GrowsTo(inbox[u], inbox'[u])
       /\ \A m \in 1 .. Len(log) : Covered(u, m) /\ (m \in unseen[u] => m \in unseen'[u]) => Covered(u, m)'
  BY <1>1, <1>3, <1>4, <1>6, <1>7, OwnPacketKeeps
<1>11. HistoryOpen(u)'
  <2>1. CASE inbox'[u] = Append(inbox[u], p) /\ doing'[u].room = r
    <3>1. /\ Len(inbox[u]) \in Nat /\ Len(inbox'[u]) = Len(inbox[u]) + 1 /\ inbox'[u][Len(inbox[u]) + 1] = p
      BY <1>6, <2>1, PacketAdded DEF TypeOK, NetworkTypes
    <3>2. Len(inbox[u]) + 1 \in 1 .. (Len(inbox'[u]) + 1) - 1
      BY <3>1
    <3>3. Opened(view'[u], inbox'[u], doing'[u].room, Len(inbox'[u]) + 1)
      BY <1>6, <2>1, <3>1, <3>2 DEF Opened
    <3> QED
      BY <3>3 DEF HistoryOpen, Opened, RoomsIn
  <2>2. CASE pc'[u] = "read"
    BY <2>2 DEF HistoryOpen
  <2> QED
    BY <1>7, <2>1, <2>2
<1>12. ASSUME u \notin cut', NEW m \in 1 .. Len(log), Owed(u, m)' PROVE Covered(u, m)'
  <2>1. Owed(u, m)
    BY <1>1, <1>9, <1>12 DEF Owed, Meant
  <2>2. Covered(u, m)
    BY <1>1, <1>4, <1>12, <2>1 DEF Served
  <2> QED
    BY <1>1, <1>10, <2>2
<1>13. Served(u)'
  BY <1>1, <1>10, <1>11, <1>12 DEF Served
<1> QED
  BY <1>8, <1>13, AllServedNext

\* What comes after one of the latest messages is among them.
LEMMA LatestAreLast ==
    ASSUME NEW n \in Nat, NEW ms \in SUBSET (1 .. n), NEW k \in Latest(ms), NEW m \in ms, m > k
    PROVE m \in Latest(ms)
<1> DEFINE after(i) == {j \in ms : j > i}
<1>1. IsFiniteSet(1 .. n)
  BY FS_Interval
<1>2. IsFiniteSet(ms)
  BY <1>1, FS_Subset
<1>3. IsFiniteSet(after(k))
  BY <1>2, FS_Subset
<1>4. m \in Nat /\ k \in Nat /\ \A j \in ms : j \in Nat
  BY DEF Latest
<1>5. after(m) \subseteq after(k)
  <2>1. \A j \in ms : j > m => j > k
    BY <1>4
  <2> QED
    BY <2>1
<1>6. IsFiniteSet(after(m)) /\ Cardinality(after(m)) <= Cardinality(after(k))
  BY <1>3, <1>5, FS_Subset
<1>7. Cardinality(after(m)) \in Nat /\ Cardinality(after(k)) \in Nat /\ HistoryLimit \in Nat
  BY <1>3, <1>6, FS_CardinalityType, ChatAssumption
<1>8. Cardinality(after(k)) < HistoryLimit
  BY DEF Latest
<1>9. Cardinality(after(m)) < HistoryLimit
  BY <1>6, <1>7, <1>8
<1> QED
  BY <1>9 DEF Latest

\* Who is sent a history has, of its room, what is in it; what is not in it is
\* older than all that is.
LEMMA HistoryCovers ==
    ASSUME TypeOK, TypeOK', Places, Filed, Covering, NEW u \in Users, SendHistory(u)
    PROVE Filed' /\ Covering'
<1> DEFINE r == doing[u].room
           all == GetHistory(r)
<1>1. /\ pc[u] = "history" /\ pc'[u] = "read" /\ r \in Rooms
      /\ \A v \in Users : v # u => pc'[v] = pc[v] /\ doing'[v] = doing[v] /\ joined'[v] = joined[v]
      /\ \A q \in joined'[u] : q \in joined[u] \/ (q = r /\ u \in up)
  BY HistoryPlaces
<1>2. UNCHANGED <<view, up, home, session, out, channel, log, misfiled, cut>>
  BY DEF SendHistory, client, server, leftover
<1>3. PICK found : /\ found = Latest(all) \/ found = {}
                   /\ inbox' = Sent(inbox, {u}, Packet("MESSAGE_HISTORY", r, found))
                   /\ unseen' = [unseen EXCEPT ![u] =
                                   (@ \ found) \cup
                                   (IF found = {} THEN all ELSE {m \in all : \A k \in found : m < k})]
  BY DEF SendHistory, GetHistory
<1> DEFINE p == Packet("MESSAGE_HISTORY", r, found)
<1>4. Len(log) \in Nat /\ all \in SUBSET (1 .. Len(log)) /\ found \subseteq all
      /\ \A m \in 1 .. Len(log) : m \in all <=> log[m].room = r
  <2>1. Len(log) \in Nat
    BY DEF TypeOK, ServerTypes
  <2>2. all \in SUBSET (1 .. Len(log)) /\ \A m \in 1 .. Len(log) : m \in all <=> log[m].room = r
    BY DEF GetHistory
  <2> HIDE DEF all
  <2>3. found \subseteq all
    BY <1>3 DEF Latest
  <2> QED
    BY <2>1, <2>2, <2>3
<1>5. p \in Answers /\ PacketFiled(p) /\ p.type = "MESSAGE_HISTORY" /\ p.room = r /\ p.messages = found
  BY <1>1, <1>4 DEF Packet, Answers, PacketFiled
<1> HIDE DEF p, all
<1>6. /\ \A v \in Users : v # u => inbox'[v] = inbox[v] /\ unseen'[v] = unseen[v]
      /\ inbox'[u] = IF u \in up THEN Append(inbox[u], p) ELSE inbox[u]
      /\ unseen'[u] = (unseen[u] \ found) \cup (IF found = {} THEN all ELSE {m \in all : \A k \in found : m < k})
  BY <1>3 DEF Sent, p, TypeOK, NetworkTypes, HistoryTypes
<1>7. \A v \in Users : Busy(v) => Steady(v)
  BY <1>1, OthersSteady DEF Busy
<1>8. \A v \in Users : Served(v)
  BY AllServed
<1>9. ASSUME NEW v \in Users, v # u PROVE Served(v)'
  <2>1. Aside(v)
    BY <1>1, <1>2, <1>6, <1>7, <1>9 DEF Aside
  <2> QED
    BY <1>8, <2>1, AsideServed
<1>10. HistoryOpen(u)'
  BY <1>1 DEF HistoryOpen
<1>11. ASSUME u \notin up PROVE Served(u)'
  <2>1. BoxFiled(inbox[u])'
    BY <1>2, <1>6, <1>8, <1>11 DEF Served, BoxFiled
  <2> QED
    BY <1>2, <1>10, <1>11, <2>1 DEF Served
<1>12. ASSUME u \in up PROVE Served(u)'
  <2>1. /\ BoxFiled(inbox[u])'
        /\ GrowsTo(inbox[u], inbox'[u])
        /\ \A m \in 1 .. Len(log) : Covered(u, m) /\ (m \in unseen[u] => m \in unseen'[u]) => Covered(u, m)'
    BY <1>2, <1>5, <1>6, <1>7, <1>8, <1>12, OwnPacketKeeps
  <2>2. Leaving(u)' = Leaving(u)
    BY <1>2 DEF Leaving
  <2>3. ASSUME u \notin cut', NEW m \in 1 .. Len(log), Owed(u, m)' PROVE Covered(u, m)'
    <3>1. CASE log[m].room # r
      <4>1. Owed(u, m) /\ m \notin found
        BY <1>1, <1>2, <1>4, <2>2, <2>3, <3>1 DEF Owed, Meant
      <4>2. Covered(u, m)
        BY <1>2, <1>8, <1>12, <2>3, <4>1 DEF Served
      <4> QED
        BY <1>6, <2>1, <4>1, <4>2
    <3>2. CASE log[m].room = r /\ m \in found
      <4>1. r \notin Leaving(u)
        BY <1>2, <2>2, <2>3, <3>2 DEF Owed
      <4>2. Opened(view[u], inbox[u], r, Len(inbox[u]) + 1)
        BY <1>1, <1>8, <1>12, <4>1 DEF Served, HistoryOpen
      <4>3. /\ Len(inbox[u]) + 1 \in 1 .. Len(inbox'[u]) /\ inbox'[u][Len(inbox[u]) + 1] = p
            /\ inbox[u] \in Seq(Answers) /\ inbox'[u] \in Seq(Answers)
        BY <1>5, <1>6, <1>12, PacketAdded DEF TypeOK, NetworkTypes
      <4>4. Len(inbox[u]) + 1 \in 1 .. Len(inbox[u]) + 1
        BY <4>3
      <4>5. Opened(view[u], inbox'[u], r, Len(inbox[u]) + 1)
        <5>1. \A i \in 1 .. Len(inbox[u]) + 1 : Opened(view[u], inbox[u], r, i) => Opened(view[u], inbox'[u], r, i)
          BY <2>1, <4>3, OpenedKept
        <5> QED
          BY <4>2, <4>4, <5>1
      <4>6. InBox(view[u], inbox'[u], r, m)
        BY <1>5, <3>2, <4>3, <4>5 DEF InBox
      <4> QED
        BY <1>2, <3>2, <4>6 DEF Covered, InBox, Opened, RoomsIn
    <3>3. CASE log[m].room = r /\ m \notin found
      <4>1. m \in all
        BY <1>4, <3>3
      <4>2. m \in unseen'[u]
        <5>1. CASE found = {}
          BY <1>6, <4>1, <5>1
        <5>2. CASE found # {}
          <6>1. found = Latest(all)
            BY <1>3, <5>2 DEF all
          <6>2. \A k \in found : ~(m > k) /\ m # k /\ k \in Nat /\ m \in Nat
            BY <1>4, <3>3, <4>1, <6>1, LatestAreLast
          <6>3. \A k \in found : m < k
            BY <6>2
          <6> QED
            BY <1>6, <4>1, <5>2, <6>3
        <5> QED
          BY <5>1, <5>2
      <4> QED
        BY <4>2 DEF Covered
    <3> QED
      BY <3>1, <3>2, <3>3
  <2> QED
    BY <1>2, <1>10, <2>1, <2>3 DEF Served
<1>13. Served(u)'
  BY <1>11, <1>12
<1> QED
  BY <1>9, <1>13, AllServedNext

\* A user whom a step of a handler, or of a server, sends something or nothing
Undisturbed(w) ==
    /\ view'[w] = view[w] /\ out'[w] = out[w] /\ misfiled'[w] = misfiled[w] /\ joined'[w] = joined[w]
    /\ log' = log /\ (w \in up' => w \in up) /\ cut' = cut
    /\ pc'[w] = "history" => pc[w] = "history" /\ doing'[w] = doing[w]
    /\ BoxFiled(inbox[w])' /\ GrowsTo(inbox[w], inbox'[w])

\* Such a user is served if what was covered still is.
LEMMA UndisturbedServed ==
    ASSUME TypeOK, TypeOK', NEW w \in Users, Served(w), Undisturbed(w),
           \A m \in 1 .. Len(log) : w \in up \ cut /\ Owed(w, m) /\ Covered(w, m) => Covered(w, m)'
    PROVE Served(w)'
<1>1. Leaving(w)' = Leaving(w) /\ BoxFiled(inbox[w])' /\ log' = log
  BY DEF Undisturbed, Leaving
<1>2. HistoryOpen(w)'
  <2> SUFFICES ASSUME w \in up', pc'[w] = "history", doing'[w].room \notin Leaving(w)'
               PROVE Opened(view'[w], inbox'[w], doing'[w].room, Len(inbox'[w]) + 1)
    BY DEF HistoryOpen, Opened, RoomsIn
  <2>1. w \in up /\ pc[w] = "history" /\ doing'[w] = doing[w] /\ view'[w] = view[w]
    BY DEF Undisturbed
  <2>2. Opened(view[w], inbox[w], doing[w].room, Len(inbox[w]) + 1)
    BY <1>1, <2>1 DEF Served, HistoryOpen
  <2>3. GrowsTo(inbox[w], inbox'[w]) /\ inbox[w] \in Seq(Answers) /\ inbox'[w] \in Seq(Answers)
    BY DEF Undisturbed, TypeOK, NetworkTypes
  <2>4. Opened(view[w], inbox'[w], doing[w].room, Len(inbox'[w]) + 1)
    BY <2>2, <2>3, OpenedKept
  <2> QED
    BY <2>1, <2>4
<1>3. ASSUME w \in up' \ cut', NEW m \in 1 .. Len(log), Owed(w, m)' PROVE Covered(w, m)'
  <2>1. w \in up \ cut /\ Owed(w, m)
    BY <1>1, <1>3 DEF Owed, Meant, Undisturbed
  <2>2. Covered(w, m)
    BY <2>1 DEF Served
  <2> QED
    BY <2>1, <2>2
<1> QED
  BY <1>1, <1>2, <1>3 DEF Served

\* A message that is in the last packet of a box is covered.
LEMMA ArrivedCovers ==
    ASSUME NEW w \in Users, NEW b \in Seq(Answers), NEW p \in Answers, NEW m, m \in p.messages,
           p.type = "CHAT_MESSAGE", inbox'[w] = Append(b, p)
    PROVE Covered(w, m)'
<1>1. Len(b) + 1 \in 1 .. Len(inbox'[w]) /\ inbox'[w][Len(b) + 1] = p
  BY PacketAdded
<1>2. \A v, r : InBox(v, inbox'[w], r, m)
  BY <1>1 DEF InBox
<1>3. InBox(view[w], inbox[w], log[m].room, m)'
  BY <1>2 DEF InBox, Opened, RoomsIn
<1> QED
  BY <1>3 DEF Covered

\* When a handler has found who is in the room, whoever is there and was to get
\* the message is found, unless an overtaken handler has taken it out; in a DM
\* room the other server's user is not, and so is to get it by way of Redis.
LEMMA FindCovers ==
    ASSUME TypeOK, TypeOK', Places, Storing, Echoing, Filed, Covering, NEW u \in Users, GetClients(u)
    PROVE Filed' /\ Covering'
<1>1. /\ pc[u] = "stored" /\ pc'[u] = "send" /\ doing' = doing /\ home[u] \in Servers /\ doing[u].room \in Rooms
      /\ \A v \in Users : <<v, session[v]>> \in targets'[u] <=> v \in clients[home[u]][doing[u].room]
      /\ UNCHANGED <<view, misfiled, joined, up, out, inbox, home, session, clients, log, channel, id, unseen, cut>>
  BY GetClientsStep DEF client, network, server, leftover, history
<1>2. \A v \in Users : v # u => Steady(v)
  BY OthersSteady
<1>3. \A v \in Users : Served(v)
  BY AllServed
<1>4. ASSUME NEW w \in Users PROVE Undisturbed(w)
  <2>1. BoxFiled(inbox[w])'
    BY <1>1, <1>3 DEF Served, BoxFiled
  <2>2. pc'[w] = "history" => pc[w] = "history" /\ doing'[w] = doing[w]
    BY <1>1, <1>2 DEF Steady
  <2> QED
    BY <1>1, <2>1, <2>2 DEF Undisturbed, GrowsTo
<1>5. ASSUME NEW w \in Users, NEW m \in 1 .. Len(log), w \in up \ cut, Owed(w, m), Covered(w, m)
      PROVE Covered(w, m)'
  <2>1. ASSUME PromisedBy(u, w, m) PROVE Covered(w, m)'
    <3> DEFINE r == doing[u].room
    <3>1. id[u] = m /\ log[m].room = r /\ Busy(u)
      BY <1>1, <2>1 DEF PromisedBy, Echoing, Echo
    <3>2. r \in joined[w]
      BY <1>5, <3>1 DEF Owed
    <3>3. w \in clients[home[w]][r] /\ home[w] \in Servers /\ home[u] \in Servers /\ r \in Rooms
      BY <1>1, <1>5, <3>2 DEF Places, TypeOK, NetworkTypes
    <3> HIDE DEF r
    <3>4. CASE home[w] = home[u]
      <4>1. <<w, session[w]>> \in targets'[u]
        BY <1>1, <3>3, <3>4 DEF r
      <4>2. PromisedBy(u, w, m)'
        BY <1>1, <3>1, <4>1 DEF PromisedBy, Busy
      <4> QED
        BY <4>2 DEF Covered, Promised
    <3>5. CASE home[w] # home[u]
      <4>1. r \in DmRooms
        <5>1. r \notin DmRooms => Pin[r] = home[w]
          BY <3>3 DEF Places
        <5>2. r \notin DmRooms => home[u] = Pin[r]
          BY <3>1 DEF Places, r
        <5> QED
          BY <3>5, <5>1, <5>2
      <4>2. PromisedBy(u, w, m)'
        BY <1>1, <3>1, <3>5, <4>1 DEF PromisedBy, Busy
      <4> QED
        BY <4>2 DEF Covered, Promised
    <3> QED
      BY <3>4, <3>5
  <2>2. \A v \in Users : PromisedBy(v, w, m) => Covered(w, m)'
    <3> SUFFICES ASSUME NEW v \in Users, PromisedBy(v, w, m), v # u PROVE Covered(w, m)'
      BY <2>1
    <3>1. Steady(v) /\ log'[m] = log[m] /\ session'[w] = session[w]
      BY <1>1, <1>2
    <3> QED
      BY <3>1, PromiseKept
  <2>3. InChannel(channel[home[w]], w, m) => Covered(w, m)'
    BY <1>1 DEF Covered, InChannel
  <2>4. Kept(w, m)
    BY <1>1, <2>2, <2>3 DEF Kept, GrowsTo
  <2> QED
    BY <1>5, <2>4, CoverKept
<1>6. \A w \in Users : Served(w)'
  BY <1>3, <1>4, <1>5, UndisturbedServed
<1> QED
  BY <1>6, AllServedNext

\* A delivery reaches all whom it was promised to: those in the room, and the
\* other user of a DM room, at once, by way of Redis, or not if that fails or if
\* an overtaken handler counts for it.
LEMMA DeliveryCovers ==
    ASSUME TypeOK, TypeOK', Storing, Echoing, Filed, Covering, NEW u \in Users, Deliver(u)
    PROVE Filed' /\ Covering'
<1> DEFINE r == doing[u].room
           n == id[u]
           p == Packet("CHAT_MESSAGE", r, {n})
<1>1. /\ pc[u] = "send" /\ home[u] \in Servers /\ r \in Rooms
      /\ pc' = [pc EXCEPT ![u] = "read"]
      /\ \A v \in Local(u) : home[v] = home[u]
      /\ \A v \in Remote(u) : v \notin cut => home[v] # home[u]
      /\ UNCHANGED <<client, up, home, session, out, clients, log, joined, misfiled, cut>>
  BY DeliverStep DEF leftover
<1>2. \/ /\ Push(u) \in Pushes /\ Push(u).to \in Remote(u) /\ Push(u).msg = n
         /\ \A t \in Servers : channel'[t] = IF t = home[u] THEN channel[t] ELSE Append(channel[t], Push(u))
      \/ /\ channel' = channel
         /\ \A v \in Remote(u) : n \in unseen'[v]
  BY DeliverStep
<1>02. \A v \in Users : unseen[v] \subseteq unseen'[v] /\ (v \in Lost(u) => n \in unseen'[v])
  BY DeliverStep
<1>3. Busy(u) /\ n \in 1 .. Len(log) /\ log[n].by = u /\ log[n].room = r
  BY <1>1 DEF Storing, Echoing, Echo, Busy
<1>4. p \in Answers /\ PacketFiled(p) /\ p.type = "CHAT_MESSAGE" /\ p.messages = {n}
  BY <1>1, <1>3 DEF Packet, Answers, PacketFiled, Storing
<1>5. \A w \in Users : inbox'[w] = IF w \in (There(u) \cup Local(u)) \cap up THEN Append(inbox[w], p) ELSE inbox[w]
  <2>1. inbox' = Sent(Sent(inbox, There(u), p), Local(u), p)
    BY DEF Deliver, There, Local, ToPush
  <2>2. There(u) \cap Local(u) = {}
    BY DeliverStep
  <2> HIDE DEF p
  <2> QED
    BY <2>1, <2>2 DEF Sent
<1>6. \A v \in Users : v # u => Steady(v)
  BY OthersSteady
<1>7. \A v \in Users : Served(v)
  BY AllServed
<1>8. UNCHANGED <<view, up, home, session, out, log, joined, misfiled, cut>>
  BY <1>1 DEF client
<1>9. \A w \in Users : inbox[w] \in Seq(Answers)
  BY DEF TypeOK, NetworkTypes
<1> HIDE DEF p, r, n
<1>10. ASSUME NEW w \in Users PROVE Undisturbed(w)
  <2>1. BoxFiled(inbox'[w]) /\ GrowsTo(inbox[w], inbox'[w])
    <3>1. BoxFiled(inbox[w])
      BY <1>7 DEF Served
    <3>2. CASE inbox'[w] = Append(inbox[w], p)
      BY <1>4, <1>9, <3>1, <3>2, PacketAdded
    <3>3. CASE inbox'[w] = inbox[w]
      BY <3>1, <3>3 DEF GrowsTo
    <3> QED
      BY <1>5, <3>2, <3>3
  <2>2. BoxFiled(inbox[w])'
    BY <1>8, <2>1 DEF BoxFiled
  <2>3. pc'[w] = "history" => pc[w] = "history" /\ doing'[w] = doing[w]
    <3>1. pc'[u] = "read"
      BY <1>1 DEF TypeOK, HandlerTypes
    <3> QED
      BY <1>6, <3>1 DEF Steady
  <2> QED
    BY <1>8, <2>1, <2>2, <2>3 DEF Undisturbed
<1>11. ASSUME NEW w \in Users, NEW m \in 1 .. Len(log), w \in up \ cut, Owed(w, m), Covered(w, m)
       PROVE Covered(w, m)'
  <2>1. ASSUME inbox'[w] = Append(inbox[w], p), m = n PROVE Covered(w, m)'
    BY <1>4, <1>9, <2>1, ArrivedCovers
  <2>2. home[w] \in Servers /\ home'[w] = home[w]
    BY <1>8, <1>11 DEF TypeOK, NetworkTypes
  <2>3. ASSUME PromisedBy(u, w, m) PROVE Covered(w, m)'
    <3>1. m = n
      BY <2>3 DEF PromisedBy, n
    <3>2. CASE <<w, session[w]>> \in targets[u]
      <4>1. w \in There(u)
        BY <3>2 DEF There
      <4> QED
        BY <1>5, <1>11, <2>1, <3>1, <4>1
    <3>3. CASE log[m].room \in DmRooms /\ u # w
      <4>1. r \in DmRooms /\ w \in Pair[r] /\ u \in Pair[r]
        BY <1>3, <1>11, <3>1, <3>3 DEF Owed, Meant
      <4>2. w \in Recipient(u, r)
        BY <3>3, <4>1 DEF Recipient
      <4>3. CASE w \in Local(u)
        BY <1>5, <1>11, <2>1, <3>1, <4>3
      <4>4. CASE w \in Remote(u)
        <5>1. \A v \in Remote(u) : v = w
          <6>1. \A v \in Remote(u) : v \in Pair[r] /\ v # u
            BY <4>1 DEF Remote, ToPush, Recipient, r
          <6>2. \A a, b \in Pair[r] : a # u /\ b # u => a = b
            BY <4>1, ChatAssumption
          <6> QED
            BY <3>3, <4>1, <6>1, <6>2
        <5>4. home[w] # home[u]
          BY <1>1, <1>11, <4>4
        <5>2. CASE n \in unseen'[w]
          BY <3>1, <5>2 DEF Covered
        <5>3. CASE /\ Push(u) \in Pushes /\ Push(u).to = w /\ Push(u).msg = n
                   /\ channel'[home[w]] = Append(channel[home[w]], Push(u))
          <6>1. channel[home[w]] \in Seq(Pushes)
            BY <2>2 DEF TypeOK, ServerTypes
          <6>2. /\ Len(channel[home[w]]) + 1 \in 1 .. Len(channel'[home[w]])
                /\ channel'[home[w]][Len(channel[home[w]]) + 1] = Push(u)
            BY <5>3, <6>1
          <6>3. InChannel(channel'[home[w]], w, m)
            BY <3>1, <5>3, <6>2 DEF InChannel
          <6> QED
            BY <2>2, <6>3 DEF Covered, InChannel
        <5> QED
          BY <1>2, <2>2, <4>4, <5>1, <5>4, <5>2, <5>3
      <4>5. CASE w \in There(u)
        BY <1>5, <1>11, <2>1, <3>1, <4>5
      <4>6. CASE w \in Lost(u)
        <5>1. n \in unseen'[w]
          BY <1>02, <4>6
        <5> QED
          BY <3>1, <5>1 DEF Covered
      <4> QED
        BY <4>2, <4>3, <4>4, <4>5, <4>6 DEF Lost, r
    <3> QED
      BY <1>1, <2>3, <3>2, <3>3 DEF PromisedBy
  <2>4. \A v \in Users : PromisedBy(v, w, m) => Covered(w, m)'
    <3> SUFFICES ASSUME NEW v \in Users, PromisedBy(v, w, m), v # u PROVE Covered(w, m)'
      BY <2>3
    <3>1. Steady(v) /\ log'[m] = log[m] /\ session'[w] = session[w]
      BY <1>6, <1>8
    <3> QED
      BY <3>1, PromiseKept
  <2>5. InChannel(channel[home[w]], w, m) => Covered(w, m)'
    <3>1. \A i \in 1 .. Len(channel[home[w]]) :
             i \in 1 .. Len(channel'[home[w]]) /\ channel'[home[w]][i] = channel[home[w]][i]
      BY <2>2, ChannelsAfterDelivery
    <3>2. InChannel(channel[home[w]], w, m) => InChannel(channel'[home[w]], w, m)
      BY <3>1 DEF InChannel
    <3> QED
      BY <2>2, <3>2 DEF Covered, InChannel
  <2>6. m \in unseen[w] => m \in unseen'[w]
    BY <1>02
  <2>7. Kept(w, m)
    BY <1>8, <1>10, <2>4, <2>5, <2>6 DEF Kept, Undisturbed
  <2> QED
    BY <1>11, <2>7, CoverKept
<1>12. \A w \in Users : Served(w)'
  BY <1>7, <1>10, <1>11, UndisturbedServed
<1> QED
  BY <1>12, AllServedNext

\* What comes by way of Redis goes to its user, if the user is here.
LEMMA DmMessageCovers ==
    ASSUME TypeOK, TypeOK', Sending, Filed, Covering, NEW s \in Servers, HandleDmMessage(s)
    PROVE Filed' /\ Covering'
<1>0. PICK d : d = Head(channel[s])
  OBVIOUS
<1>1. Takes(s, d)
  BY <1>0, DmMessageStep
<1>2. UNCHANGED <<view, misfiled, up, home, session, out, clients, log, pc, doing, id, targets, joined, unseen,
                  cut, unechoed>>
  BY DEF HandleDmMessage, handler, client, leftover
<1> DEFINE p == Packet("CHAT_MESSAGE", log[d.msg].room, {d.msg})
<1>3. p \in Answers /\ PacketFiled(p) /\ p.type = "CHAT_MESSAGE" /\ p.messages = {d.msg}
  <2>1. d.msg \in 1 .. Len(log) /\ log \in Seq(Entries)
    BY <1>1 DEF Takes, Sending, TypeOK, ServerTypes
  <2>2. log[d.msg] \in Entries
    BY <2>1
  <2>3. log[d.msg].room \in Rooms /\ d.msg \in Nat
    BY <2>1, <2>2 DEF Entries
  <2> QED
    BY <2>1, <2>3 DEF Packet, Answers, PacketFiled
<1>4. \A w \in Users : /\ inbox'[w] = inbox[w] \/ inbox'[w] = Append(inbox[w], p)
                       /\ w = d.to /\ home[w] = s /\ w \in up \ cut => inbox'[w] = Append(inbox[w], p)
  BY <1>1 DEF Takes, Sent, Registered
<1>5. \A v \in Users : Steady(v)
  BY <1>2 DEF Steady
<1>6. \A v \in Users : Served(v)
  BY AllServed
<1>7. \A w \in Users : inbox[w] \in Seq(Answers)
  BY DEF TypeOK, NetworkTypes
<1> HIDE DEF p
<1>8. ASSUME NEW w \in Users PROVE Undisturbed(w)
  <2>1. BoxFiled(inbox'[w]) /\ GrowsTo(inbox[w], inbox'[w])
    <3>1. BoxFiled(inbox[w])
      BY <1>6 DEF Served
    <3>2. CASE inbox'[w] = Append(inbox[w], p)
      BY <1>3, <1>7, <3>1, <3>2, PacketAdded
    <3>3. CASE inbox'[w] = inbox[w]
      BY <3>1, <3>3 DEF GrowsTo
    <3> QED
      BY <1>4, <3>2, <3>3
  <2>2. BoxFiled(inbox[w])'
    BY <1>2, <2>1 DEF BoxFiled
  <2> QED
    BY <1>2, <2>1, <2>2 DEF Undisturbed
<1>9. ASSUME NEW w \in Users, NEW m \in 1 .. Len(log), w \in up \ cut, Owed(w, m), Covered(w, m)
      PROVE Covered(w, m)'
  <2>1. home[w] \in Servers /\ home'[w] = home[w]
    BY <1>2, <1>9 DEF TypeOK, NetworkTypes
  <2>2. ASSUME InChannel(channel[home[w]], w, m) PROVE Covered(w, m)'
    <3>1. PICK i \in 1 .. Len(channel[home[w]]) : channel[home[w]][i].to = w /\ channel[home[w]][i].msg = m
      BY <2>2 DEF InChannel
    <3>2. CASE home[w] # s
      BY <1>1, <2>1, <2>2, <3>2 DEF Takes, Covered, InChannel
    <3>3. CASE home[w] = s /\ i = 1
      <4>1. d.to = w /\ d.msg = m
        BY <1>1, <3>1, <3>3 DEF Takes
      <4> QED
        BY <1>3, <1>4, <1>7, <1>9, <3>3, <4>1, ArrivedCovers
    <3>4. CASE home[w] = s /\ i # 1
      <4>1. PICK j \in 1 .. Len(channel'[s]) : channel'[s][j] = channel[s][i]
        <5>1. Len(channel[s]) \in Nat /\ Len(channel'[s]) = Len(channel[s]) - 1
          BY <1>1 DEF Takes
        <5>2. i - 1 \in 1 .. Len(channel'[s]) /\ (i - 1) + 1 = i
          BY <3>4, <5>1
        <5>3. channel'[s][i - 1] = channel[s][i]
          BY <1>1, <5>2 DEF Takes
        <5> QED
          BY <5>2, <5>3
      <4>2. InChannel(channel'[s], w, m)
        BY <3>1, <3>4, <4>1 DEF InChannel
      <4> QED
        BY <2>1, <3>4, <4>2 DEF Covered, InChannel
    <3> QED
      BY <3>2, <3>3, <3>4
  <2>3. \A v \in Users : PromisedBy(v, w, m) => Covered(w, m)'
    BY <1>2, <1>5, PromiseKept
  <2>4. Kept(w, m)
    BY <1>2, <1>8, <2>2, <2>3 DEF Kept, Undisturbed
  <2> QED
    BY <1>9, <2>4, CoverKept
<1>10. \A w \in Users : Served(w)'
  BY <1>6, <1>8, <1>9, UndisturbedServed
<1> QED
  BY <1>10, AllServedNext

\* No step loses a message on its way.
LEMMA CoveringKept ==
    ASSUME TypeOK, TypeOK', Storing, Sending, Echoing, Places, Filed, Covering, [Next]_vars
    PROVE Filed' /\ Covering'
<1>1. ASSUME Calm, log' = log PROVE Filed' /\ Covering'
  BY <1>1, CalmCovers DEF Covering
<1>2. ASSUME NEW u \in Users,
             \/ \E r \in Rooms : OnJoinRoom(u, r) \/ OnRoomSelected(u, r)
             \/ OnSend(u) \/ Lose(u)
      PROVE Filed' /\ Covering'
  BY <1>1, <1>2, ClientsAreCalm
<1>3. ASSUME NEW u \in Users,
             \/ Cleanup(u) \/ HandleLeaveRoom(u)
             \/ \E s \in Servers : Reconnect(u, s) \/ CleanupOld(u, s)
      PROVE Filed' /\ Covering'
  BY <1>1, <1>3, HandlersAreCalm
<1>4. ASSUME NEW u \in Users, OnLeaveRoom(u) PROVE Filed' /\ Covering'
  BY <1>4, LeaveCovers
<1>5. ASSUME NEW u \in Users, HandlePacket(u) PROVE Filed' /\ Covering'
  BY <1>5, PacketCovers
<1>6. ASSUME NEW u \in Users, HandleJoinRoom(u) PROVE Filed' /\ Covering'
  BY <1>6, JoinCovers
<1>7. ASSUME NEW u \in Users, SendHistory(u) PROVE Filed' /\ Covering'
  BY <1>7, HistoryCovers
<1>8. ASSUME NEW u \in Users, HandleChatMessage(u) PROVE Filed' /\ Covering'
  BY <1>8, StoreCovers
<1>9. ASSUME NEW u \in Users, GetClients(u) PROVE Filed' /\ Covering'
  BY <1>9, FindCovers
<1>10. ASSUME NEW u \in Users, Deliver(u) PROVE Filed' /\ Covering'
  BY <1>10, DeliveryCovers
<1>11. ASSUME NEW s \in Servers, HandleDmMessage(s) PROVE Filed' /\ Covering'
  BY <1>11, DmMessageCovers
<1>12. CASE UNCHANGED vars
  <2>1. UNCHANGED <<view, channel, unseen, misfiled, log, inbox, up, joined, home, session, pc, doing, out, id,
                    targets, clients, cut, unechoed>>
    BY <1>12 DEF vars, client, network, server, leftover, handler, history
  <2>2. Calm
    BY <2>1 DEF Calm, LogGrows, Leaving, Steady
  <2> QED
    BY <1>1, <2>1, <2>2
<1> QED
  BY <1>2, <1>3, <1>4, <1>5, <1>6, <1>7, <1>8, <1>9, <1>10, <1>11, <1>12 DEF Next

\* What is covered is seen, coming, or known to be unseen.
LEMMA CoveredIsSeen == ASSUME TypeOK, Covering PROVE JoinedSeeAll
<1> SUFFICES ASSUME NEW u \in up \ cut, NEW m \in 1 .. Len(log), Owed(u, m)
             PROVE m \in Shown(u) \cup Coming(u) \cup unseen[u]
  BY DEF JoinedSeeAll, Owed
<1>1. u \in Users /\ home[u] \in Servers
  BY DEF TypeOK, NetworkTypes
<1>2. Covered(u, m)
  BY DEF Covering
<1>3. view[u] \in Seq(Panels) /\ inbox[u] \in Seq(Answers) /\ channel[home[u]] \in Seq(Pushes)
  BY <1>1 DEF TypeOK, PanelTypes, NetworkTypes, ServerTypes
<1>4. /\ DOMAIN view[u] = 1 .. Len(view[u]) /\ DOMAIN inbox[u] = 1 .. Len(inbox[u])
      /\ DOMAIN channel[home[u]] = 1 .. Len(channel[home[u]])
  BY <1>3
<1>5. CASE InPanel(view[u], log[m].room, m)
  BY <1>4, <1>5 DEF InPanel, Shown
<1>6. CASE InBox(view[u], inbox[u], log[m].room, m)
  BY <1>4, <1>6 DEF InBox, Coming
<1>7. CASE InChannel(channel[home[u]], u, m)
  <2>1. PICK i \in DOMAIN channel[home[u]] : channel[home[u]][i].to = u /\ channel[home[u]][i].msg = m
    BY <1>4, <1>7 DEF InChannel
  <2> DEFINE pushes == UNION {{channel[s][j] : j \in DOMAIN channel[s]} : s \in Servers}
  <2>2. channel[home[u]][i] \in pushes
    BY <1>1
  <2> HIDE DEF pushes
  <2>3. m \in {d.msg : d \in {e \in pushes : e.to = u}}
    BY <2>1, <2>2
  <2> QED
    BY <2>3 DEF Coming, pushes
<1>8. CASE Promised(u, m)
  <2>1. m \in {id[v] : v \in Users}
    BY <1>8 DEF Promised, PromisedBy
  <2> QED
    BY <2>1 DEF Coming
<1> QED
  BY <1>2, <1>5, <1>6, <1>7, <1>8 DEF Covered

\* JoinedSeeAll: between the history of a room and its live messages there is
\* no gap, however joins, messages, losses, moves and failures are interleaved,
\* for a client that no overtaken handler of its own has taken out of the tables.
THEOREM JoinedMissNothing == Spec => []JoinedSeeAll
<1> DEFINE All == TypeOK /\ Storing /\ Sending /\ Echoing /\ SenderSees /\ Places /\ Filed /\ Covering
<1>1. Init => All
  BY AtTheStart DEF Init, SenderSees
<1>2. Once /\ Once' /\ All /\ [Next]_vars => All'
  <2> SUFFICES ASSUME Once, Once', All, [Next]_vars PROVE All'
    OBVIOUS
  <2>1. TypeOK' /\ Storing' /\ Sending'
    BY DEF Once
  <2>2. Echoing' /\ SenderSees'
    BY EchoingKept
  <2>3. Places'
    BY PlacesKept
  <2>4. Filed' /\ Covering'
    BY <2>1, CoveringKept
  <2> QED
    BY <2>1, <2>2, <2>3, <2>4
<1>3. All => JoinedSeeAll
  BY CoveredIsSeen
<1> HIDE DEF All
<1> QED
  BY <1>1, <1>2, <1>3, OnceHolds, PTL DEF Spec
=============================================================================
