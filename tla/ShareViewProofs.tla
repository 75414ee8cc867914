-------------------------- MODULE ShareViewProofs ---------------------------
(***************************************************************************)
(* Proofs about ShareView, for any number of users, clicks and events:     *)
(* no input is executed without consent, whoever shares captures, windows  *)
(* show the share there is, the variables are well-typed, and the share is *)
(* a floor as in Floor.                                                    *)
(***************************************************************************)
EXTENDS ShareView, TLAPS

\* What the argument needs to know of the types
ClientTypes ==
    /\ starts \in [Users -> Nat]
    /\ said \in [Users -> SUBSET (Nat \X Someone)]
    /\ dialog \in [Users -> Seq(Someone)]
    /\ out \in [Users -> Seq(Packet)]
    /\ inbox \in [Users -> Seq(Packet)]

ServerTypes ==
    /\ sharer \in Someone /\ controller \in Someone
    /\ share \in Nat /\ version \in Nat
    /\ members \subseteq Users /\ todo \in [Users -> SUBSET Users]
    /\ DOMAIN pc = Users /\ DOMAIN msg = Users /\ DOMAIN executed = Users
    /\ \A u \in Users : pc[u] \notin Idle => msg[u] \in Packet

server == <<members, sharer, controller, share, version, pc, msg, todo, executed>>

\* What a step of u's client does: it leaves the server alone and executes
\* nothing, it takes no yes back, and it takes at most one packet.
ServerIdle == UNCHANGED server
MoreSaid == \A w \in Users : said[w] \subseteq said'[w]
TakesOne(u) ==
    \/ inbox' = inbox
    \/ inbox[u] # <<>> /\ inbox' = [inbox EXCEPT ![u] = Tail(inbox[u])]

\* u has said yes to v, in its n-th share or a later one.
Consented(u, n, v) == \E y \in said[u] : y[1] >= n /\ y[2] = v

\* The packets s of a client that has tried to start k shares and has said the
\* yeses Y: a grant is one of the yeses, is not older than the share that was
\* started before it, and not older than the share low.
Grants(s, k, Y, low) ==
    /\ \A i \in 1 .. Len(s) :
          /\ s[i].op = "SCREEN_START" => s[i].n <= k
          /\ s[i].op = "REMOTE_GRANT" => low <= s[i].n
          /\ s[i].op = "REMOTE_GRANT" /\ s[i].user # NoUser => <<s[i].n, s[i].user>> \in Y
    /\ \A i, j \in 1 .. Len(s) :
          i < j /\ s[i].op = "SCREEN_START" /\ s[j].op = "REMOTE_GRANT" => s[i].n <= s[j].n

ShareOf(u) == IF sharer = u THEN share ELSE 0

\* Whoever has the control has the consent of the sharer in this share, and so
\* will those to whom the grants under way give it.
ControlAllowed ==
    /\ controller # NoUser => sharer # NoUser /\ Consented(sharer, share, controller)
    /\ \A u \in Users : ShareOf(u) <= starts[u] /\ Grants(out[u], starts[u], said[u], ShareOf(u))

\* Input on its way to a user was let pass with the consent of that user.
EventsAllowed ==
    /\ \A w \in Users : msg[w].op = "REMOTE_EVENT" =>
          /\ pc[w] = "send"
          /\ \A v \in todo[w] : Consented(v, msg[w].n, msg[w].user)
    /\ \A u \in Users : \A i \in 1 .. Len(inbox[u]) :
          inbox[u][i].op = "REMOTE_EVENT" => Consented(u, inbox[u][i].n, inbox[u][i].user)

-----------------------------------------------------------------------------
(* Packets on their way to the server *)

\* Packets have numbers.
LEMMA PacketNumber == \A p \in Packet : p.n \in Nat /\ p.user \in Someone /\ p.op \in Ops
BY DEF Packet

\* A packet that is neither a start nor a grant, or is of the last share and
\* was said yes to, may follow.
LEMMA GrantsAppend ==
    ASSUME NEW s \in Seq(Packet), NEW k \in Nat, NEW l \in Nat, k <= l, NEW Y, NEW Z, Y \subseteq Z,
           NEW low \in Nat, low <= l, Grants(s, k, Y, low), NEW p \in Packet,
           p.op \in {"SCREEN_START", "REMOTE_GRANT"} => p.n = l,
           p.op = "REMOTE_GRANT" /\ p.user # NoUser => <<p.n, p.user>> \in Z
    PROVE Append(s, p) \in Seq(Packet) /\ Grants(Append(s, p), l, Z, low)
<1> DEFINE t == Append(s, p)
<1>1. /\ t \in Seq(Packet) /\ Len(t) = Len(s) + 1 /\ Len(s) \in Nat
      /\ \A i \in 1 .. Len(s) : t[i] = s[i] /\ s[i] \in Packet
      /\ t[Len(s) + 1] = p
  OBVIOUS
<1> HIDE DEF t
<1>2. \A i \in 1 .. Len(s) : s[i].n \in Nat
  BY <1>1, PacketNumber
<1>3. ASSUME NEW i \in 1 .. Len(t)
      PROVE /\ t[i].op = "SCREEN_START" => t[i].n <= l
            /\ t[i].op = "REMOTE_GRANT" => low <= t[i].n
            /\ t[i].op = "REMOTE_GRANT" /\ t[i].user # NoUser => <<t[i].n, t[i].user>> \in Z
  <2>1. CASE i \in 1 .. Len(s)
    BY <1>1, <1>2, <2>1 DEF Grants
  <2>2. CASE i = Len(s) + 1
    <3>1. t[i] = p
      BY <1>1, <2>2
    <3>2. p.n \in Nat
      BY PacketNumber
    <3> QED
      BY <3>1, <3>2
  <2> QED
    BY <1>1, <1>3, <2>1, <2>2
<1>4. ASSUME NEW i \in 1 .. Len(t), NEW j \in 1 .. Len(t), i < j,
             t[i].op = "SCREEN_START", t[j].op = "REMOTE_GRANT"
      PROVE t[i].n <= t[j].n
  <2>1. i \in 1 .. Len(s)
    BY <1>1, <1>4
  <2>2. CASE j \in 1 .. Len(s)
    BY <1>1, <1>4, <2>1, <2>2 DEF Grants
  <2>3. CASE j = Len(s) + 1
    <3>1. t[j].n = l
      BY <1>1, <1>4, <2>3
    <3> QED
      BY <1>3, <1>4, <3>1
  <2> QED
    BY <1>1, <1>4, <2>2, <2>3
<1> QED
  BY <1>1, <1>3, <1>4 DEF Grants, t

\* The packet the server takes: the ones after it are no older than the share
\* it starts.
LEMMA GrantsTail ==
    ASSUME NEW s \in Seq(Packet), s # <<>>, NEW k \in Nat, NEW Y, NEW low \in Nat, Grants(s, k, Y, low)
    PROVE /\ s[1] \in Packet /\ Tail(s) \in Seq(Packet)
          /\ Grants(Tail(s), k, Y, low) /\ Grants(Tail(s), k, Y, 0)
          /\ s[1].op = "SCREEN_START" => s[1].n <= k /\ Grants(Tail(s), k, Y, s[1].n)
          /\ s[1].op = "REMOTE_GRANT" => low <= s[1].n
          /\ s[1].op = "REMOTE_GRANT" /\ s[1].user # NoUser => <<s[1].n, s[1].user>> \in Y
<1> DEFINE t == Tail(s)
<1>1. /\ t \in Seq(Packet) /\ Len(t) = Len(s) - 1 /\ Len(s) \in Nat /\ 1 \in 1 .. Len(s)
      /\ \A i \in 1 .. Len(t) : t[i] = s[i + 1] /\ i + 1 \in 1 .. Len(s) /\ 1 < i + 1
      /\ \A i \in 1 .. Len(s) : s[i] \in Packet
  OBVIOUS
<1> HIDE DEF t
<1>2. \A i \in 1 .. Len(t) : t[i].n \in Nat
  BY <1>1, PacketNumber
<1>3. Grants(t, k, Y, low)
  <2>1. ASSUME NEW i \in 1 .. Len(t), NEW j \in 1 .. Len(t), i < j,
               t[i].op = "SCREEN_START", t[j].op = "REMOTE_GRANT"
        PROVE t[i].n <= t[j].n
    <3>1. i + 1 < j + 1 /\ i + 1 \in 1 .. Len(s) /\ j + 1 \in 1 .. Len(s)
          /\ t[i] = s[i + 1] /\ t[j] = s[j + 1]
      BY <1>1, <2>1
    <3> QED
      BY <2>1, <3>1 DEF Grants
  <2>2. \A i \in 1 .. Len(t) :
          /\ t[i].op = "SCREEN_START" => t[i].n <= k
          /\ t[i].op = "REMOTE_GRANT" => low <= t[i].n
          /\ t[i].op = "REMOTE_GRANT" /\ t[i].user # NoUser => <<t[i].n, t[i].user>> \in Y
    BY <1>1 DEF Grants
  <2> QED
    BY <2>1, <2>2 DEF Grants
<1>4. Grants(t, k, Y, 0)
  BY <1>1, <1>2, <1>3 DEF Grants
<1>5. ASSUME s[1].op = "SCREEN_START" PROVE s[1].n <= k /\ Grants(t, k, Y, s[1].n)
  <2>1. \A i \in 1 .. Len(t) : t[i].op = "REMOTE_GRANT" => s[1].n <= t[i].n
    BY <1>1, <1>5 DEF Grants
  <2> QED
    BY <1>1, <1>3, <1>5, <2>1 DEF Grants
<1> QED
  BY <1>1, <1>3, <1>4, <1>5 DEF Grants, t

-----------------------------------------------------------------------------
(* The steps of the clients *)

ConsentInv == ClientTypes /\ ServerTypes /\ ControlAllowed /\ EventsAllowed /\ ConsentNeeded

\* Yeses are not taken back.
LEMMA ConsentStays ==
    ASSUME NEW u, said[u] \subseteq said'[u], NEW n, NEW v, Consented(u, n, v)
    PROVE Consented(u, n, v)'
BY DEF Consented

\* Input on its way stays allowed while the server does nothing and a client
\* takes at most one packet.
LEMMA EventsStay ==
    ASSUME ClientTypes, ServerTypes, EventsAllowed, NEW u \in Users, UNCHANGED <<pc, msg, todo>>,
           MoreSaid, TakesOne(u)
    PROVE EventsAllowed' /\ inbox' \in [Users -> Seq(Packet)]
<1> USE DEF MoreSaid, TakesOne
<1>2. /\ inbox' \in [Users -> Seq(Packet)]
      /\ \A w \in Users : \A i \in 1 .. Len(inbox'[w]) :
            \E j \in 1 .. Len(inbox[w]) : inbox'[w][i] = inbox[w][j]
  <2>1. CASE inbox' = inbox
    BY <2>1 DEF ClientTypes
  <2>2. CASE inbox[u] # <<>> /\ inbox' = [inbox EXCEPT ![u] = Tail(@)]
    <3> DEFINE s == inbox[u]
    <3>1. s \in Seq(Packet) /\ s # <<>>
      BY <2>2 DEF ClientTypes
    <3> HIDE DEF s
    <3>2. /\ Tail(s) \in Seq(Packet)
          /\ \A i \in 1 .. Len(Tail(s)) : Tail(s)[i] = s[i + 1] /\ i + 1 \in 1 .. Len(s)
      BY <3>1
    <3>3. inbox'[u] = Tail(s) /\ \A w \in Users : w # u => inbox'[w] = inbox[w]
      BY <2>2 DEF ClientTypes, s
    <3>4. inbox' \in [Users -> Seq(Packet)]
      BY <2>2, <3>2 DEF ClientTypes, s
    <3>5. ASSUME NEW w \in Users, NEW i \in 1 .. Len(inbox'[w])
          PROVE \E j \in 1 .. Len(inbox[w]) : inbox'[w][i] = inbox[w][j]
      <4>1. CASE w = u
        <5>1. i \in 1 .. Len(Tail(s)) /\ inbox'[w] = Tail(s)
          BY <3>3, <3>5, <4>1
        <5>2. Tail(s)[i] = s[i + 1] /\ i + 1 \in 1 .. Len(s)
          BY <3>2, <5>1
        <5> QED
          BY <4>1, <5>1, <5>2 DEF s
      <4>2. CASE w # u
        BY <3>3, <3>5, <4>2
      <4> QED
        BY <4>1, <4>2
    <3> QED
      BY <3>4, <3>5
  <2> QED
    BY <2>1, <2>2
<1>3. ASSUME NEW w \in Users, msg'[w].op = "REMOTE_EVENT"
      PROVE pc'[w] = "send" /\ \A v \in todo'[w] : Consented(v, msg[w].n, msg[w].user)'
  <2>1. pc[w] = "send" /\ todo[w] \subseteq Users /\ \A v \in todo[w] : Consented(v, msg[w].n, msg[w].user)
    BY <1>3 DEF EventsAllowed, ServerTypes
  <2> QED
    BY <2>1 DEF Consented
<1>4. ASSUME NEW w \in Users, NEW i \in 1 .. Len(inbox'[w]), inbox'[w][i].op = "REMOTE_EVENT"
      PROVE Consented(w, inbox[w][i].n, inbox[w][i].user)'
  <2>1. PICK j \in 1 .. Len(inbox[w]) : inbox'[w][i] = inbox[w][j]
    BY <1>2
  <2>2. Consented(w, inbox[w][j].n, inbox[w][j].user)
    BY <1>4, <2>1 DEF EventsAllowed
  <2> QED
    BY <2>1, <2>2 DEF Consented
<1>5. EventsAllowed'
  BY <1>3, <1>4 DEF EventsAllowed
<1> QED
  BY <1>2, <1>5

\* What the server knows and has sent is still right.
Kept == ServerTypes' /\ EventsAllowed' /\ ConsentNeeded' /\ inbox' \in [Users -> Seq(Packet)]

\* The server and what it has sent are left alone by a step of a client that
\* takes at most one packet and executes nothing.
LEMMA ServerAside ==
    ASSUME ClientTypes, ServerTypes, EventsAllowed, ConsentNeeded, NEW u \in Users,
           ServerIdle, MoreSaid, TakesOne(u)
    PROVE Kept
<1>1. ServerTypes'
  BY DEF ServerTypes, server, ServerIdle
<1>2. UNCHANGED <<pc, msg, todo>>
  BY DEF server, ServerIdle
<1>3. EventsAllowed' /\ inbox' \in [Users -> Seq(Packet)]
  BY <1>2, EventsStay
<1>4. ConsentNeeded'
  BY DEF ConsentNeeded, server, ServerIdle, MoreSaid
<1> QED
  BY <1>1, <1>3, <1>4 DEF Kept

\* A client that posts a packet; the other clients post nothing.
LEMMA PostKeeps ==
    ASSUME ClientTypes, ServerTypes, ControlAllowed, ServerIdle,
           NEW u \in Users, NEW op \in Ops, NEW v \in Someone, Post(u, op, v),
           starts' = starts \/ starts' = [starts EXCEPT ![u] = @ + 1],
           said' = said \/ \E y \in Nat \X Someone : said' = [said EXCEPT ![u] = @ \cup {y}],
           op = "REMOTE_GRANT" /\ v # NoUser => <<starts'[u], v>> \in said'[u]
    PROVE out' \in [Users -> Seq(Packet)] /\ ControlAllowed'
<1> USE DEF ServerIdle
<1> DEFINE p == [op |-> op, sharer |-> u, user |-> v, n |-> starts'[u]]
<1>1. /\ starts' \in [Users -> Nat] /\ starts[u] \in Nat /\ starts'[u] \in Nat /\ starts[u] <= starts'[u]
      /\ \A w \in Users : w # u => starts'[w] = starts[w]
  <2>1. starts \in [Users -> Nat] /\ starts[u] \in Nat
    BY DEF ClientTypes
  <2>2. CASE starts' = starts
    BY <2>1, <2>2
  <2>3. CASE starts' = [starts EXCEPT ![u] = @ + 1]
    BY <2>1, <2>3
  <2> QED
    BY <2>2, <2>3
<1>2. /\ \A w \in Users : said[w] \subseteq said'[w]
      /\ \A w \in Users : w # u => said'[w] = said[w]
  <2>1. CASE said' = said
    BY <2>1
  <2>2. ASSUME NEW y, said' = [said EXCEPT ![u] = @ \cup {y}] PROVE (\A w \in Users : said[w] \subseteq said'[w]) /\ (\A w \in Users : w # u => said'[w] = said[w])
    BY <2>2 DEF ClientTypes
  <2> QED
    BY <2>1, <2>2
<1>3. p \in Packet /\ p.op = op /\ p.user = v /\ p.n = starts'[u]
  BY <1>1 DEF Packet, Someone
<1>4. out' = [out EXCEPT ![u] = Append(@, p)]
  BY DEF Post
<1> HIDE DEF p
<1>5. ShareOf(u) \in Nat /\ ShareOf(u) <= starts[u] /\ Grants(out[u], starts[u], said[u], ShareOf(u))
  BY DEF ControlAllowed, ShareOf, ServerTypes
<1>6. Append(out[u], p) \in Seq(Packet) /\ Grants(Append(out[u], p), starts'[u], said'[u], ShareOf(u))
  <2>1. out[u] \in Seq(Packet) /\ ShareOf(u) <= starts'[u]
    BY <1>1, <1>5 DEF ClientTypes
  <2> QED
    BY <1>1, <1>2, <1>3, <1>5, <2>1, GrantsAppend
<1>7. /\ out' \in [Users -> Seq(Packet)] /\ out'[u] = Append(out[u], p)
      /\ \A w \in Users : w # u => out'[w] = out[w]
  BY <1>4, <1>6 DEF ClientTypes
<1>8. \A w : ShareOf(w)' = ShareOf(w)
  BY DEF ShareOf, server
<1>9. ASSUME NEW w \in Users
      PROVE ShareOf(w) <= starts'[w] /\ Grants(out'[w], starts'[w], said'[w], ShareOf(w))
  <2>1. CASE w = u
    <3>1. ShareOf(u) <= starts'[u]
      BY <1>1, <1>5
    <3> QED
      BY <1>6, <1>7, <2>1, <3>1
  <2>2. CASE w # u
    BY <1>1, <1>2, <1>7, <2>2 DEF ControlAllowed
  <2> QED
    BY <2>1, <2>2
<1>10. controller' # NoUser => sharer' # NoUser /\ Consented(sharer, share, controller)'
  <2>1. sharer # NoUser => said[sharer] \subseteq said'[sharer]
    BY <1>2 DEF ServerTypes, Someone
  <2> QED
    BY <2>1 DEF ControlAllowed, Consented, server
<1> QED
  BY <1>7, <1>8, <1>9, <1>10 DEF ControlAllowed

\* A client that posts nothing
LEMMA NothingPosted ==
    ASSUME ClientTypes, ServerTypes, ControlAllowed, ServerIdle, UNCHANGED <<starts, out>>, MoreSaid
    PROVE ControlAllowed'
<1> USE DEF ServerIdle, MoreSaid
<1>1. \A w : ShareOf(w)' = ShareOf(w)
  BY DEF ShareOf, server
<1>2. \A w \in Users : Grants(out[w], starts[w], said'[w], ShareOf(w))
  BY DEF ControlAllowed, Grants
<1>3. controller' # NoUser => sharer' # NoUser /\ Consented(sharer, share, controller)'
  <2>1. sharer # NoUser => said[sharer] \subseteq said'[sharer]
    BY DEF ServerTypes, Someone
  <2> QED
    BY <2>1 DEF ControlAllowed, Consented, server
<1> QED
  BY <1>1, <1>2, <1>3 DEF ControlAllowed

\* Nothing but these matters of a client's step.
LEMMA ClientStep ==
    ASSUME ConsentInv, NEW u \in Users, ServerIdle, MoreSaid, TakesOne(u),
           starts' \in [Users -> Nat], said' \in [Users -> SUBSET (Nat \X Someone)],
           dialog' \in [Users -> Seq(Someone)], out' \in [Users -> Seq(Packet)], ControlAllowed'
    PROVE ConsentInv'
<1>1. Kept
  BY ServerAside DEF ConsentInv
<1> QED
  BY <1>1 DEF ConsentInv, ClientTypes, Kept

\* A step of a client that starts no share and says no yes, and posts at most
\* one packet.
LEMMA PlainStep ==
    ASSUME ConsentInv, NEW u \in Users, UNCHANGED <<relay, handler, version, consent>>, TakesOne(u),
           dialog' \in [Users -> Seq(Someone)],
           \/ UNCHANGED out
           \/ \E op \in Ops : \E v \in Someone : Post(u, op, v) /\ (op = "REMOTE_GRANT" => v = NoUser)
    PROVE ConsentInv'
<1>1. ServerIdle
  BY DEF relay, handler, consent, server, ServerIdle
<1>2. starts' = starts /\ said' = said
  BY DEF consent
<1>3. MoreSaid
  BY <1>2 DEF MoreSaid
<1>4. starts' \in [Users -> Nat] /\ said' \in [Users -> SUBSET (Nat \X Someone)]
  BY <1>2 DEF ConsentInv, ClientTypes
<1>5. CASE UNCHANGED out
  <2>1. ControlAllowed'
    BY <1>1, <1>2, <1>3, <1>5, NothingPosted DEF ConsentInv
  <2>2. out' \in [Users -> Seq(Packet)]
    BY <1>5 DEF ConsentInv, ClientTypes
  <2> QED
    BY <1>1, <1>3, <1>4, <2>1, <2>2, ClientStep
<1>6. ASSUME NEW op \in Ops, NEW v \in Someone, Post(u, op, v), op = "REMOTE_GRANT" => v = NoUser
      PROVE ConsentInv'
  <2>1. out' \in [Users -> Seq(Packet)] /\ ControlAllowed'
    BY <1>1, <1>2, <1>6, PostKeeps DEF ConsentInv
  <2> QED
    BY <1>1, <1>3, <1>4, <2>1, ClientStep
<1> QED
  BY <1>5, <1>6

\* The question on top is answered: a grant is posted with the yes, and with
\* the number of the share the user has started last.
LEMMA AnswerStep ==
    ASSUME ConsentInv, NEW u \in Users, NEW yes \in BOOLEAN, AnswerRequest(u, yes) PROVE ConsentInv'
<1> DEFINE v == dialog[u][Len(dialog[u])]
           w == IF yes THEN v ELSE NoUser
<1>1. /\ dialog[u] # <<>> /\ dialog' = [dialog EXCEPT ![u] = SubSeq(@, 1, Len(@) - 1)]
      /\ said' = IF yes THEN [said EXCEPT ![u] = @ \cup {<<starts[u], v>>}] ELSE said
      /\ starts' = starts /\ inbox' = inbox
      /\ IF u \in here THEN Post(u, "REMOTE_GRANT", w) ELSE UNCHANGED out
  BY DEF AnswerRequest, Granted
<1>2. ServerIdle
  BY DEF AnswerRequest, relay, handler, order, server, ServerIdle
<1>3. v \in Someone /\ dialog' \in [Users -> Seq(Someone)]
  <2>1. dialog[u] \in Seq(Someone) /\ Len(dialog[u]) \in 1 .. Len(dialog[u])
    BY <1>1 DEF ConsentInv, ClientTypes
  <2>2. SubSeq(dialog[u], 1, Len(dialog[u]) - 1) \in Seq(Someone)
    BY <2>1
  <2> QED
    BY <1>1, <2>1, <2>2 DEF ConsentInv, ClientTypes
<1> HIDE DEF v
<1>4. starts[u] \in Nat /\ <<starts[u], v>> \in Nat \X Someone /\ NoUser \in Someone
  BY <1>3 DEF ConsentInv, ClientTypes, Someone
<1>5. said' \in [Users -> SUBSET (Nat \X Someone)] /\ MoreSaid
  BY <1>1, <1>4 DEF ConsentInv, ClientTypes, MoreSaid
<1>6. w \in Someone /\ (w # NoUser => <<starts'[u], w>> \in said'[u])
  BY <1>1, <1>3, <1>4 DEF ConsentInv, ClientTypes
<1>7. said' = said \/ \E y \in Nat \X Someone : said' = [said EXCEPT ![u] = @ \cup {y}]
  BY <1>1, <1>4
<1> HIDE DEF w
<1>8. out' \in [Users -> Seq(Packet)] /\ ControlAllowed'
  <2>1. CASE u \in here
    <3>1. Post(u, "REMOTE_GRANT", w) /\ "REMOTE_GRANT" \in Ops
      BY <1>1, <2>1 DEF Ops
    <3> QED
      BY <1>1, <1>2, <1>6, <1>7, <3>1, PostKeeps DEF ConsentInv
  <2>2. CASE u \notin here
    <3>1. out' = out
      BY <1>1, <2>2
    <3>2. ControlAllowed'
      BY <1>1, <1>2, <1>5, <3>1, NothingPosted DEF ConsentInv
    <3> QED
      BY <3>1, <3>2 DEF ConsentInv, ClientTypes
  <2> QED
    BY <2>1, <2>2
<1>9. starts' \in [Users -> Nat] /\ TakesOne(u)
  BY <1>1 DEF ConsentInv, ClientTypes, TakesOne
<1> QED
  BY <1>2, <1>3, <1>5, <1>8, <1>9, ClientStep

\* Leaving the room posts packets that are neither starts nor grants.
LEMMA RoomLeft ==
    ASSUME ConsentInv, NEW u \in Users, NEW first, SetCurrentRoom(u, first),
           \/ first = <<>>
           \/ first = <<[op |-> "LEAVE_ROOM", sharer |-> u, user |-> NoUser, n |-> 0]>>
    PROVE ConsentInv'
<1> DEFINE stop == [op |-> "SCREEN_STOP", sharer |-> u, user |-> NoUser, n |-> starts[u]]
           left == [op |-> "LEAVE_ROOM", sharer |-> u, user |-> NoUser, n |-> 0]
           s == out[u] \o first
           t == s \o (IF u \in engine THEN <<stop>> ELSE <<>>)
           ok(x) == x \in Seq(Packet) /\ Grants(x, starts[u], said[u], ShareOf(u))
<1>1. out' = [out EXCEPT ![u] = t]
  BY DEF SetCurrentRoom
<1>2. ServerIdle /\ said' = said /\ starts' = starts /\ inbox' = inbox /\ dialog' = dialog
  BY DEF SetCurrentRoom, relay, handler, order, consent, server, ServerIdle
<1>3. /\ ok(out[u]) /\ starts[u] \in Nat /\ ShareOf(u) \in Nat /\ ShareOf(u) <= starts[u]
  BY DEF ConsentInv, ClientTypes, ControlAllowed, ShareOf, ServerTypes
<1>4. stop \in Packet /\ left \in Packet /\ stop.op = "SCREEN_STOP" /\ left.op = "LEAVE_ROOM"
  BY <1>3 DEF Packet, Ops, Someone
<1> HIDE DEF stop, left
<1>5. ASSUME NEW x, ok(x), NEW p \in {stop, left} PROVE ok(Append(x, p)) /\ Append(x, p) = x \o <<p>>
  <2>1. p \in Packet /\ p.op \notin {"SCREEN_START", "REMOTE_GRANT"} /\ x \in Seq(Packet)
    BY <1>4, <1>5
  <2>2. starts[u] <= starts[u] /\ said[u] \subseteq said[u]
    BY <1>3
  <2>3. ok(Append(x, p))
    BY <1>3, <1>5, <2>1, <2>2, GrantsAppend
  <2> QED
    BY <2>1, <2>3
<1>6. \A x \in Seq(Packet) : x \o <<>> = x
  OBVIOUS
<1>7. ok(s)
  <2>1. CASE first = <<>>
    BY <1>3, <1>6, <2>1
  <2>2. CASE first # <<>>
    <3>1. first = <<left>>
      BY <2>2 DEF left
    <3> HIDE DEF ok
    <3> QED
      BY <1>3, <1>5, <3>1
  <2> QED
    BY <2>1, <2>2
<1> HIDE DEF s
<1>8. ok(t)
  <2>1. CASE u \in engine
    <3> HIDE DEF ok
    <3> QED
      BY <1>5, <1>7, <2>1
  <2>2. CASE u \notin engine
    BY <1>6, <1>7, <2>2
  <2> QED
    BY <2>1, <2>2
<1> HIDE DEF t
<1>9. /\ out' \in [Users -> Seq(Packet)]
      /\ out'[u] = t /\ \A w \in Users : w # u => out'[w] = out[w]
  BY <1>1, <1>8 DEF ConsentInv, ClientTypes
<1>10. \A w : ShareOf(w)' = ShareOf(w)
  BY <1>2 DEF ShareOf, server, ServerIdle
<1>11. ControlAllowed'
  <2>1. controller' # NoUser => sharer' # NoUser /\ Consented(sharer, share, controller)'
    BY <1>2 DEF ConsentInv, ControlAllowed, Consented, server, ServerIdle
  <2>2. ASSUME NEW w \in Users
        PROVE ShareOf(w) <= starts[w] /\ Grants(out'[w], starts[w], said[w], ShareOf(w))
    BY <1>8, <1>9 DEF ConsentInv, ControlAllowed
  <2> QED
    BY <1>2, <1>10, <2>1, <2>2 DEF ControlAllowed
<1>12. MoreSaid /\ TakesOne(u)
  BY <1>2 DEF MoreSaid, TakesOne
<1>13. starts' \in [Users -> Nat] /\ said' \in [Users -> SUBSET (Nat \X Someone)]
       /\ dialog' \in [Users -> Seq(Someone)]
  BY <1>2 DEF ConsentInv, ClientTypes
<1> QED
  BY <1>2, <1>9, <1>11, <1>12, <1>13, ClientStep

\* A share is started, with the next number.
LEMMA StartStep == ASSUME ConsentInv, NEW u \in Users, StartScreenShare(u) PROVE ConsentInv'
<1>1. /\ starts' = [starts EXCEPT ![u] = @ + 1] /\ Post(u, "SCREEN_START", NoUser)
      /\ said' = said /\ inbox' = inbox /\ dialog' = dialog
  BY DEF StartScreenShare
<1>2. ServerIdle
  BY DEF StartScreenShare, relay, handler, order, server, ServerIdle
<1>3. "SCREEN_START" \in Ops /\ NoUser \in Someone
  BY DEF Ops, Someone
<1>4. out' \in [Users -> Seq(Packet)] /\ ControlAllowed'
  BY <1>1, <1>2, <1>3, PostKeeps DEF ConsentInv
<1>5. MoreSaid /\ TakesOne(u)
  BY <1>1 DEF MoreSaid, TakesOne
<1>6. starts' \in [Users -> Nat] /\ said' \in [Users -> SUBSET (Nat \X Someone)]
       /\ dialog' \in [Users -> Seq(Someone)]
  BY <1>1 DEF ConsentInv, ClientTypes
<1> QED
  BY <1>2, <1>4, <1>5, <1>6, ClientStep

\* The steps of a client keep the invariant.
LEMMA ClientsStep ==
    ASSUME ConsentInv, NEW u \in Users,
           Clicks(u) \/ EngineFails(u) \/ OnEngineStopped(u)
    PROVE ConsentInv'
<1>1. NoUser \in Someone /\ u \in Someone
  BY DEF Someone
<1>2. inbox' = inbox => TakesOne(u)
  BY DEF TakesOne
<1>3. dialog' = dialog => dialog' \in [Users -> Seq(Someone)]
  BY DEF ConsentInv, ClientTypes
<1>4. CASE OnStopClicked(u)
  BY <1>1, <1>2, <1>3, <1>4, PlainStep DEF OnStopClicked, order, Ops
<1>5. CASE OnRequestClicked(u)
  BY <1>1, <1>2, <1>3, <1>5, PlainStep DEF OnRequestClicked, order, window, Ops
<1>6. CASE OnRevokeClicked(u)
  BY <1>1, <1>2, <1>3, <1>6, PlainStep DEF OnRevokeClicked, order, Ops
<1>7. CASE SelectRoom(u)
  BY <1>1, <1>2, <1>3, <1>7, PlainStep DEF SelectRoom, order
<1>8. CASE JoinRoom(u)
  BY <1>1, <1>2, <1>3, <1>8, PlainStep DEF JoinRoom, order, window, Ops
<1>9. CASE EventFilter(u)
  BY <1>1, <1>2, <1>3, <1>9, PlainStep DEF EventFilter, order, window, Ops
<1>10. CASE EngineFails(u)
  BY <1>2, <1>3, <1>10, PlainStep DEF EngineFails, order
<1>11. CASE OnEngineStopped(u)
  BY <1>1, <1>2, <1>3, <1>11, PlainStep DEF OnEngineStopped, order, Ops
<1>12. CASE SelectOther(u)
  BY <1>12, RoomLeft DEF SelectOther
<1>13. CASE LeaveRoom(u)
  BY <1>13, RoomLeft DEF LeaveRoom
<1> QED
  BY <1>4, <1>5, <1>6, <1>7, <1>8, <1>9, <1>10, <1>11, <1>12, <1>13, StartStep, AnswerStep DEF Clicks

-----------------------------------------------------------------------------
(* The window handles a packet *)

\* The packet a window takes is a packet.
LEMMA FirstPacket ==
    ASSUME ClientTypes, NEW u \in Users, NEW op, Takes(u, op)
    PROVE /\ inbox[u] \in Seq(Packet) /\ 1 \in 1 .. Len(inbox[u]) /\ inbox[u][1] \in Packet
          /\ inbox[u][1].user \in Someone /\ inbox[u][1].op = op /\ TakesOne(u)
<1>1. inbox[u] \in Seq(Packet) /\ inbox[u] # <<>>
  BY DEF Takes, ClientTypes
<1>2. 1 \in 1 .. Len(inbox[u]) /\ inbox[u][1] \in Packet
  BY <1>1
<1>3. inbox[u][1].user \in Someone
  BY <1>2, PacketNumber
<1>4. inbox' = [inbox EXCEPT ![u] = Tail(inbox[u])] /\ inbox[u][1].op = op
  BY DEF Takes
<1> QED
  BY <1>1, <1>2, <1>3, <1>4 DEF TakesOne

\* What is executed was let pass with consent; nothing else adds to it.
LEMMA ExecuteStep == ASSUME ConsentInv, NEW u \in Users, OnRemoteEvent(u) PROVE ConsentInv'
<1> DEFINE e == inbox[u][1]
<1>1. /\ Takes(u, "REMOTE_EVENT")
      /\ executed' = executed \/ executed' = [executed EXCEPT ![u] = @ \cup {<<e.n, e.user>>}]
  BY DEF OnRemoteEvent, Execute
<1>2. UNCHANGED <<members, sharer, controller, share, version, pc, msg, todo, starts, said, dialog, out>>
  BY DEF OnRemoteEvent, relay, handler, order, window
<1>3. 1 \in 1 .. Len(inbox[u]) /\ e.op = "REMOTE_EVENT" /\ TakesOne(u)
  BY <1>1, FirstPacket DEF ConsentInv
<1>4. \E y \in said[u] : y[1] >= e.n /\ y[2] = e.user
  BY <1>3 DEF ConsentInv, EventsAllowed, Consented
<1> HIDE DEF e
<1>5. ConsentNeeded'
  <2>1. ASSUME NEW w \in Users, NEW x \in executed'[w]
        PROVE \E y \in said[w] : y[1] >= x[1] /\ y[2] = x[2]
    <3>1. CASE x \in executed[w]
      BY <3>1 DEF ConsentInv, ConsentNeeded
    <3>2. CASE x \notin executed[w]
      <4>1. w = u /\ x = <<e.n, e.user>>
        BY <1>1, <2>1, <3>2 DEF ConsentInv, ServerTypes
      <4> QED
        BY <1>4, <4>1
    <3> QED
      BY <3>1, <3>2
  <2> QED
    BY <1>2, <2>1 DEF ConsentNeeded
<1>6. DOMAIN executed' = Users
  BY <1>1 DEF ConsentInv, ServerTypes
<1>7. EventsAllowed' /\ inbox' \in [Users -> Seq(Packet)]
  <2>1. UNCHANGED <<pc, msg, todo>> /\ MoreSaid
    BY <1>2 DEF MoreSaid
  <2> QED
    BY <1>3, <2>1, EventsStay DEF ConsentInv
<1>8. ControlAllowed'
  BY <1>2 DEF ConsentInv, ControlAllowed, ShareOf, Consented
<1>9. ServerTypes' /\ ClientTypes'
  BY <1>2, <1>6, <1>7 DEF ConsentInv, ServerTypes, ClientTypes
<1> QED
  BY <1>5, <1>7, <1>8, <1>9 DEF ConsentInv

\* What the window does with a packet keeps the invariant.
LEMMA WindowStep == ASSUME ConsentInv, NEW u \in Users, Window(u) PROVE ConsentInv'
<1>1. NoUser \in Someone /\ "REMOTE_GRANT" \in Ops
  BY DEF Someone, Ops
<1>2. \A op : Takes(u, op) => inbox[u][1].user \in Someone /\ TakesOne(u)
  BY FirstPacket DEF ConsentInv
<1>3. dialog' = dialog => dialog' \in [Users -> Seq(Someone)]
  BY DEF ConsentInv, ClientTypes
<1>4. CASE OnScreenStart(u)
  BY <1>2, <1>3, <1>4, PlainStep DEF OnScreenStart, order
<1>5. CASE OnScreenStop(u)
  BY <1>2, <1>3, <1>5, PlainStep DEF OnScreenStop, order
<1>6. CASE OnRemoteRequest(u)
  <2>1. inbox[u][1].user \in Someone /\ TakesOne(u)
    BY <1>2, <1>6 DEF OnRemoteRequest
  <2>2. dialog' \in [Users -> Seq(Someone)]
    <3>1. dialog' = dialog \/ dialog' = [dialog EXCEPT ![u] = Append(@, inbox[u][1].user)]
      BY <1>6 DEF OnRemoteRequest
    <3>2. dialog \in [Users -> Seq(Someone)] /\ Append(dialog[u], inbox[u][1].user) \in Seq(Someone)
      BY <2>1 DEF ConsentInv, ClientTypes
    <3> QED
      BY <3>1, <3>2
  <2>3. UNCHANGED out \/ Post(u, "REMOTE_GRANT", NoUser)
    BY <1>6 DEF OnRemoteRequest
  <2>4. UNCHANGED <<relay, handler, version, consent>>
    BY <1>6 DEF OnRemoteRequest, order
  <2> QED
    BY <1>1, <2>1, <2>2, <2>3, <2>4, PlainStep
<1>7. CASE OnRemoteGrant(u)
  <2>1. UNCHANGED out \/ Post(u, "REMOTE_GRANT", NoUser)
    BY <1>7 DEF OnRemoteGrant
  <2>2. UNCHANGED <<relay, handler, version, consent, dialog>> /\ TakesOne(u)
    BY <1>2, <1>7 DEF OnRemoteGrant, order
  <2> QED
    BY <1>1, <1>3, <2>1, <2>2, PlainStep
<1>8. CASE HandleRoomState(u)
  BY <1>2, <1>3, <1>8, PlainStep DEF HandleRoomState, order
<1> QED
  BY <1>4, <1>5, <1>6, <1>7, <1>8, ExecuteStep DEF Window

-----------------------------------------------------------------------------
(* The handlers *)

\* Where a handler is that has news to send
Told == {"clients", "state", "leave", "name"}

\* What the handlers of the server leave alone
clients == <<starts, said, executed, dialog>>

\* A handler takes a packet: the packets after it are right, for the share
\* there is, for none, and for the share it starts.
LEMMA Taken ==
    ASSUME ConsentInv, NEW u \in Users, NEW step, NEW op, Has(u, step, op), Done(u)
    PROVE /\ out[u][1] \in Packet /\ out[u][1].op = op
          /\ out[u][1].n \in Nat /\ out[u][1].user \in Someone
          /\ out' \in [Users -> Seq(Packet)]
          /\ \A w \in Users : Grants(out'[w], starts[w], said[w], ShareOf(w)) /\ ShareOf(w) <= starts[w]
          /\ \A w \in Users : Grants(out'[w], starts[w], said[w], 0) /\ 0 <= starts[w]
          /\ op = "SCREEN_START" =>
                out[u][1].n <= starts[u] /\ Grants(out'[u], starts[u], said[u], out[u][1].n)
          /\ op = "REMOTE_GRANT" => ShareOf(u) <= out[u][1].n
          /\ op = "REMOTE_GRANT" /\ out[u][1].user # NoUser => <<out[u][1].n, out[u][1].user>> \in said[u]
<1> DEFINE s == out[u]
           t == Tail(s)
<1>1. s \in Seq(Packet) /\ s # <<>> /\ s[1].op = op /\ out' = [out EXCEPT ![u] = t]
  BY DEF Has, Done, ConsentInv, ClientTypes
<1>2. /\ \A w \in Users : ShareOf(w) \in Nat /\ starts[w] \in Nat
      /\ \A w \in Users : ShareOf(w) <= starts[w] /\ Grants(out[w], starts[w], said[w], ShareOf(w))
  BY DEF ConsentInv, ClientTypes, ServerTypes, ControlAllowed, ShareOf
<1>3. Grants(s, starts[u], said[u], ShareOf(u))
  BY <1>2
<1> HIDE DEF s
<1>4. /\ s[1] \in Packet /\ t \in Seq(Packet)
      /\ Grants(t, starts[u], said[u], ShareOf(u)) /\ Grants(t, starts[u], said[u], 0)
      /\ s[1].op = "SCREEN_START" => s[1].n <= starts[u] /\ Grants(t, starts[u], said[u], s[1].n)
      /\ s[1].op = "REMOTE_GRANT" => ShareOf(u) <= s[1].n
      /\ s[1].op = "REMOTE_GRANT" /\ s[1].user # NoUser => <<s[1].n, s[1].user>> \in said[u]
  BY <1>1, <1>2, <1>3, GrantsTail
<1> HIDE DEF t
<1>5. out' \in [Users -> Seq(Packet)] /\ out'[u] = t /\ \A w \in Users : w # u => out'[w] = out[w]
  BY <1>1, <1>4 DEF ConsentInv, ClientTypes
<1>6. ASSUME NEW w \in Users, w # u PROVE Grants(out'[w], starts[w], said[w], 0)
  <2>1. out[w] \in Seq(Packet) /\ Grants(out[w], starts[w], said[w], ShareOf(w))
    BY <1>2 DEF ConsentInv, ClientTypes
  <2>2. \A i \in 1 .. Len(out[w]) : out[w][i].n \in Nat
    BY <2>1, PacketNumber
  <2>3. Grants(out[w], starts[w], said[w], 0)
    BY <1>2, <2>1, <2>2 DEF Grants
  <2> QED
    BY <1>5, <1>6, <2>3
<1>7. \A w \in Users : 0 <= starts[w]
  <2>1. \A n \in Nat : 0 <= n
    OBVIOUS
  <2> QED
    BY <1>2, <2>1
<1>8. s[1].n \in Nat /\ s[1].user \in Someone
  BY <1>4, PacketNumber
<1> QED
  BY <1>1, <1>2, <1>4, <1>5, <1>6, <1>7, <1>8 DEF s

\* The packet that u's handler sends is not input.
LEMMA NotInput ==
    ASSUME ConsentInv, NEW u \in Users, said' = said, inbox' = inbox,
           \A w \in Users : w # u => pc'[w] = pc[w] /\ msg'[w] = msg[w] /\ todo'[w] = todo[w],
           msg'[u].op # "REMOTE_EVENT"
    PROVE EventsAllowed'
BY DEF ConsentInv, EventsAllowed, Consented

\* The parts of the invariant that a handler can disturb
LEMMA HandlerStep ==
    ASSUME ConsentInv, UNCHANGED clients, inbox' \in [Users -> Seq(Packet)], out' \in [Users -> Seq(Packet)],
           ServerTypes', ControlAllowed', EventsAllowed'
    PROVE ConsentInv'
<1>1. ClientTypes'
  BY DEF ConsentInv, ClientTypes, clients
<1>2. ConsentNeeded'
  BY DEF ConsentInv, ConsentNeeded, clients
<1> QED
  BY <1>1, <1>2 DEF ConsentInv

\* A handler that changes the share and has an announcement to send, or
\* ignores the packet
LEMMA AnnounceStep ==
    ASSUME ConsentInv, NEW u \in Users, UNCHANGED clients, UNCHANGED inbox, out' \in [Users -> Seq(Packet)],
           members' \subseteq Users, sharer' \in Someone, controller' \in Someone, share' \in Nat,
           ControlAllowed',
           \/ Ignored(u)
           \/ \E step \in Idle : GoTo(u, step) /\ UNCHANGED <<msg, version>> /\ pc[u] # "send"
           \/ \E op \in {"SCREEN_START", "SCREEN_STOP", "REMOTE_GRANT"} :
              \E s \in Someone : \E v \in Someone : \E step \in Told :
                 Announce(u, step, op, s, v)
    PROVE ConsentInv'
<1>1. said' = said /\ inbox' = inbox /\ inbox' \in [Users -> Seq(Packet)] /\ executed' = executed
  BY DEF ConsentInv, ClientTypes, clients
<1>2. CASE Ignored(u)
  <2>1. ServerTypes'
    BY <1>1, <1>2 DEF ConsentInv, ServerTypes, Ignored, handler
  <2>2. EventsAllowed'
    BY <1>1, <1>2 DEF ConsentInv, EventsAllowed, Consented, Ignored, handler
  <2> QED
    BY <1>1, <2>1, <2>2, HandlerStep
<1>3. ASSUME NEW op \in {"SCREEN_START", "SCREEN_STOP", "REMOTE_GRANT"}, NEW s \in Someone, NEW v \in Someone,
             NEW step \in Told, Announce(u, step, op, s, v)
      PROVE ConsentInv'
  <2> DEFINE p == [op |-> op, sharer |-> s, user |-> v, n |-> version + 1]
  <2>1. msg' = [msg EXCEPT ![u] = p] /\ pc' = [pc EXCEPT ![u] = step] /\ todo' = todo /\ version' = version + 1
    BY <1>3 DEF Announce, GoTo
  <2>2. p \in Packet /\ p.op # "REMOTE_EVENT" /\ version' \in Nat
    BY <2>1 DEF Packet, Ops, ConsentInv, ServerTypes
  <2> HIDE DEF p
  <2>3. /\ DOMAIN msg' = Users /\ DOMAIN pc' = Users /\ msg'[u] = p
        /\ \A w \in Users : w # u => pc'[w] = pc[w] /\ msg'[w] = msg[w] /\ todo'[w] = todo[w]
    BY <2>1 DEF ConsentInv, ServerTypes
  <2>4. ServerTypes'
    BY <1>1, <2>1, <2>2, <2>3 DEF ConsentInv, ServerTypes
  <2>5. EventsAllowed'
    BY <1>1, <2>2, <2>3, NotInput
  <2> QED
    BY <1>1, <2>4, <2>5, HandlerStep
<1>4. ASSUME NEW step \in Idle, GoTo(u, step), UNCHANGED <<msg, version>>, pc[u] # "send" PROVE ConsentInv'
  <2>1. pc' = [pc EXCEPT ![u] = step] /\ todo' = todo /\ msg' = msg /\ version' = version
    BY <1>4 DEF GoTo
  <2>2. /\ DOMAIN msg' = Users /\ DOMAIN pc' = Users /\ pc'[u] = step
        /\ \A w \in Users : w # u => pc'[w] = pc[w] /\ msg'[w] = msg[w] /\ todo'[w] = todo[w]
    BY <2>1 DEF ConsentInv, ServerTypes
  <2>3. msg'[u].op # "REMOTE_EVENT"
    BY <1>4, <2>1 DEF ConsentInv, EventsAllowed
  <2>4. ServerTypes'
    BY <1>1, <1>4, <2>1, <2>2 DEF ConsentInv, ServerTypes
  <2>5. EventsAllowed'
    BY <1>1, <2>2, <2>3, NotInput
  <2> QED
    BY <1>1, <2>4, <2>5, HandlerStep
<1> QED
  BY <1>2, <1>3, <1>4

\* SCREEN_START: the share takes the number of the packet, which no grant
\* after it is older than.
LEMMA HandleStart == ASSUME ConsentInv, NEW u \in Users, HandleScreenStart(u) PROVE ConsentInv'
<1>1. /\ Handles(u, "SCREEN_START") /\ controller' = controller /\ members' = members
      /\ UNCHANGED clients /\ UNCHANGED inbox
  BY DEF HandleScreenStart, clients, window
<1>2. /\ out[u][1].n \in Nat /\ out' \in [Users -> Seq(Packet)]
      /\ \A w \in Users : Grants(out'[w], starts[w], said[w], ShareOf(w)) /\ ShareOf(w) <= starts[w]
      /\ out[u][1].n <= starts[u] /\ Grants(out'[u], starts[u], said[u], out[u][1].n)
  BY <1>1, Taken DEF Handles
<1>3. starts' = starts /\ said' = said
  BY <1>1 DEF clients
<1>4. CASE sharer' = sharer /\ share' = share /\ Ignored(u)
  <2>1. ControlAllowed'
    BY <1>1, <1>2, <1>3, <1>4 DEF ConsentInv, ControlAllowed, ShareOf, Consented
  <2> QED
    BY <1>1, <1>2, <1>4, <2>1, AnnounceStep DEF ConsentInv, ServerTypes
<1>5. CASE /\ sharer \in {NoUser, u} /\ sharer' = u
           /\ share' = IF sharer = u THEN share ELSE out[u][1].n
           /\ Announce(u, "clients", "SCREEN_START", u, NoUser)
  <2>1. u # NoUser /\ u \in Someone /\ NoUser \in Someone
    BY ShareAssumption DEF Someone
  <2>2. ControlAllowed'
    <3>1. controller' # NoUser => sharer' # NoUser /\ Consented(sharer, share, controller)'
      BY <1>1, <1>3, <1>5, <2>1 DEF ConsentInv, ControlAllowed, Consented
    <3>2. ASSUME NEW w \in Users
          PROVE ShareOf(w)' <= starts[w] /\ Grants(out'[w], starts[w], said[w], ShareOf(w)')
      <4>1. CASE w # u
        <5>1. ShareOf(w)' = ShareOf(w)
          BY <1>5, <4>1, <2>1, ShareAssumption DEF ShareOf
        <5> QED
          BY <1>2, <5>1
      <4>2. CASE w = u
        <5>1. ShareOf(w)' = IF sharer = u THEN ShareOf(u) ELSE out[u][1].n
          BY <1>5, <4>2 DEF ShareOf
        <5> QED
          BY <1>2, <4>2, <5>1
      <4> QED
        BY <4>1, <4>2
    <3> QED
      BY <1>3, <3>1, <3>2 DEF ControlAllowed
  <2>3. members' \subseteq Users /\ sharer' \in Someone /\ controller' \in Someone /\ share' \in Nat
    BY <1>1, <1>2, <1>5, <2>1 DEF ConsentInv, ServerTypes
  <2> QED
    BY <1>1, <1>2, <1>5, <2>1, <2>2, <2>3, AnnounceStep DEF Told
<1> QED
  BY <1>4, <1>5 DEF HandleScreenStart

\* The share as it was, or none: whose packet was taken does not matter.
LEMMA ShareKept ==
    ASSUME ConsentInv, UNCHANGED <<starts, said, share>>,
           \/ /\ sharer' = sharer
              /\ controller' \in {controller, NoUser}
              /\ \A w \in Users : Grants(out'[w], starts[w], said[w], ShareOf(w)) /\ ShareOf(w) <= starts[w]
           \/ /\ sharer' = NoUser /\ controller' = NoUser
              /\ \A w \in Users : Grants(out'[w], starts[w], said[w], 0) /\ 0 <= starts[w]
    PROVE ControlAllowed' /\ sharer' \in Someone /\ controller' \in Someone /\ share' \in Nat
<1>1. NoUser \in Someone /\ NoUser \notin Users
  BY ShareAssumption DEF Someone
<1>2. sharer' \in Someone /\ controller' \in Someone /\ share' \in Nat
  BY <1>1 DEF ConsentInv, ServerTypes
<1>3. controller' # NoUser => sharer' # NoUser /\ Consented(sharer, share, controller)'
  BY DEF ConsentInv, ControlAllowed, Consented
<1>4. ASSUME NEW w \in Users
      PROVE ShareOf(w)' <= starts[w] /\ Grants(out'[w], starts[w], said[w], ShareOf(w)')
  <2>1. CASE sharer' = sharer /\ sharer # NoUser
    <3>1. ShareOf(w)' = ShareOf(w)
      BY <2>1 DEF ShareOf
    <3> QED
      BY <2>1, <3>1
  <2>2. CASE sharer' = NoUser
    <3>1. ShareOf(w)' = 0 /\ (sharer = NoUser => ShareOf(w) = 0)
      BY <1>1, <2>2 DEF ShareOf
    <3> QED
      BY <2>2, <3>1
  <2> QED
    BY <2>1, <2>2
<1> QED
  BY <1>2, <1>3, <1>4 DEF ControlAllowed

\* SCREEN_STOP and LEAVE_ROOM end the share, or the control.
LEMMA HandleStop ==
    ASSUME ConsentInv, NEW u \in Users, HandleScreenStop(u) \/ HandleLeaveRoom(u) PROVE ConsentInv'
<1>1. /\ Handles(u, "SCREEN_STOP") \/ Handles(u, "LEAVE_ROOM")
      /\ UNCHANGED clients /\ UNCHANGED inbox /\ UNCHANGED <<starts, said, share>> /\ members' \subseteq Users
  BY DEF HandleScreenStop, HandleLeaveRoom, clients, window, consent, ConsentInv, ServerTypes
<1>2. /\ out' \in [Users -> Seq(Packet)]
      /\ \A w \in Users : Grants(out'[w], starts[w], said[w], ShareOf(w)) /\ ShareOf(w) <= starts[w]
      /\ \A w \in Users : Grants(out'[w], starts[w], said[w], 0) /\ 0 <= starts[w]
  BY <1>1, Taken DEF Handles
<1>3. \/ sharer' = sharer /\ controller' \in {controller, NoUser}
      \/ sharer' = NoUser /\ controller' = NoUser
  <2>1. CASE HandleScreenStop(u)
    BY <2>1 DEF HandleScreenStop, StopShare
  <2>2. CASE HandleLeaveRoom(u)
    BY <2>2 DEF HandleLeaveRoom, StopShare
  <2> QED
    BY <2>1, <2>2
<1>4. ControlAllowed' /\ sharer' \in Someone /\ controller' \in Someone /\ share' \in Nat
  BY <1>1, <1>2, <1>3, ShareKept
<1>5. \/ Ignored(u)
      \/ \E step \in Idle : GoTo(u, step) /\ UNCHANGED <<msg, version>> /\ pc[u] # "send"
      \/ \E op \in {"SCREEN_START", "SCREEN_STOP", "REMOTE_GRANT"} :
         \E s \in Someone : \E v \in Someone : \E step \in Told :
            Announce(u, step, op, s, v)
  <2>1. u \in Someone /\ NoUser \in Someone /\ sharer \in Someone /\ pc[u] # "send"
        /\ "gone" \in Idle /\ "clients" \in Told /\ "state" \in Told /\ "leave" \in Told
    BY <1>1 DEF Someone, ConsentInv, ServerTypes, Handles, Has, Idle, Told
  <2>2. CASE HandleScreenStop(u)
    BY <2>1, <2>2 DEF HandleScreenStop
  <2>3. CASE HandleLeaveRoom(u)
    BY <2>1, <2>3 DEF HandleLeaveRoom
  <2> QED
    BY <2>2, <2>3
<1> QED
  BY <1>1, <1>2, <1>4, <1>5, AnnounceStep

\* REMOTE_GRANT without a target: the control ends.
LEMMA HandleRevoke == ASSUME ConsentInv, NEW u \in Users, HandleRemoteGrant(u) PROVE ConsentInv'
<1>1. /\ Handles(u, "REMOTE_GRANT")
      /\ UNCHANGED clients /\ UNCHANGED inbox /\ UNCHANGED <<starts, said, share>>
      /\ members' = members /\ sharer' = sharer /\ controller' \in {controller, NoUser}
  BY DEF HandleRemoteGrant, clients, window, consent
<1>2. /\ out' \in [Users -> Seq(Packet)]
      /\ \A w \in Users : Grants(out'[w], starts[w], said[w], ShareOf(w)) /\ ShareOf(w) <= starts[w]
  BY <1>1, Taken DEF Handles
<1>3. Ignored(u) \/ Announce(u, "clients", "REMOTE_GRANT", u, NoUser)
  BY DEF HandleRemoteGrant
<1>4. u \in Someone /\ NoUser \in Someone /\ "clients" \in Told
  BY DEF Someone, Told
<1>5. ControlAllowed' /\ sharer' \in Someone /\ controller' \in Someone /\ share' \in Nat
  BY <1>1, <1>2, ShareKept
<1>6. members' \subseteq Users
  BY <1>1 DEF ConsentInv, ServerTypes
<1> QED
  BY <1>1, <1>2, <1>3, <1>4, <1>5, <1>6, AnnounceStep

\* The target is there, which changes nothing yet.
LEMMA HandleTarget == ASSUME ConsentInv, NEW u \in Users, FindTarget(u) PROVE ConsentInv'
<1>1. /\ UNCHANGED clients /\ UNCHANGED inbox /\ UNCHANGED <<starts, said, share, out, relay>>
      /\ GoTo(u, "grant") /\ UNCHANGED <<msg, version>> /\ pc[u] # "send" /\ "grant" \in Idle
  BY DEF FindTarget, clients, window, consent, order, Has, Idle
<1>2. /\ out' \in [Users -> Seq(Packet)]
      /\ \A w \in Users : Grants(out'[w], starts[w], said[w], ShareOf(w)) /\ ShareOf(w) <= starts[w]
  BY <1>1 DEF ConsentInv, ClientTypes, ControlAllowed
<1>3. sharer' = sharer /\ controller' = controller /\ members' = members
  BY <1>1 DEF relay
<1>4. ControlAllowed' /\ sharer' \in Someone /\ controller' \in Someone /\ share' \in Nat
  BY <1>1, <1>2, <1>3, ShareKept
<1>5. members' \subseteq Users
  BY <1>3 DEF ConsentInv, ServerTypes
<1> QED
  BY <1>1, <1>2, <1>4, <1>5, AnnounceStep

\* REMOTE_GRANT with one: the yes it tells of is one of this share.
LEMMA HandleGrant == ASSUME ConsentInv, NEW u \in Users, SetController(u) PROVE ConsentInv'
<1> DEFINE target == out[u][1].user
<1>1. /\ Has(u, "grant", "REMOTE_GRANT") /\ Done(u)
      /\ UNCHANGED clients /\ UNCHANGED inbox /\ UNCHANGED <<starts, said, share>>
      /\ members' = members /\ sharer' = sharer
  BY DEF SetController, clients, window, consent
<1>2. /\ out' \in [Users -> Seq(Packet)]
      /\ \A w \in Users : Grants(out'[w], starts[w], said[w], ShareOf(w)) /\ ShareOf(w) <= starts[w]
      /\ out[u][1].n \in Nat /\ target \in Someone /\ ShareOf(u) <= out[u][1].n
      /\ target # NoUser => <<out[u][1].n, target>> \in said[u]
  BY <1>1, Taken
<1>3. sharer = u /\ controller' = target /\ \E step \in Told : Announce(u, step, "REMOTE_GRANT", u, target)
  BY DEF SetController, Told
<1> HIDE DEF target
<1>4. u # NoUser /\ u \in Someone
  BY ShareAssumption DEF Someone
<1>5. members' \subseteq Users /\ sharer' \in Someone /\ controller' \in Someone /\ share' \in Nat
  BY <1>1, <1>2, <1>3 DEF ConsentInv, ServerTypes
<1>6. ControlAllowed'
  <2>2. sharer = u /\ controller' = target
    BY <1>3
  <2>3. ControlAllowed'
    <3>1. controller' # NoUser => sharer' # NoUser /\ Consented(sharer, share, controller)'
      <4>1. share <= out[u][1].n /\ share \in Nat
        BY <1>2, <2>2 DEF ShareOf, ConsentInv, ServerTypes
      <4>2. target # NoUser => \E y \in said[u] : y[1] >= share /\ y[2] = target
        BY <1>2, <4>1
      <4> QED
        BY <1>1, <1>4, <2>2, <4>2 DEF Consented
    <3>2. \A w : ShareOf(w)' = ShareOf(w)
      BY <1>1 DEF ShareOf
    <3> QED
      BY <1>1, <1>2, <3>1, <3>2 DEF ControlAllowed
  <2> QED
    BY <2>3
<1> QED
  BY <1>1, <1>2, <1>3, <1>4, <1>5, <1>6, AnnounceStep

\* REMOTE_REQUEST and REMOTE_EVENT are passed on to the sharer; an event only
\* with consent.
LEMMA HandleForward ==
    ASSUME ConsentInv, NEW u \in Users, HandleRemoteRequest(u) \/ HandleRemoteEvent(u) PROVE ConsentInv'
<1>1. /\ Handles(u, "REMOTE_REQUEST") \/ Handles(u, "REMOTE_EVENT")
      /\ UNCHANGED clients /\ UNCHANGED inbox /\ UNCHANGED <<starts, said, executed, share>>
      /\ UNCHANGED <<members, sharer, controller>>
  BY DEF HandleRemoteRequest, HandleRemoteEvent, clients, window, consent, relay
<1>2. /\ out' \in [Users -> Seq(Packet)]
      /\ \A w \in Users : Grants(out'[w], starts[w], said[w], ShareOf(w)) /\ ShareOf(w) <= starts[w]
  BY <1>1, Taken DEF Handles
<1>3. ControlAllowed'
  BY <1>1, <1>2, ShareKept
<1>4. members' \subseteq Users /\ sharer' \in Someone /\ controller' \in Someone /\ share' \in Nat
  BY <1>1 DEF ConsentInv, ServerTypes
<1>5. CASE Ignored(u)
  BY <1>1, <1>2, <1>3, <1>4, <1>5, AnnounceStep
<1>6. ASSUME NEW p \in Packet, Forward(u, p), sharer \in Users,
             p.op = "REMOTE_EVENT" => Consented(sharer, p.n, p.user)
      PROVE ConsentInv'
  <2>1. /\ msg' = [msg EXCEPT ![u] = p] /\ pc' = [pc EXCEPT ![u] = "send"]
        /\ todo' = [todo EXCEPT ![u] = {sharer}] /\ version' = version
    BY <1>6 DEF Forward
  <2>2. /\ DOMAIN msg' = Users /\ DOMAIN pc' = Users /\ todo' \in [Users -> SUBSET Users]
        /\ msg'[u] = p /\ pc'[u] = "send" /\ todo'[u] = {sharer}
        /\ \A w \in Users : w # u => pc'[w] = pc[w] /\ msg'[w] = msg[w] /\ todo'[w] = todo[w]
    BY <1>6, <2>1 DEF ConsentInv, ServerTypes
  <2>3. ServerTypes'
    BY <1>1, <1>4, <1>6, <2>1, <2>2 DEF ConsentInv, ServerTypes
  <2>4. EventsAllowed'
    <3>1. ASSUME NEW w \in Users, msg'[w].op = "REMOTE_EVENT"
          PROVE pc'[w] = "send" /\ \A v \in todo'[w] : Consented(v, msg[w].n, msg[w].user)'
      <4>1. CASE w = u
        BY <1>1, <1>6, <2>2, <3>1, <4>1 DEF Consented
      <4>2. CASE w # u
        BY <1>1, <2>2, <3>1, <4>2 DEF ConsentInv, EventsAllowed, Consented
      <4> QED
        BY <4>1, <4>2
    <3>2. \A w \in Users : \A i \in 1 .. Len(inbox'[w]) :
            inbox'[w][i].op = "REMOTE_EVENT" => Consented(w, inbox[w][i].n, inbox[w][i].user)'
      BY <1>1 DEF ConsentInv, EventsAllowed, Consented
    <3> QED
      BY <3>1, <3>2 DEF EventsAllowed
  <2>5. inbox' \in [Users -> Seq(Packet)]
    BY <1>1 DEF ConsentInv, ClientTypes
  <2> QED
    BY <1>1, <1>2, <1>3, <2>3, <2>4, <2>5, HandlerStep
<1>7. u # NoUser /\ u \in Someone /\ (sharer \in members => sharer \in Users /\ sharer \in Someone)
  BY ShareAssumption DEF Someone, ConsentInv, ServerTypes
<1>8. CASE HandleRemoteRequest(u)
  <2> DEFINE p == [op |-> "REMOTE_REQUEST", sharer |-> sharer, user |-> u, n |-> version]
  <2>1. Ignored(u) \/ (sharer \in members /\ Forward(u, p))
    BY <1>8 DEF HandleRemoteRequest
  <2>2. sharer \in members => p \in Packet /\ p.op # "REMOTE_EVENT"
    BY <1>7 DEF Packet, Ops, ConsentInv, ServerTypes
  <2> HIDE DEF p
  <2> QED
    BY <1>5, <1>6, <1>7, <2>1, <2>2
<1>9. CASE HandleRemoteEvent(u)
  <2> DEFINE p == [op |-> "REMOTE_EVENT", sharer |-> sharer, user |-> u, n |-> share]
  <2>1. Ignored(u) \/ (sharer \in members /\ controller = u /\ Forward(u, p))
    BY <1>9 DEF HandleRemoteEvent, MaySend
  <2>2. sharer \in members => p \in Packet /\ p.n = share /\ p.user = u
    BY <1>7 DEF Packet, Ops, ConsentInv, ServerTypes
  <2>3. controller = u => Consented(sharer, share, u)
    BY <1>7 DEF ConsentInv, ControlAllowed
  <2> HIDE DEF p
  <2> QED
    BY <1>5, <1>6, <1>7, <2>1, <2>2, <2>3
<1> QED
  BY <1>8, <1>9

\* The steps of a handler that change nothing of the share: JOIN_ROOM, the
\* description of the share, the list of those to tell, and what it looks up
\* on its way
LooksUp(u) == ReadName(u) \/ GetState(u) \/ GiveUpSeat(u)

LEMMA HandleOthers ==
    ASSUME ConsentInv, NEW u \in Users, HandleJoinRoom(u) \/ Describe(u) \/ GetRoomClients(u) \/ LooksUp(u)
    PROVE ConsentInv'
<1>1. /\ UNCHANGED clients /\ UNCHANGED <<starts, said, executed, share>> /\ inbox' = inbox
      /\ UNCHANGED <<sharer, controller, version>>
  BY DEF HandleJoinRoom, Describe, GetRoomClients, LooksUp, ReadName, GetState, GiveUpSeat, clients, window, consent, relay, order
<1>2. /\ out' \in [Users -> Seq(Packet)]
      /\ \A w \in Users : Grants(out'[w], starts[w], said[w], ShareOf(w)) /\ ShareOf(w) <= starts[w]
  <2>1. CASE HandleJoinRoom(u)
    <3>1. Handles(u, "JOIN_ROOM")
      BY <2>1 DEF HandleJoinRoom
    <3> QED
      BY <3>1, Taken DEF Handles
  <2>2. CASE Describe(u) \/ GetRoomClients(u) \/ LooksUp(u)
    BY <2>2 DEF Describe, GetRoomClients, LooksUp, ReadName, GetState, GiveUpSeat, ConsentInv, ClientTypes, ControlAllowed
  <2> QED
    BY <2>1, <2>2
<1>3. ControlAllowed'
  BY <1>1, <1>2, ShareKept
<1>4. /\ members' \subseteq Users /\ DOMAIN msg' = Users /\ DOMAIN pc' = Users /\ todo' \in [Users -> SUBSET Users]
      /\ \A w \in Users : w # u => pc'[w] = pc[w] /\ msg'[w] = msg[w] /\ todo'[w] = todo[w]
      /\ pc'[u] \notin Idle => msg'[u] \in Packet
      /\ msg'[u].op # "REMOTE_EVENT"
  <2>1. members \subseteq Users /\ todo \in [Users -> SUBSET Users] /\ DOMAIN msg = Users /\ DOMAIN pc = Users
    BY DEF ConsentInv, ServerTypes
  <2>3. CASE HandleJoinRoom(u)
    <3> DEFINE p == [NoPacket EXCEPT !.op = "ROOM_STATE"]
    <3>1. p \in Packet /\ p.op # "REMOTE_EVENT"
      BY DEF NoPacket, Packet, Ops, Someone
    <3>2. msg' = [msg EXCEPT ![u] = p] /\ pc' = [pc EXCEPT ![u] = "describe"] /\ todo' = todo
      BY <2>3 DEF HandleJoinRoom, GoTo
    <3>3. members' \subseteq Users
      BY <2>1, <2>3 DEF HandleJoinRoom
    <3> HIDE DEF p
    <3> QED
      BY <2>1, <3>1, <3>2, <3>3
  <2>4. CASE Describe(u)
    <3> DEFINE p == [op |-> "ROOM_STATE", sharer |-> sharer, user |-> controller, n |-> version]
    <3>1. p \in Packet /\ p.op # "REMOTE_EVENT"
      BY DEF Packet, Ops, ConsentInv, ServerTypes
    <3>2. msg' = [msg EXCEPT ![u] = p] /\ pc' = [pc EXCEPT ![u] = "send"] /\ todo' = [todo EXCEPT ![u] = {u}]
      BY <2>4 DEF Describe
    <3>3. members' \subseteq Users
      BY <2>1, <2>4 DEF Describe, relay
    <3> HIDE DEF p
    <3> QED
      BY <2>1, <3>1, <3>2, <3>3
  <2>5. CASE GetRoomClients(u)
    <3> DEFINE others == IF pc[u] = "leave" THEN members \ {u} ELSE members
    <3>1. /\ pc[u] \in {"clients", "leave"} /\ members' = members
          /\ \/ /\ todo' = [todo EXCEPT ![u] = others] /\ msg' = msg
                /\ \E step \in {"send", "bye"} : pc' = [pc EXCEPT ![u] = step]
             \/ /\ \E step \in Idle : pc' = [pc EXCEPT ![u] = step]
                /\ msg' = [msg EXCEPT ![u] = NoPacket] /\ todo' = todo
      BY <2>5 DEF GetRoomClients, relay, After, Idle
    <3>2. others \in SUBSET Users
      BY <2>1
    <3>3. msg[u] \in Packet /\ msg[u].op # "REMOTE_EVENT" /\ NoPacket.op # "REMOTE_EVENT"
      BY <3>1 DEF ConsentInv, ServerTypes, EventsAllowed, NoPacket, Idle
    <3> HIDE DEF others
    <3> QED
      BY <2>1, <3>1, <3>2, <3>3
  <2>6. CASE LooksUp(u)
    <3>1. /\ pc[u] \in {"name", "state", "gone"} /\ members' \subseteq members /\ todo' = todo
          /\ \/ /\ msg' = msg /\ pc[u] # "gone"
                /\ \E step \in {"clients", "leave"} : pc' = [pc EXCEPT ![u] = step]
             \/ /\ \E step \in Idle : pc' = [pc EXCEPT ![u] = step]
                /\ msg' = [msg EXCEPT ![u] = NoPacket] \/ msg' = msg
      BY <2>6 DEF LooksUp, ReadName, GetState, GiveUpSeat, GoTo, relay, Idle
    <3>2. pc[u] # "gone" => msg[u] \in Packet
      BY <3>1 DEF ConsentInv, ServerTypes, Idle
    <3>3. msg[u].op # "REMOTE_EVENT" /\ NoPacket.op # "REMOTE_EVENT"
      BY <3>1 DEF ConsentInv, EventsAllowed, NoPacket
    <3> QED
      BY <2>1, <3>1, <3>2, <3>3
  <2> QED
    BY <2>3, <2>4, <2>5, <2>6
<1>5. ServerTypes'
  BY <1>1, <1>4 DEF ConsentInv, ServerTypes
<1>6. EventsAllowed'
  BY <1>1, <1>4, NotInput
<1>7. inbox' \in [Users -> Seq(Packet)]
  BY <1>1 DEF ConsentInv, ClientTypes
<1> QED
  BY <1>1, <1>2, <1>3, <1>5, <1>6, <1>7, HandlerStep

\* A packet goes to the next user: input only to those who consented.
LEMMA SendStep == ASSUME ConsentInv, NEW u \in Users, NEW v \in Users, Send(u, v) PROVE ConsentInv'
<1> DEFINE m == msg[u]
           last == todo[u] = {v}
<1>1. /\ UNCHANGED clients /\ UNCHANGED <<starts, said, executed, share>> /\ out' = out
      /\ UNCHANGED <<members, sharer, controller, version>>
  BY DEF Send, clients, window, consent, relay
<1>2. /\ pc[u] \in {"send", "bye"} /\ v \in todo[u]
      /\ inbox' = [inbox EXCEPT ![v] = Append(@, m)]
      /\ todo' = [todo EXCEPT ![u] = @ \ {v}]
      /\ pc' = [pc EXCEPT ![u] = IF last THEN After(@) ELSE @]
      /\ msg' = [msg EXCEPT ![u] = IF last THEN NoPacket ELSE @]
  BY DEF Send
<1>3. m \in Packet
  BY <1>2 DEF ConsentInv, ServerTypes, Idle
<1>4. inbox[v] \in Seq(Packet) /\ Append(inbox[v], m) \in Seq(Packet)
  BY <1>3 DEF ConsentInv, ClientTypes
<1> HIDE DEF m, last
<1>5. /\ inbox' \in [Users -> Seq(Packet)] /\ inbox'[v] = Append(inbox[v], m)
      /\ \A w \in Users : w # v => inbox'[w] = inbox[w]
  BY <1>2, <1>4 DEF ConsentInv, ClientTypes
<1>6. /\ DOMAIN msg' = Users /\ DOMAIN pc' = Users /\ todo' \in [Users -> SUBSET Users]
      /\ msg'[u] = IF last THEN NoPacket ELSE m
      /\ pc'[u] = IF last THEN After(pc[u]) ELSE pc[u]
      /\ todo'[u] = todo[u] \ {v}
      /\ \A w \in Users : w # u => pc'[w] = pc[w] /\ msg'[w] = msg[w] /\ todo'[w] = todo[w]
  BY <1>2 DEF ConsentInv, ServerTypes, m
<1>7. ServerTypes'
  BY <1>1, <1>3, <1>6 DEF ConsentInv, ServerTypes, After, Idle
<1>8. ControlAllowed'
  <2>1. \A w \in Users : Grants(out'[w], starts[w], said[w], ShareOf(w)) /\ ShareOf(w) <= starts[w]
    BY <1>1 DEF ConsentInv, ControlAllowed
  <2> QED
    BY <1>1, <2>1, ShareKept
<1>9. EventsAllowed'
  <2>1. ASSUME NEW w \in Users, msg'[w].op = "REMOTE_EVENT"
        PROVE pc'[w] = "send" /\ \A x \in todo'[w] : Consented(x, msg[w].n, msg[w].user)'
    <3>1. CASE w = u
      <4>1. msg'[u] = m /\ pc'[u] = pc[u] /\ pc[u] = "send"
        BY <1>6, <2>1, <3>1 DEF NoPacket, ConsentInv, EventsAllowed, m
      <4>2. \A x \in todo[u] : Consented(x, m.n, m.user)
        BY <2>1, <3>1, <4>1 DEF ConsentInv, EventsAllowed, m
      <4> QED
        BY <1>1, <1>6, <3>1, <4>1, <4>2 DEF Consented
    <3>2. CASE w # u
      BY <1>1, <1>6, <2>1, <3>2 DEF ConsentInv, EventsAllowed, Consented
    <3> QED
      BY <3>1, <3>2
  <2>2. ASSUME NEW w \in Users, NEW i \in 1 .. Len(inbox'[w]), inbox'[w][i].op = "REMOTE_EVENT"
        PROVE Consented(w, inbox[w][i].n, inbox[w][i].user)'
    <3>1. CASE i \in 1 .. Len(inbox[w]) /\ inbox'[w][i] = inbox[w][i]
      <4>1. Consented(w, inbox[w][i].n, inbox[w][i].user)
        BY <2>2, <3>1 DEF ConsentInv, EventsAllowed
      <4> QED
        BY <1>1, <3>1, <4>1 DEF Consented
    <3>2. CASE w = v /\ inbox'[w][i] = m
      <4>1. Consented(v, m.n, m.user)
        BY <1>2, <2>2, <3>2 DEF ConsentInv, EventsAllowed, m
      <4> QED
        BY <1>1, <3>2, <4>1 DEF Consented
    <3>3. CASE w # v
      BY <1>5, <2>2, <3>1, <3>3
    <3>4. CASE w = v
      BY <1>4, <1>5, <2>2, <3>1, <3>2, <3>4
    <3> QED
      BY <3>3, <3>4
  <2> QED
    BY <2>1, <2>2 DEF EventsAllowed
<1>10. out' \in [Users -> Seq(Packet)]
  BY <1>1 DEF ConsentInv, ClientTypes
<1> QED
  BY <1>1, <1>5, <1>7, <1>8, <1>9, <1>10, HandlerStep

\* The handlers keep the invariant.
LEMMA ServerStep == ASSUME ConsentInv, NEW u \in Users, Handler(u) PROVE ConsentInv'
BY HandleStart, HandleStop, HandleRevoke, HandleTarget, HandleGrant, HandleForward, HandleOthers, SendStep
   DEF Handler, LooksUp

-----------------------------------------------------------------------------
\* At the start there is no share, and nothing is on its way.
LEMMA ConsentInit == Init => ConsentInv
<1> SUFFICES ASSUME Init PROVE ConsentInv
  OBVIOUS
<1>1. <<>> \in Seq(Packet) /\ <<>> \in Seq(Someone) /\ Len(<<>>) = 0 /\ 1 .. 0 = {}
  OBVIOUS
<1>2. ClientTypes
  BY <1>1 DEF Init, ClientTypes
<1>3. ServerTypes
  BY DEF Init, ServerTypes, Someone, Idle
<1>4. \A k, Y, low : Grants(<<>>, k, Y, low)
  BY <1>1 DEF Grants
<1>5. ControlAllowed
  BY <1>4 DEF Init, ControlAllowed, ShareOf
<1>6. EventsAllowed
  BY <1>1 DEF Init, EventsAllowed, NoPacket
<1>7. ConsentNeeded
  BY DEF Init, ConsentNeeded
<1> QED
  BY <1>2, <1>3, <1>5, <1>6, <1>7 DEF ConsentInv

\* A step that changes nothing
LEMMA ConsentStutters == ConsentInv /\ UNCHANGED vars => ConsentInv'
<1> SUFFICES ASSUME ConsentInv, UNCHANGED vars PROVE ConsentInv'
  OBVIOUS
<1> USE DEF vars, relay, handler, window, order, consent
<1>1. ClientTypes' /\ ServerTypes'
  BY DEF ConsentInv, ClientTypes, ServerTypes
<1>2. ControlAllowed' /\ EventsAllowed' /\ ConsentNeeded'
  BY DEF ConsentInv, ControlAllowed, ShareOf, EventsAllowed, ConsentNeeded, Consented
<1> QED
  BY <1>1, <1>2 DEF ConsentInv

LEMMA ConsentKept == Spec => []ConsentInv
<1>1. ConsentInv /\ [Next]_vars => ConsentInv'
  <2> SUFFICES ASSUME ConsentInv, [Next]_vars PROVE ConsentInv'
    OBVIOUS
  <2>1. CASE Next
    BY <2>1, ClientsStep, ServerStep, WindowStep DEF Next
  <2>2. CASE UNCHANGED vars
    BY <2>2, ConsentStutters
  <2> QED
    BY <2>1, <2>2
<1> QED
  BY <1>1, ConsentInit, PTL DEF Spec

\* No input is executed but with the consent of the sharer, given in the share
\* in which the server let it pass or later: for any number of users, clicks
\* and events, and whatever the order in which grants, stops, new shares and
\* input cross.
THEOREM NoInputWithoutConsent == Spec => []ConsentNeeded
<1>1. ConsentInv => ConsentNeeded
  BY DEF ConsentInv
<1> QED
  BY <1>1, ConsentKept, PTL

-----------------------------------------------------------------------------
\* The two things a window shows of a share
Shows == {"sharer", "controller"}

\* The packet m tells a window who shares, or who has the control; and whom
\* it tells of.
NewsOf(m, a) ==
    \/ m.op \in {"SCREEN_START", "SCREEN_STOP", "ROOM_STATE"}
    \/ a = "controller" /\ m.op = "REMOTE_GRANT"

Says(m, a) ==
    IF m.op = "SCREEN_STOP" THEN NoUser
    ELSE IF a = "sharer" THEN m.sharer
    ELSE IF m.op = "SCREEN_START" THEN NoUser ELSE m.user

\* After the first i - 1 packets of s, a window that showed v will show one
\* of S.
Shown(v, s, i, a, S) ==
    \/ \E j \in 1 .. (i - 1) : /\ NewsOf(s[j], a) /\ Says(s[j], a) \in S
                              /\ \A k \in (j + 1) .. (i - 1) : ~NewsOf(s[k], a)
    \/ v \in S /\ \A k \in 1 .. (i - 1) : ~NewsOf(s[k], a)

Heard(s, a) == \E i \in 1 .. Len(s) : NewsOf(s[i], a)

-----------------------------------------------------------------------------
(* What a window will show *)

\* One more packet changes nothing of what is shown before it, and after it
\* only if it is news.
LEMMA ShownAppend ==
    ASSUME NEW s \in Seq(Packet), NEW p \in Packet, NEW v, NEW a, NEW S
    PROVE /\ Append(s, p) \in Seq(Packet) /\ Len(Append(s, p)) = Len(s) + 1
          /\ Append(s, p)[Len(s) + 1] = p
          /\ \A i \in 1 .. Len(s) : Append(s, p)[i] = s[i]
          /\ \A i \in 1 .. Len(s) + 1 : Shown(v, s, i, a, S) => Shown(v, Append(s, p), i, a, S)
          /\ NewsOf(p, a) /\ Says(p, a) \in S => Shown(v, Append(s, p), Len(s) + 2, a, S)
          /\ ~NewsOf(p, a) /\ Shown(v, s, Len(s) + 1, a, S) => Shown(v, Append(s, p), Len(s) + 2, a, S)
          /\ Heard(Append(s, p), a) <=> Heard(s, a) \/ NewsOf(p, a)
<1> DEFINE t == Append(s, p)
<1>1. /\ t \in Seq(Packet) /\ Len(t) = Len(s) + 1 /\ Len(s) \in Nat
      /\ \A i \in 1 .. Len(s) : t[i] = s[i]
      /\ t[Len(s) + 1] = p
  OBVIOUS
<1> HIDE DEF t
<1>2. ASSUME NEW i \in 1 .. Len(s) + 1, Shown(v, s, i, a, S) PROVE Shown(v, t, i, a, S)
  <2>1. \A k \in 1 .. (i - 1) : t[k] = s[k]
    BY <1>1
  <2>2. CASE v \in S /\ \A k \in 1 .. (i - 1) : ~NewsOf(s[k], a)
    BY <2>1, <2>2 DEF Shown
  <2>3. ASSUME NEW j \in 1 .. (i - 1), NewsOf(s[j], a), Says(s[j], a) \in S,
               \A k \in (j + 1) .. (i - 1) : ~NewsOf(s[k], a)
        PROVE Shown(v, t, i, a, S)
    <3>1. \A k \in (j + 1) .. (i - 1) : k \in 1 .. (i - 1)
      BY <1>1
    <3> QED
      BY <2>1, <2>3, <3>1 DEF Shown
  <2> QED
    BY <1>2, <2>2, <2>3 DEF Shown
<1>3. ASSUME NewsOf(p, a), Says(p, a) \in S PROVE Shown(v, t, Len(s) + 2, a, S)
  <2> DEFINE j == Len(s) + 1
  <2>1. j \in 1 .. ((Len(s) + 2) - 1) /\ (j + 1) .. ((Len(s) + 2) - 1) = {}
    BY <1>1
  <2>2. t[j] = p
    BY <1>1
  <2> HIDE DEF j
  <2> QED
    BY <1>3, <2>1, <2>2 DEF Shown
<1>4. ASSUME ~NewsOf(p, a), Shown(v, s, Len(s) + 1, a, S) PROVE Shown(v, t, Len(s) + 2, a, S)
  <2>1. \A k \in 1 .. ((Len(s) + 2) - 1) : (k \in 1 .. ((Len(s) + 1) - 1) /\ t[k] = s[k]) \/ t[k] = p
    BY <1>1
  <2>2. CASE v \in S /\ \A k \in 1 .. ((Len(s) + 1) - 1) : ~NewsOf(s[k], a)
    BY <1>4, <2>1, <2>2 DEF Shown
  <2>3. ASSUME NEW j \in 1 .. ((Len(s) + 1) - 1), NewsOf(s[j], a), Says(s[j], a) \in S,
               \A k \in (j + 1) .. ((Len(s) + 1) - 1) : ~NewsOf(s[k], a)
        PROVE Shown(v, t, Len(s) + 2, a, S)
    <3>1. t[j] = s[j] /\ j \in 1 .. ((Len(s) + 2) - 1)
      BY <1>1
    <3>2. ASSUME NEW k \in (j + 1) .. ((Len(s) + 2) - 1) PROVE ~NewsOf(t[k], a)
      <4>1. (k \in (j + 1) .. ((Len(s) + 1) - 1) /\ t[k] = s[k]) \/ t[k] = p
        BY <1>1
      <4> QED
        BY <1>4, <2>3, <4>1
    <3> QED
      BY <2>3, <3>1, <3>2 DEF Shown
  <2> QED
    BY <1>4, <2>2, <2>3 DEF Shown
<1>5. Heard(t, a) <=> Heard(s, a) \/ NewsOf(p, a)
  <2>1. Len(s) + 1 \in 1 .. Len(t) /\ \A i \in 1 .. Len(s) : i \in 1 .. Len(t)
    BY <1>1
  <2>2. \A i \in 1 .. Len(t) : i \in 1 .. Len(s) \/ i = Len(s) + 1
    BY <1>1
  <2> QED
    BY <1>1, <2>1, <2>2 DEF Heard
<1> QED
  BY <1>1, <1>2, <1>3, <1>4, <1>5 DEF t

\* The first packet has been handled, and w is what is shown now.
LEMMA ShownTail ==
    ASSUME NEW s \in Seq(Packet), s # <<>>, NEW v, NEW w, NEW a, NEW S,
           w = IF NewsOf(s[1], a) THEN Says(s[1], a) ELSE v
    PROVE /\ Tail(s) \in Seq(Packet) /\ Len(Tail(s)) + 1 = Len(s) /\ s[1] \in Packet
          /\ \A i \in 1 .. Len(Tail(s)) : i + 1 \in 1 .. Len(s) /\ Tail(s)[i] = s[i + 1]
          /\ \A i \in 1 .. Len(s) : Shown(v, s, i + 1, a, S) => Shown(w, Tail(s), i, a, S)
          /\ Heard(s, a) <=> Heard(Tail(s), a) \/ NewsOf(s[1], a)
<1> DEFINE t == Tail(s)
<1>1. /\ t \in Seq(Packet) /\ Len(t) + 1 = Len(s) /\ Len(s) \in Nat /\ Len(t) \in Nat /\ s[1] \in Packet
      /\ \A i \in 1 .. Len(t) : t[i] = s[i + 1]
  OBVIOUS
<1> HIDE DEF t
<1>2. ASSUME NEW i \in 1 .. Len(s), Shown(v, s, i + 1, a, S) PROVE Shown(w, t, i, a, S)
  <2>1. \A k \in 1 .. (i - 1) : t[k] = s[k + 1] /\ k + 1 \in 1 .. ((i + 1) - 1)
    BY <1>1
  <2>2. CASE v \in S /\ \A k \in 1 .. ((i + 1) - 1) : ~NewsOf(s[k], a)
    <3>1. 1 \in 1 .. ((i + 1) - 1)
      BY <1>1
    <3>2. w \in S
      BY <2>2, <3>1
    <3> QED
      BY <2>1, <2>2, <3>2 DEF Shown
  <2>3. ASSUME NEW j \in 1 .. ((i + 1) - 1), NewsOf(s[j], a), Says(s[j], a) \in S,
               \A k \in (j + 1) .. ((i + 1) - 1) : ~NewsOf(s[k], a)
        PROVE Shown(w, t, i, a, S)
    <3>1. CASE j = 1
      <4>1. w \in S
        BY <2>3, <3>1
      <4>2. \A k \in 1 .. (i - 1) : k + 1 \in (j + 1) .. ((i + 1) - 1)
        BY <1>1, <3>1
      <4> QED
        BY <2>1, <2>3, <4>1, <4>2 DEF Shown
    <3>2. CASE j # 1
      <4> DEFINE h == j - 1
      <4>1. h \in 1 .. (i - 1) /\ h + 1 = j
        BY <1>1, <3>2
      <4>2. \A k \in (h + 1) .. (i - 1) : k \in 1 .. (i - 1) /\ k + 1 \in (j + 1) .. ((i + 1) - 1)
        BY <1>1, <3>2
      <4> HIDE DEF h
      <4>3. t[h] = s[j]
        BY <2>1, <4>1
      <4> QED
        BY <2>1, <2>3, <4>1, <4>2, <4>3 DEF Shown
    <3> QED
      BY <3>1, <3>2
  <2> QED
    BY <1>2, <2>2, <2>3 DEF Shown
<1>3. Heard(s, a) <=> Heard(t, a) \/ NewsOf(s[1], a)
  <2>1. 1 \in 1 .. Len(s) /\ \A i \in 1 .. Len(t) : i + 1 \in 1 .. Len(s)
    BY <1>1
  <2>2. ASSUME NEW i \in 1 .. Len(s), i # 1 PROVE \E j \in 1 .. Len(t) : t[j] = s[i]
    <3>1. i - 1 \in 1 .. Len(t) /\ (i - 1) + 1 = i
      BY <1>1, <2>2
    <3> QED
      BY <1>1, <3>1
  <2> QED
    BY <1>1, <2>1, <2>2 DEF Heard
<1> QED
  BY <1>1, <1>2, <1>3 DEF t

\* Without news the window goes on to show what it shows; with news that does
\* not matter.
LEMMA ShownLast ==
    ASSUME NEW s \in Seq(Packet), NEW v, NEW a, NEW S, Shown(v, s, Len(s) + 1, a, S)
    PROVE /\ Heard(s, a) => \A w : Shown(w, s, Len(s) + 1, a, S)
          /\ ~Heard(s, a) => v \in S
<1>1. (Len(s) + 1) - 1 = Len(s)
  OBVIOUS
<1> QED
  BY <1>1 DEF Shown, Heard

\* Before the first packet
LEMMA ShownFirst == ASSUME NEW s, NEW v, NEW a, NEW S, Shown(v, s, 1, a, S) PROVE v \in S
<1>1. 1 .. (1 - 1) = {}
  OBVIOUS
<1> QED
  BY <1>1 DEF Shown

\* What is one of S is one of more.
LEMMA ShownMore ==
    ASSUME NEW s, NEW v, NEW i, NEW a, NEW S, NEW T, S \subseteq T, Shown(v, s, i, a, S)
    PROVE Shown(v, s, i, a, T)
BY DEF Shown

-----------------------------------------------------------------------------
(* The handlers and their packets *)

Announcements == {"SCREEN_START", "SCREEN_STOP", "REMOTE_GRANT"}
Numbered == Announcements \cup {"ROOM_STATE"}

\* Where u's handler is tells what it has to send and to whom; it announces a
\* start only while u shares, and no packet is newer than the share.
HandlerOK(u) ==
    /\ pc[u] \in {"read", "clients", "send", "describe", "grant", "name"} \cup Leave
    /\ pc[u] \in Idle => todo[u] = {} /\ msg[u] = NoPacket
    /\ pc[u] \in Told => todo[u] = {} /\ msg[u].op \in Announcements
    /\ pc[u] \in {"state", "name"} => msg[u].op = "REMOTE_GRANT"
    /\ pc[u] = "describe" => todo[u] = {} /\ msg[u].op = "ROOM_STATE"
    /\ pc[u] = "send" => msg[u].op \in Numbered \cup {"REMOTE_REQUEST", "REMOTE_EVENT"}
    /\ pc[u] = "send" /\ msg[u].op = "ROOM_STATE" => todo[u] \subseteq {u}
    /\ pc[u] = "bye" => msg[u].op \in Announcements
    /\ pc[u] \in Leave => sharer # u
    /\ msg[u].op = "SCREEN_START" => sharer = u /\ msg[u].sharer = u
    /\ msg[u].op \in Numbered => msg[u].n <= version

\* Announcements of a start and of stops are in the order of the changes they
\* tell of, and a ROOM_STATE that is no older than a start tells of it.  What
\* the last change was is told by the packets of a share there is, or was.
InOrder ==
    /\ \A x, y \in Users :
          /\ msg[x].op = "SCREEN_START" /\ msg[y].op = "SCREEN_STOP" => msg[y].n < msg[x].n
          /\ msg[x].op = "SCREEN_START" /\ pc[y] = "send" /\ msg[y].op = "ROOM_STATE" /\ msg[y].n >= msg[x].n
             => msg[y].sharer = x
    /\ \A y \in Users : sharer # NoUser /\ msg[y].op = "SCREEN_STOP" => msg[y].n < version
    /\ \A y \in Users : sharer = NoUser /\ msg[y].op = "REMOTE_GRANT" => msg[y].n < version

WindowTypes ==
    /\ view \in [Users -> [sharer : Someone, controller : Someone]]
    /\ newest \in [Users -> Nat]
    /\ engine \subseteq here
    /\ failed \in BOOLEAN /\ repeated \in BOOLEAN
    /\ failing # {} => failed

Types == ClientTypes /\ ServerTypes /\ (controller # NoUser => sharer # NoUser)

ShareInv ==
    /\ WindowTypes
    /\ \A u \in Users : HandlerOK(u) /\ newest[u] <= version
    /\ sharer # NoUser => sharer \in members
    /\ InOrder

\* What the clients' steps leave alone
serverSide == <<members, sharer, controller, pc, msg, todo, version, silent, newest, overtaken>>

\* ... and what u's client leaves alone of the others
OthersAlone(u) ==
    \A v \in Users \ {u} :
        /\ view'[v] = view[v] /\ out'[v] = out[v] /\ inbox'[v] = inbox[v]
        /\ v \in here' <=> v \in here
        /\ v \in engine' <=> v \in engine
        /\ v \in blind' <=> v \in blind
        /\ v \in released' <=> v \in released
        /\ v \in hasty' <=> v \in hasty

\* What the handlers leave alone
clientSide == <<view, here, engine, failing, failed, blind, released, hasty>>

\* ... and what u's handler leaves alone of the others
HandlersAlone(u) ==
    \A v \in Users \ {u} :
        /\ pc'[v] = pc[v] /\ msg'[v] = msg[v] /\ todo'[v] = todo[v] /\ out'[v] = out[v]

\* A step of u's client
ClientDoes(u) == Clicks(u) \/ EngineFails(u) \/ OnEngineStopped(u) \/ Window(u)

LEMMA ViewTyped ==
    ASSUME Types, view \in [Users -> [sharer : Someone, controller : Someone]], NEW u \in Users, ClientDoes(u)
    PROVE view' \in [Users -> [sharer : Someone, controller : Someone]]
<1> DEFINE V == [sharer : Someone, controller : Someone]
<1>1. \A s, c \in Someone : View(s, c) \in V
  BY DEF View
<1>2. u \in Someone /\ NoUser \in Someone /\ NoShare \in V
  BY <1>1 DEF Someone, NoShare
<1>3. view[u] \in V
  OBVIOUS
<1>4. \A s \in Someone : [view[u] EXCEPT !.sharer = s] \in V /\ [view[u] EXCEPT !.controller = s] \in V
  BY <1>3
<1>5. inbox[u] # <<>> => inbox[u][1].sharer \in Someone /\ inbox[u][1].user \in Someone
  <2>1. inbox[u] # <<>> => inbox[u][1] \in Packet
    BY DEF Types, ClientTypes
  <2> QED
    BY <2>1 DEF Packet
<1>6. \/ view' = view
      \/ \E x \in V : view' = [view EXCEPT ![u] = x]
  <2>1. CASE StartScreenShare(u)
    <3>1. view' = [view EXCEPT ![u] = [view[u] EXCEPT !.sharer = u]]
      BY <2>1 DEF StartScreenShare
    <3> QED
      BY <1>2, <1>4, <3>1
  <2>2. CASE OnStopClicked(u) \/ SelectOther(u) \/ LeaveRoom(u) \/ OnEngineStopped(u) \/ OnScreenStop(u)
    BY <1>2, <2>2 DEF OnStopClicked, SelectOther, LeaveRoom, SetCurrentRoom, OnEngineStopped, OnScreenStop, ClearShareState
  <2>3. CASE OnRevokeClicked(u)
    <3>1. view' = view \/ view' = [view EXCEPT ![u] = [view[u] EXCEPT !.controller = NoUser]]
      BY <2>3 DEF OnRevokeClicked
    <3> QED
      BY <1>2, <1>4, <3>1
  <2>4. CASE OnRemoteGrant(u)
    <3>1. /\ inbox[u] # <<>>
          /\ view' = view \/ view' = [view EXCEPT ![u] = [view[u] EXCEPT !.controller = inbox[u][1].user]]
      BY <2>4 DEF OnRemoteGrant, Takes
    <3> QED
      BY <1>4, <1>5, <3>1
  <2>5. CASE OnScreenStart(u) \/ HandleRoomState(u)
    BY <1>1, <1>2, <1>5, <2>5 DEF OnScreenStart, HandleRoomState, Described, Takes
  <2>6. CASE \/ OnRequestClicked(u) \/ JoinRoom(u) \/ EventFilter(u) \/ SelectRoom(u) \/ EngineFails(u)
             \/ (\E yes \in BOOLEAN : AnswerRequest(u, yes)) \/ OnRemoteRequest(u) \/ OnRemoteEvent(u)
    BY <2>6 DEF OnRequestClicked, JoinRoom, EventFilter, SelectRoom, EngineFails, AnswerRequest, OnRemoteRequest,
                OnRemoteEvent, window
  <2> QED
    BY <2>1, <2>2, <2>3, <2>4, <2>5, <2>6 DEF ClientDoes, Clicks, Window
<1> HIDE DEF V
<1>7. view' \in [Users -> V]
  BY <1>6 DEF V
<1> QED
  BY <1>7 DEF V

LEMMA ClientAlone ==
    ASSUME Types, WindowTypes, NEW u \in Users, ClientDoes(u)
    PROVE UNCHANGED serverSide /\ OthersAlone(u) /\ WindowTypes'
<1> USE DEF serverSide, relay, handler, window, bounds, order, knowledge, consent, Click, Input, Types
<1>0. /\ DOMAIN view = Users /\ view' \in [Users -> [sharer : Someone, controller : Someone]]
      /\ newest \in [Users -> Nat] /\ engine \subseteq here
      /\ failed \in BOOLEAN /\ repeated \in BOOLEAN /\ (failing # {} => failed)
  BY ViewTyped DEF WindowTypes
<1>1. out \in [Users -> Seq(Packet)] /\ inbox \in [Users -> Seq(Packet)]
  BY DEF ClientTypes
<1>2. CASE StartScreenShare(u)
  BY <1>0, <1>1, <1>2 DEF StartScreenShare, Post, OthersAlone, WindowTypes
<1>3. CASE OnStopClicked(u)
  BY <1>0, <1>1, <1>3 DEF OnStopClicked, ClearShareState, Post, OthersAlone, WindowTypes
<1>4. CASE OnRequestClicked(u) \/ JoinRoom(u) \/ EventFilter(u)
  BY <1>0, <1>1, <1>4 DEF OnRequestClicked, JoinRoom, EventFilter, Post, OthersAlone, WindowTypes
<1>5. CASE OnRevokeClicked(u)
  BY <1>0, <1>1, <1>5 DEF OnRevokeClicked, Post, OthersAlone, WindowTypes
<1>6. CASE SelectOther(u)
  BY <1>0, <1>1, <1>6 DEF SelectOther, SetCurrentRoom, ClearShareState, OthersAlone, WindowTypes
<1>7. CASE LeaveRoom(u)
  BY <1>0, <1>1, <1>7 DEF LeaveRoom, SetCurrentRoom, ClearShareState, OthersAlone, WindowTypes
<1>8. CASE SelectRoom(u)
  BY <1>0, <1>1, <1>8 DEF SelectRoom, OthersAlone, WindowTypes
<1>9. ASSUME NEW yes \in BOOLEAN, AnswerRequest(u, yes) PROVE UNCHANGED serverSide /\ OthersAlone(u) /\ WindowTypes'
  BY <1>0, <1>1, <1>9 DEF AnswerRequest, Post, OthersAlone, WindowTypes
<1>10. CASE EngineFails(u)
  BY <1>0, <1>1, <1>10 DEF EngineFails, OthersAlone, WindowTypes
<1>11. CASE OnEngineStopped(u)
  BY <1>0, <1>1, <1>11 DEF OnEngineStopped, ClearShareState, Post, OthersAlone, WindowTypes
<1>12. CASE OnScreenStart(u)
  BY <1>0, <1>1, <1>12 DEF OnScreenStart, Takes, OthersAlone, WindowTypes
<1>13. CASE OnScreenStop(u)
  BY <1>0, <1>1, <1>13 DEF OnScreenStop, ClearShareState, Takes, OthersAlone, WindowTypes
<1>14. CASE OnRemoteRequest(u)
  BY <1>0, <1>1, <1>14 DEF OnRemoteRequest, Post, Takes, OthersAlone, WindowTypes
<1>15. CASE OnRemoteGrant(u)
  BY <1>0, <1>1, <1>15 DEF OnRemoteGrant, Post, Takes, OthersAlone, WindowTypes
<1>16. CASE OnRemoteEvent(u)
  BY <1>0, <1>1, <1>16 DEF OnRemoteEvent, Takes, OthersAlone, WindowTypes
<1>17. CASE HandleRoomState(u)
  BY <1>0, <1>1, <1>17 DEF HandleRoomState, Takes, OthersAlone, WindowTypes
<1> QED
  BY <1>2, <1>3, <1>4, <1>5, <1>6, <1>7, <1>8, <1>9, <1>10, <1>11, <1>12, <1>13, <1>14, <1>15, <1>16, <1>17
     DEF ClientDoes, Clicks, Window

\* The steps of the handlers
LEMMA HandlerAlone ==
    ASSUME Types, WindowTypes, NEW u \in Users, Handler(u)
    PROVE UNCHANGED clientSide /\ HandlersAlone(u)
<1> USE DEF clientSide, relay, handler, window, bounds, order, knowledge, consent, Types
<1>1. /\ out \in [Users -> Seq(Packet)] /\ todo \in [Users -> SUBSET Users]
      /\ DOMAIN pc = Users /\ DOMAIN msg = Users
  BY DEF ClientTypes, ServerTypes
<1>2. CASE HandleScreenStart(u)
  BY <1>1, <1>2 DEF HandleScreenStart, Handles, Done, Announce, Ignored, GoTo, HandlersAlone
<1>3. CASE HandleScreenStop(u)
  BY <1>1, <1>3 DEF HandleScreenStop, Handles, Done, Announce, Ignored, GoTo, HandlersAlone
<1>4. CASE HandleRemoteRequest(u) \/ HandleRemoteEvent(u)
  BY <1>1, <1>4 DEF HandleRemoteRequest, HandleRemoteEvent, Handles, Done, Forward, Ignored, HandlersAlone
<1>5. CASE HandleRemoteGrant(u) \/ FindTarget(u) \/ SetController(u)
  BY <1>1, <1>5
     DEF HandleRemoteGrant, FindTarget, SetController, Handles, Done, Announce, Ignored, GoTo, HandlersAlone
<1>6. CASE HandleLeaveRoom(u)
  BY <1>1, <1>6 DEF HandleLeaveRoom, Handles, Done, Announce, GoTo, HandlersAlone
<1>7. CASE HandleJoinRoom(u)
  BY <1>1, <1>7 DEF HandleJoinRoom, Handles, Done, GoTo, HandlersAlone
<1>10. CASE LooksUp(u)
  BY <1>1, <1>10 DEF LooksUp, ReadName, GetState, GiveUpSeat, GoTo, HandlersAlone
<1>8. CASE Describe(u) \/ GetRoomClients(u)
  BY <1>1, <1>8 DEF Describe, GetRoomClients, HandlersAlone
<1>9. ASSUME NEW v \in Users, Send(u, v) PROVE UNCHANGED clientSide /\ HandlersAlone(u)
  BY <1>1, <1>9 DEF Send, HandlersAlone
<1> QED
  BY <1>2, <1>3, <1>4, <1>5, <1>6, <1>7, <1>8, <1>9, <1>10 DEF Handler, LooksUp

\* A handler that takes a packet was waiting for one.
LEMMA Took ==
    ASSUME Types, ShareInv, NEW u \in Users, NEW op, Handles(u, op)
    PROVE /\ pc[u] = "read" /\ todo[u] = {} /\ msg[u] = NoPacket
          /\ out[u] \in Seq(Packet) /\ out[u] # <<>> /\ out[u][1].op = op /\ out'[u] = Tail(out[u])
BY DEF Handles, Has, Done, Idle, Types, ClientTypes, ShareInv, HandlerOK

\* The share begins and ends with u.
OwnShare(u) == sharer' = sharer \/ (sharer = NoUser /\ sharer' = u) \/ (sharer = u /\ sharer' = NoUser)

\* The handlers of the others are as right as before.
LEMMA OthersOK ==
    ASSUME Types, ShareInv, NEW u \in Users, HandlersAlone(u), OwnShare(u), version \in Nat,
           version' \in {version, version + 1}, NEW v \in Users, v # u
    PROVE HandlerOK(v)'
<1>1. HandlerOK(v) /\ v # NoUser
  BY ShareAssumption DEF ShareInv
<1>2. pc'[v] = pc[v] /\ msg'[v] = msg[v] /\ todo'[v] = todo[v]
  BY DEF HandlersAlone
<1>3. msg[v].op = "SCREEN_START" => sharer' = v
  BY <1>1 DEF OwnShare, HandlerOK
<1>4. pc[v] \in Leave => sharer' # v
  BY <1>1 DEF OwnShare, HandlerOK
<1>5. msg[v].op \in Numbered => msg[v].n <= version'
  <2>1. ASSUME msg[v].op \in Numbered PROVE msg[v].n <= version'
    <3>1. pc[v] \notin Idle
      BY <1>1, <2>1 DEF HandlerOK, NoPacket, Numbered, Announcements
    <3>2. msg[v].n \in Nat /\ msg[v].n <= version
      BY <1>1, <2>1, <3>1, PacketNumber DEF HandlerOK, Types, ServerTypes
    <3> QED
      BY <3>2
  <2> QED
    BY <2>1
<1> QED
  BY <1>1, <1>2, <1>3, <1>4, <1>5 DEF HandlerOK

\* Numbers of packets that are numbered
LEMMA NumberOf ==
    ASSUME Types, ShareInv, NEW u \in Users, msg[u].op \in Numbered
    PROVE msg[u].n \in Nat /\ msg[u].n <= version /\ pc[u] \notin Idle /\ pc[u] # "read" /\ msg[u] \in Packet
<1>1. HandlerOK(u)
  BY DEF ShareInv
<1>2. pc[u] \notin Idle
  BY <1>1 DEF HandlerOK, NoPacket, Numbered, Announcements
<1> QED
  BY <1>1, <1>2, PacketNumber DEF HandlerOK, Types, ServerTypes, Idle

\* The order is kept when u's handler has no new packet ...
LEMMA OrderKept ==
    ASSUME Types, ShareInv, NEW u \in Users, HandlersAlone(u), sharer' = sharer,
           version \in Nat, version' \in {version, version + 1},
           \/ msg'[u].op \notin {"SCREEN_START", "SCREEN_STOP", "REMOTE_GRANT", "ROOM_STATE"}
           \/ msg'[u].op = "REMOTE_GRANT" /\ sharer # NoUser
           \/ msg'[u] = msg[u] /\ (pc'[u] = "send" => pc[u] = "send" \/ msg[u].op # "ROOM_STATE")
           \/ pc'[u] # "send" /\ msg'[u].op = "ROOM_STATE"
    PROVE InOrder'
<1> DEFINE old(v) == \/ msg'[v] = msg[v] /\ (pc'[v] = "send" => pc[v] = "send" \/ msg[v].op # "ROOM_STATE")
                     \/ msg'[v].op \notin {"SCREEN_START", "SCREEN_STOP", "REMOTE_GRANT", "ROOM_STATE"}
                     \/ msg'[v].op = "REMOTE_GRANT" /\ sharer # NoUser
                     \/ pc'[v] # "send" /\ msg'[v].op = "ROOM_STATE"
<1>1. \A v \in Users : old(v)
  BY DEF HandlersAlone
<1>2. \A v \in Users : msg'[v].op = "SCREEN_STOP" => msg[v].n \in Nat /\ msg[v].n <= version /\ msg'[v] = msg[v]
  BY <1>1, NumberOf DEF Numbered, Announcements
<1>3. InOrder
  BY DEF ShareInv
<1>4. ASSUME NEW y \in Users, sharer' # NoUser, msg'[y].op = "SCREEN_STOP" PROVE msg'[y].n < version'
  BY <1>2, <1>3, <1>4 DEF InOrder
<1>6. ASSUME NEW y \in Users, sharer' = NoUser, msg'[y].op = "REMOTE_GRANT" PROVE msg'[y].n < version'
  <2>1. msg'[y] = msg[y] /\ msg[y].op = "REMOTE_GRANT"
    BY <1>1, <1>6
  <2>2. msg[y].n \in Nat /\ msg[y].n < version
    BY <1>3, <1>6, <2>1, NumberOf DEF InOrder, Numbered, Announcements
  <2> QED
    BY <2>1, <2>2
<1>5. ASSUME NEW x \in Users, NEW y \in Users, msg'[x].op = "SCREEN_START"
      PROVE /\ msg'[y].op = "SCREEN_STOP" => msg'[y].n < msg'[x].n
            /\ pc'[y] = "send" /\ msg'[y].op = "ROOM_STATE" /\ msg'[y].n >= msg'[x].n => msg'[y].sharer = x
  <2>1. msg'[x] = msg[x]
    BY <1>1, <1>5
  <2>2. msg'[y].op = "SCREEN_STOP" => msg'[y] = msg[y]
    BY <1>1
  <2>3. pc'[y] = "send" /\ msg'[y].op = "ROOM_STATE" => pc[y] = "send" /\ msg'[y] = msg[y]
    BY <1>1
  <2> QED
    BY <1>3, <1>5, <2>1, <2>2, <2>3 DEF InOrder
<1> QED
  BY <1>4, <1>5, <1>6 DEF InOrder

\* ... when it has a start to announce ...
LEMMA OrderStart ==
    ASSUME Types, ShareInv, NEW u \in Users, HandlersAlone(u), pc[u] = "read", sharer \in {NoUser, u}, sharer' = u,
           Announce(u, "clients", "SCREEN_START", u, NoUser)
    PROVE InOrder'
<1>1. /\ version \in Nat /\ version' = version + 1 /\ msg'[u].op = "SCREEN_START" /\ msg'[u].n = version + 1
  BY DEF Announce, GoTo, Types, ServerTypes
<1>2. \A v \in Users : v # u => pc'[v] = pc[v] /\ msg'[v] = msg[v]
  BY DEF HandlersAlone
<1>3. \A v \in Users : v # u => msg[v].op # "SCREEN_START"
  BY ShareAssumption DEF ShareInv, HandlerOK
<1>4. \A v \in Users : msg[v].op \in Numbered => msg[v].n \in Nat /\ msg[v].n <= version
  BY NumberOf
<1>5. \A v \in Users : msg'[v].op \in {"SCREEN_STOP", "ROOM_STATE"} => msg'[v].n < version + 1 /\ msg'[v].n \in Nat
  BY <1>1, <1>2, <1>4 DEF Numbered, Announcements
<1>6. \A v \in Users : msg'[v].op = "SCREEN_START" => v = u
  BY <1>2, <1>3
<1> QED
  BY <1>1, <1>5, <1>6, ShareAssumption DEF InOrder

\* ... when it has a stop, of u's share ...
LEMMA OrderStop ==
    ASSUME Types, ShareInv, NEW u \in Users, HandlersAlone(u), pc[u] = "read", sharer = u, sharer' = NoUser,
           NEW step, Announce(u, step, "SCREEN_STOP", u, NoUser)
    PROVE InOrder'
<1>1. msg'[u].op = "SCREEN_STOP" /\ version' = version + 1 /\ version \in Nat
  BY DEF Announce, GoTo, Types, ServerTypes
<1>2. \A v \in Users : v # u => msg'[v] = msg[v]
  BY DEF HandlersAlone
<1>3. \A v \in Users : v # u => msg[v].op # "SCREEN_START"
  BY DEF ShareInv, HandlerOK
<1>4. \A v \in Users : msg'[v].op # "SCREEN_START"
  BY <1>1, <1>2, <1>3
<1>5. \A v \in Users : msg[v].op \in Numbered => msg[v].n \in Nat /\ msg[v].n <= version
  BY NumberOf
<1>6. \A v \in Users : msg'[v].op = "REMOTE_GRANT" => msg'[v].n < version'
  BY <1>1, <1>2, <1>5 DEF Numbered, Announcements
<1> QED
  BY <1>4, <1>6 DEF InOrder

\* ... and when it has a description, of the share there is.
LEMMA OrderDescribe ==
    ASSUME Types, ShareInv, NEW u \in Users, HandlersAlone(u), sharer' = sharer, version' = version,
           msg'[u].op = "ROOM_STATE", msg'[u].sharer = sharer
    PROVE InOrder'
<1>1. \A v \in Users : v # u => pc'[v] = pc[v] /\ msg'[v] = msg[v]
  BY DEF HandlersAlone
<1>2. \A v \in Users : msg[v].op = "SCREEN_START" => sharer = v
  BY DEF ShareInv, HandlerOK
<1>3. InOrder
  BY DEF ShareInv
<1>4. ASSUME NEW y \in Users, sharer' # NoUser, msg'[y].op = "SCREEN_STOP" PROVE msg'[y].n < version'
  BY <1>1, <1>3, <1>4 DEF InOrder
<1>6. ASSUME NEW y \in Users, sharer' = NoUser, msg'[y].op = "REMOTE_GRANT" PROVE msg'[y].n < version'
  BY <1>1, <1>3, <1>6 DEF InOrder
<1>5. ASSUME NEW x \in Users, NEW y \in Users, msg'[x].op = "SCREEN_START"
      PROVE /\ msg'[y].op = "SCREEN_STOP" => msg'[y].n < msg'[x].n
            /\ pc'[y] = "send" /\ msg'[y].op = "ROOM_STATE" /\ msg'[y].n >= msg'[x].n => msg'[y].sharer = x
  <2>1. x # u /\ msg'[x] = msg[x] /\ sharer = x
    BY <1>1, <1>2, <1>5
  <2>2. CASE y = u
    BY <2>1, <2>2
  <2>3. CASE y # u
    BY <1>1, <1>3, <1>5, <2>1, <2>3 DEF InOrder
  <2> QED
    BY <2>2, <2>3
<1> QED
  BY <1>4, <1>5, <1>6 DEF InOrder

\* What a handler's step has to keep
LEMMA HandlerParts ==
    ASSUME Types, ShareInv, NEW u \in Users, Handler(u), OwnShare(u), version' \in {version, version + 1},
           HandlerOK(u)', newest' \in [Users -> Nat], \A v \in Users : newest'[v] <= version',
           sharer' # NoUser => sharer' \in members', repeated' \in BOOLEAN, InOrder'
    PROVE ShareInv'
<1>1. UNCHANGED clientSide /\ HandlersAlone(u) /\ version \in Nat
  BY HandlerAlone DEF ShareInv, Types, ServerTypes
<1>2. \A v \in Users : HandlerOK(v)'
  BY <1>1, OthersOK
<1>3. WindowTypes'
  BY <1>1 DEF ShareInv, WindowTypes, clientSide
<1> QED
  BY <1>2, <1>3 DEF ShareInv

\* A handler that ignores its packet, looks at it first, or forwards it to
\* the sharer
LEMMA QuietHandler ==
    ASSUME Types, ShareInv, NEW u \in Users, Handler(u), UNCHANGED <<sharer, version, newest, repeated>>,
           sharer' # NoUser => sharer' \in members', pc[u] = "read",
           \/ UNCHANGED <<pc, msg, todo>>
           \/ pc'[u] \in {"grant", "gone"} /\ UNCHANGED <<msg, todo>> /\ (pc'[u] = "gone" => sharer # u)
           \/ pc'[u] = "send" /\ msg'[u].op \in {"REMOTE_REQUEST", "REMOTE_EVENT"}
    PROVE ShareInv'
<1>1. HandlersAlone(u) /\ HandlerOK(u) /\ msg[u] = NoPacket /\ todo[u] = {}
  BY HandlerAlone DEF ShareInv, HandlerOK, Idle
<1>2. newest \in [Users -> Nat] /\ (\A v \in Users : newest[v] <= version) /\ repeated \in BOOLEAN /\ version \in Nat
  BY DEF ShareInv, WindowTypes, Types, ServerTypes
<1>3. HandlerOK(u)'
  <2>1. CASE UNCHANGED <<pc, msg, todo>>
    BY <1>1, <2>1 DEF HandlerOK
  <2>2. CASE pc'[u] = "send" /\ msg'[u].op \in {"REMOTE_REQUEST", "REMOTE_EVENT"}
    BY <2>2 DEF HandlerOK, Numbered, Announcements, Idle, Told, Leave
  <2>3. CASE pc'[u] \in {"grant", "gone"} /\ UNCHANGED <<msg, todo>> /\ (pc'[u] = "gone" => sharer # u)
    BY <1>1, <2>3 DEF HandlerOK, NoPacket, Numbered, Announcements, Idle, Told, Leave
  <2> QED
    BY <2>1, <2>2, <2>3
<1>4. msg'[u].op \notin {"SCREEN_START", "SCREEN_STOP", "REMOTE_GRANT", "ROOM_STATE"}
  BY <1>1 DEF NoPacket
<1>5. InOrder'
  BY <1>1, <1>2, <1>4, OrderKept
<1> QED
  BY <1>2, <1>3, <1>5, HandlerParts DEF OwnShare

\* The announcement is right.
LEMMA AnnouncedOK ==
    ASSUME Types, NEW u \in Users, todo[u] = {}, NEW step \in Told, NEW op \in Announcements,
           NEW s, NEW v, Announce(u, step, op, s, v),
           step \in {"state", "leave"} => sharer' # u,
           step \in {"state", "name"} => op = "REMOTE_GRANT",
           op = "SCREEN_START" => sharer' = u /\ s = u
    PROVE HandlerOK(u)' /\ version' = version + 1
<1>1. /\ version \in Nat /\ version' = version + 1 /\ pc'[u] = step /\ todo'[u] = {}
      /\ msg'[u] = [op |-> op, sharer |-> s, user |-> v, n |-> version + 1]
  BY DEF Announce, GoTo, Types, ServerTypes
<1>2. msg'[u].op = op /\ msg'[u].sharer = s /\ msg'[u].n = version + 1
  BY <1>1
<1>3. version + 1 <= version'
  BY <1>1
<1> QED
  BY <1>1, <1>2, <1>3 DEF HandlerOK, Told, Idle, Leave

LEMMA StartKeeps ==
    ASSUME Types, ShareInv, NEW u \in Users, HandleScreenStart(u) PROVE ShareInv'
<1>1. /\ pc[u] = "read" /\ todo[u] = {} /\ UNCHANGED <<newest, members>>
      /\ HandlersAlone(u) /\ Handler(u)
  <2>1. Handles(u, "SCREEN_START") /\ UNCHANGED <<newest, members>> /\ Handler(u)
    BY DEF HandleScreenStart, Handler
  <2> QED
    BY <2>1, Took, HandlerAlone DEF ShareInv
<1>2. /\ newest \in [Users -> Nat] /\ version \in Nat /\ \A v \in Users : newest[v] <= version
      /\ repeated \in BOOLEAN /\ (sharer # NoUser => sharer \in members)
  BY DEF ShareInv, WindowTypes, Types, ServerTypes
<1>3. CASE Ignored(u) /\ UNCHANGED <<sharer, share, repeated>>
  <2>1. UNCHANGED <<pc, msg, todo, version>>
    BY <1>3 DEF Ignored, handler
  <2> QED
    BY <1>1, <1>2, <1>3, <2>1, QuietHandler
<1>4. CASE /\ u \in members /\ sharer \in {NoUser, u} /\ sharer' = u
           /\ repeated' = (repeated \/ controller # NoUser)
           /\ Announce(u, "clients", "SCREEN_START", u, NoUser)
  <2>1. HandlerOK(u)' /\ version' = version + 1
    BY <1>1, <1>4, AnnouncedOK DEF Announcements, Told
  <2>2. InOrder'
    BY <1>1, <1>4, OrderStart
  <2>3. \A v \in Users : newest'[v] <= version'
    BY <1>1, <1>2, <2>1
  <2>4. OwnShare(u) /\ repeated' \in BOOLEAN
    BY <1>4 DEF OwnShare
  <2>5. newest' \in [Users -> Nat] /\ version' \in {version, version + 1} /\ (sharer' # NoUser => sharer' \in members')
    BY <1>1, <1>2, <1>4, <2>1
  <2> QED
    BY <1>1, <2>1, <2>2, <2>3, <2>4, <2>5, HandlerParts
<1> QED
  BY <1>3, <1>4 DEF HandleScreenStart

LEMMA StopKeeps ==
    ASSUME Types, ShareInv, NEW u \in Users, HandleScreenStop(u) \/ HandleLeaveRoom(u) PROVE ShareInv'
<1>1. /\ pc[u] = "read" /\ todo[u] = {} /\ UNCHANGED <<newest, repeated, members>>
      /\ HandlersAlone(u) /\ Handler(u)
  <2>1. (Handles(u, "SCREEN_STOP") \/ Handles(u, "LEAVE_ROOM")) /\ UNCHANGED <<newest, repeated, members>> /\ Handler(u)
    BY DEF HandleScreenStop, HandleLeaveRoom, Handler, knowledge
  <2> QED
    BY <2>1, Took, HandlerAlone DEF ShareInv
<1>2. /\ newest \in [Users -> Nat] /\ version \in Nat /\ \A v \in Users : newest[v] <= version
      /\ repeated \in BOOLEAN /\ (sharer # NoUser => sharer \in members) /\ u # NoUser
  BY ShareAssumption DEF ShareInv, WindowTypes, Types, ServerTypes
<1>3. CASE /\ UNCHANGED <<msg, todo, version, sharer>>
           /\ pc' = pc \/ (pc'[u] = "gone" /\ sharer # u)
  BY <1>1, <1>2, <1>3, QuietHandler
<1>4. ASSUME NEW step \in {"clients", "leave"}, step \in Told, sharer = u, sharer' = NoUser,
             Announce(u, step, "SCREEN_STOP", u, NoUser)
      PROVE ShareInv'
  <2>1. HandlerOK(u)' /\ version' = version + 1
    BY <1>1, <1>2, <1>4, AnnouncedOK DEF Announcements
  <2>2. InOrder'
    BY <1>1, <1>4, OrderStop
  <2>3. \A v \in Users : newest'[v] <= version'
    BY <1>1, <1>2, <2>1
  <2>4. newest' \in [Users -> Nat] /\ version' \in {version, version + 1} /\ OwnShare(u) /\ repeated' \in BOOLEAN
    BY <1>1, <1>2, <1>4, <2>1 DEF OwnShare
  <2> QED
    BY <1>1, <1>4, <2>1, <2>2, <2>3, <2>4, HandlerParts
<1>5. CASE /\ sharer # u /\ controller = u /\ sharer' = sharer
           /\ Announce(u, "state", "REMOTE_GRANT", sharer, NoUser)
  <2>0. sharer # NoUser
    BY <1>2, <1>5 DEF Types
  <2>1. HandlerOK(u)' /\ version' = version + 1
    BY <1>1, <1>5, AnnouncedOK DEF Announcements, Told
  <2>2. msg'[u].op = "REMOTE_GRANT"
    BY <1>5 DEF Announce, Types, ServerTypes
  <2>3. InOrder'
    BY <1>1, <1>2, <1>5, <2>0, <2>1, <2>2, OrderKept
  <2>4. \A v \in Users : newest'[v] <= version'
    BY <1>1, <1>2, <2>1
  <2>5. newest' \in [Users -> Nat] /\ version' \in {version, version + 1} /\ OwnShare(u) /\ repeated' \in BOOLEAN
        /\ (sharer' # NoUser => sharer' \in members')
    BY <1>1, <1>2, <1>5, <2>1 DEF OwnShare
  <2> QED
    BY <1>1, <2>1, <2>3, <2>4, <2>5, HandlerParts
<1>6. CASE HandleScreenStop(u)
  <2>1. \/ sharer = u /\ sharer' = NoUser /\ Announce(u, "clients", "SCREEN_STOP", u, NoUser)
        \/ UNCHANGED <<pc, msg, todo, version, sharer, members>>
    BY <1>6 DEF HandleScreenStop, StopShare, Ignored, handler
  <2> QED
    BY <1>3, <1>4, <2>1 DEF Told
<1>7. CASE HandleLeaveRoom(u)
  <2>1. \/ sharer = u /\ sharer' = NoUser /\ Announce(u, "leave", "SCREEN_STOP", u, NoUser)
        \/ sharer # u /\ controller = u /\ sharer' = sharer /\ Announce(u, "state", "REMOTE_GRANT", sharer, NoUser)
        \/ UNCHANGED <<msg, todo, version, sharer>> /\ pc'[u] = "gone" /\ sharer # u
    BY <1>7 DEF HandleLeaveRoom, StopShare, GoTo, Types, ServerTypes
  <2> QED
    BY <1>3, <1>4, <1>5, <2>1 DEF Told
<1> QED
  BY <1>6, <1>7

\* What handles a REMOTE_GRANT
Granting(u) == HandleRemoteGrant(u) \/ FindTarget(u) \/ SetController(u)

LEMMA GrantKeeps ==
    ASSUME Types, ShareInv, NEW u \in Users, Granting(u) PROVE ShareInv'
<1>1. /\ pc[u] \in Idle /\ todo[u] = {} /\ UNCHANGED <<newest, repeated, members, sharer>>
      /\ HandlersAlone(u) /\ Handler(u)
  <2>1. pc[u] \in Idle /\ UNCHANGED <<newest, repeated, members, sharer>> /\ Handler(u)
    BY DEF Granting, HandleRemoteGrant, FindTarget, SetController, Handler, Handles, Has, Idle, knowledge, order, relay
  <2> QED
    BY <2>1, HandlerAlone DEF ShareInv, HandlerOK
<1>2. /\ newest \in [Users -> Nat] /\ version \in Nat /\ \A v \in Users : newest[v] <= version
      /\ repeated \in BOOLEAN /\ (sharer # NoUser => sharer \in members)
  BY DEF ShareInv, WindowTypes, Types, ServerTypes
<1>3. CASE pc[u] = "read" /\ UNCHANGED <<msg, todo, version>> /\ (pc' = pc \/ pc'[u] = "grant")
  BY <1>1, <1>2, <1>3, QuietHandler
<1>4. ASSUME NEW step \in {"clients", "name"}, NEW target, sharer = u, Announce(u, step, "REMOTE_GRANT", u, target)
      PROVE ShareInv'
  <2>0. sharer # NoUser /\ step \in Told
    BY <1>4, ShareAssumption DEF Told
  <2>1. HandlerOK(u)' /\ version' = version + 1
    BY <1>1, <1>4, <2>0, AnnouncedOK DEF Announcements
  <2>2. msg'[u].op = "REMOTE_GRANT"
    BY <1>4 DEF Announce, Types, ServerTypes
  <2>3. InOrder'
    BY <1>1, <1>2, <2>0, <2>1, <2>2, OrderKept
  <2>4. \A v \in Users : newest'[v] <= version'
    BY <1>1, <1>2, <2>1
  <2>5. newest' \in [Users -> Nat] /\ version' \in {version, version + 1} /\ OwnShare(u) /\ repeated' \in BOOLEAN
        /\ (sharer' # NoUser => sharer' \in members')
    BY <1>1, <1>2, <2>1 DEF OwnShare
  <2> QED
    BY <1>1, <2>1, <2>3, <2>4, <2>5, HandlerParts
<1>5. CASE HandleRemoteGrant(u)
  <2>1. pc[u] = "read"
    BY <1>5 DEF HandleRemoteGrant, Handles, Has
  <2>2. UNCHANGED <<pc, msg, todo, version>> \/ (sharer = u /\ Announce(u, "clients", "REMOTE_GRANT", u, NoUser))
    BY <1>5 DEF HandleRemoteGrant, Ignored, handler
  <2> QED
    BY <1>3, <1>4, <2>1, <2>2
<1>6. CASE FindTarget(u)
  <2>1. pc[u] = "read" /\ UNCHANGED <<msg, todo, version>> /\ pc'[u] = "grant"
    BY <1>6 DEF FindTarget, Has, GoTo, order, Types, ServerTypes
  <2> QED
    BY <1>3, <2>1
<1>7. CASE SetController(u)
  <2>1. sharer = u /\ \E step \in {"clients", "name"} : \E target : Announce(u, step, "REMOTE_GRANT", u, target)
    BY <1>7 DEF SetController
  <2> QED
    BY <1>4, <2>1
<1> QED
  BY <1>5, <1>6, <1>7 DEF Granting

LEMMA ForwardKeeps ==
    ASSUME Types, ShareInv, NEW u \in Users, HandleRemoteRequest(u) \/ HandleRemoteEvent(u) PROVE ShareInv'
<1>1. /\ pc[u] = "read" /\ UNCHANGED <<newest, repeated, members, sharer, version>> /\ Handler(u)
  <2>1. /\ Handles(u, "REMOTE_REQUEST") \/ Handles(u, "REMOTE_EVENT")
        /\ UNCHANGED <<newest, repeated, members, sharer, version>> /\ Handler(u)
    BY DEF HandleRemoteRequest, HandleRemoteEvent, Handler, knowledge, relay, Forward, Ignored, handler
  <2> QED
    BY <2>1, Took
<1>2. sharer' # NoUser => sharer' \in members'
  BY <1>1 DEF ShareInv
<1>3. \/ UNCHANGED <<pc, msg, todo>>
      \/ pc'[u] = "send" /\ msg'[u].op \in {"REMOTE_REQUEST", "REMOTE_EVENT"}
  <2>1. DOMAIN pc = Users /\ DOMAIN msg = Users
    BY DEF Types, ServerTypes
  <2> QED
    BY <2>1 DEF HandleRemoteRequest, HandleRemoteEvent, Forward, Ignored, handler
<1> QED
  BY <1>1, <1>2, <1>3, QuietHandler

LEMMA RestKeeps ==
    ASSUME Types, ShareInv, NEW u \in Users, HandleJoinRoom(u) \/ Describe(u) \/ GetRoomClients(u) \/ LooksUp(u)
    PROVE ShareInv'
<1>1. UNCHANGED <<newest, repeated, sharer, version>> /\ HandlersAlone(u) /\ Handler(u)
  <2>1. UNCHANGED <<newest, repeated, sharer, version>> /\ Handler(u)
    BY DEF HandleJoinRoom, Describe, GetRoomClients, LooksUp, ReadName, GetState, GiveUpSeat, Handler, knowledge, relay, order
  <2> QED
    BY <2>1, HandlerAlone DEF ShareInv
<1>2. /\ newest \in [Users -> Nat] /\ version \in Nat /\ \A v \in Users : newest[v] <= version
      /\ repeated \in BOOLEAN /\ (sharer # NoUser => sharer \in members)
      /\ DOMAIN pc = Users /\ DOMAIN msg = Users /\ todo \in [Users -> SUBSET Users]
  BY DEF ShareInv, WindowTypes, Types, ServerTypes
<1>3. HandlerOK(u)
  BY DEF ShareInv
<1>4. CASE HandleJoinRoom(u)
  <2>1. Handles(u, "JOIN_ROOM") /\ members \subseteq members'
    BY <1>4 DEF HandleJoinRoom
  <2>2. todo[u] = {}
    BY <2>1, Took
  <2>3. pc'[u] = "describe" /\ todo'[u] = {} /\ msg'[u] = [NoPacket EXCEPT !.op = "ROOM_STATE"]
    BY <1>2, <1>4, <2>2 DEF HandleJoinRoom, GoTo
  <2>4. msg'[u].op = "ROOM_STATE" /\ msg'[u].n = 0 /\ 0 <= version
    BY <1>2, <2>3 DEF NoPacket
  <2>5. HandlerOK(u)'
    BY <1>1, <2>3, <2>4 DEF HandlerOK, Idle, Told, Leave
  <2>6. InOrder'
    BY <1>1, <1>2, <2>3, <2>4, OrderKept
  <2> QED
    BY <1>1, <1>2, <2>1, <2>5, <2>6, HandlerParts DEF OwnShare
<1>5. CASE Describe(u)
  <2>1. /\ pc'[u] = "send" /\ todo'[u] = {u} /\ members' = members
        /\ msg'[u] = [op |-> "ROOM_STATE", sharer |-> sharer, user |-> controller, n |-> version]
    BY <1>2, <1>5 DEF Describe, relay
  <2>2. msg'[u].op = "ROOM_STATE" /\ msg'[u].sharer = sharer /\ msg'[u].n = version /\ version <= version
    BY <1>2, <2>1
  <2>3. HandlerOK(u)'
    BY <1>1, <2>1, <2>2 DEF HandlerOK, Numbered, Idle, Told, Leave
  <2>4. InOrder'
    BY <1>1, <2>2, OrderDescribe
  <2> QED
    BY <1>1, <1>2, <2>1, <2>3, <2>4, HandlerParts DEF OwnShare
<1>6. CASE GetRoomClients(u)
  <2>1. /\ pc[u] \in Told /\ todo[u] = {}
        /\ pc[u] \in {"clients", "leave"} /\ members' = members
        /\ \/ pc'[u] = (IF pc[u] = "leave" THEN "bye" ELSE "send") /\ msg'[u] = msg[u]
           \/ pc'[u] = (IF pc[u] = "leave" THEN "gone" ELSE "read") /\ msg'[u] = NoPacket /\ todo'[u] = {}
    BY <1>2, <1>3, <1>6 DEF GetRoomClients, After, Leave, Told, HandlerOK, relay
  <2>2. msg[u].op \in Announcements /\ (pc[u] = "leave" => sharer # u)
    BY <1>3, <2>1 DEF HandlerOK, Leave
  <2>3. HandlerOK(u)'
    <3>1. CASE pc'[u] = (IF pc[u] = "leave" THEN "bye" ELSE "send") /\ msg'[u] = msg[u]
      BY <1>1, <1>3, <2>1, <2>2, <3>1 DEF HandlerOK, Numbered, Announcements, Idle, Told, Leave
    <3>2. CASE pc'[u] = (IF pc[u] = "leave" THEN "gone" ELSE "read") /\ msg'[u] = NoPacket /\ todo'[u] = {}
      BY <1>1, <2>1, <2>2, <3>2 DEF HandlerOK, NoPacket, Numbered, Announcements, Idle, Told, Leave
    <3> QED
      BY <2>1, <3>1, <3>2
  <2>4. InOrder'
    <3>1. (msg'[u] = msg[u] /\ msg[u].op # "ROOM_STATE") \/ msg'[u].op = "none"
      BY <2>1, <2>2 DEF NoPacket, Announcements
    <3> QED
      BY <1>1, <1>2, <3>1, OrderKept
  <2> QED
    BY <1>1, <1>2, <2>1, <2>2, <2>3, <2>4, HandlerParts DEF OwnShare
<1>7. CASE LooksUp(u)
  <2>1. \/ pc[u] = "name" /\ pc'[u] = "clients" /\ msg' = msg /\ members' = members
        \/ pc[u] = "name" /\ pc'[u] = "read" /\ msg'[u] = NoPacket /\ members' = members
        \/ pc[u] = "state" /\ pc'[u] = "leave" /\ msg' = msg /\ members' = members
        \/ pc[u] = "state" /\ pc'[u] = "gone" /\ msg'[u] = NoPacket /\ members' = members
        \/ pc[u] = "gone" /\ pc'[u] = "read" /\ msg' = msg /\ members' = members \ {u}
    BY <1>2, <1>7 DEF LooksUp, ReadName, GetState, GiveUpSeat, GoTo, relay
  <2>2. todo' = todo /\ todo[u] = {} /\ (pc[u] = "gone" => msg[u] = NoPacket /\ sharer # u)
    BY <1>3, <1>7, <2>1 DEF LooksUp, ReadName, GetState, GiveUpSeat, GoTo, HandlerOK, Idle, Told, Leave
  <2>3. HandlerOK(u)'
    BY <1>1, <1>3, <2>1, <2>2 DEF HandlerOK, NoPacket, Numbered, Announcements, Idle, Told, Leave
  <2>4. (msg'[u] = msg[u] /\ pc'[u] # "send") \/ msg'[u].op = "none"
    BY <2>1 DEF NoPacket
  <2>5. InOrder'
    BY <1>1, <1>2, <2>4, OrderKept
  <2>6. sharer' # NoUser => sharer' \in members'
    BY <1>1, <1>2, <2>1, <2>2
  <2> QED
    BY <1>1, <1>2, <2>3, <2>5, <2>6, HandlerParts DEF OwnShare
<1> QED
  BY <1>4, <1>5, <1>6, <1>7

\* A packet reaches v, who is told of its number.
LEMMA SendKeeps ==
    ASSUME Types, ShareInv, NEW u \in Users, NEW v \in Users, Send(u, v) PROVE ShareInv'
<1>1. UNCHANGED <<repeated, sharer, version, members>> /\ HandlersAlone(u) /\ Handler(u)
  <2>1. UNCHANGED <<repeated, sharer, version, members>> /\ Handler(u)
    BY DEF Send, Handler, knowledge, relay
  <2> QED
    BY <2>1, HandlerAlone DEF ShareInv
<1>2. /\ newest \in [Users -> Nat] /\ version \in Nat /\ \A w \in Users : newest[w] <= version
      /\ repeated \in BOOLEAN /\ (sharer # NoUser => sharer \in members)
      /\ DOMAIN pc = Users /\ DOMAIN msg = Users /\ todo \in [Users -> SUBSET Users]
  BY DEF ShareInv, WindowTypes, Types, ServerTypes
<1>3. HandlerOK(u)
  BY DEF ShareInv
<1>4. /\ pc[u] \in {"send", "bye"} /\ todo'[u] = todo[u] \ {v}
      /\ \/ pc'[u] = pc[u] /\ msg'[u] = msg[u]
         \/ pc'[u] = After(pc[u]) /\ msg'[u] = NoPacket /\ todo'[u] = {}
      /\ \/ newest' = newest
         \/ msg[u].op \notin {"REMOTE_REQUEST", "REMOTE_EVENT"} /\ newest' = [newest EXCEPT ![v] = msg[u].n]
  BY <1>2 DEF Send
<1>5. msg[u] \in Packet
  BY <1>4 DEF Types, ServerTypes, Idle
<1>6. newest' \in [Users -> Nat] /\ \A w \in Users : newest'[w] <= version'
  <2>1. CASE newest' = newest
    BY <1>1, <1>2, <2>1
  <2>2. CASE msg[u].op \notin {"REMOTE_REQUEST", "REMOTE_EVENT"} /\ newest' = [newest EXCEPT ![v] = msg[u].n]
    <3>1. msg[u].n \in Nat
      BY <1>5, PacketNumber
    <3>2. msg[u].n <= version
      BY <1>3, <1>4, <2>2 DEF HandlerOK, Numbered
    <3> QED
      BY <1>1, <1>2, <2>2, <3>1, <3>2
  <2> QED
    BY <1>4, <2>1, <2>2
<1>7. HandlerOK(u)'
  <2>1. CASE pc'[u] = pc[u] /\ msg'[u] = msg[u]
    BY <1>1, <1>3, <1>4, <2>1 DEF HandlerOK, Idle, Told, Leave
  <2>2. CASE pc'[u] = After(pc[u]) /\ msg'[u] = NoPacket /\ todo'[u] = {}
    BY <1>1, <1>3, <1>4, <2>2 DEF HandlerOK, NoPacket, Numbered, Announcements, After, Idle, Told, Leave
  <2> QED
    BY <1>4, <2>1, <2>2
<1>8. InOrder'
  <2>1. (msg'[u] = msg[u] /\ pc'[u] = pc[u]) \/ msg'[u].op = "none"
    BY <1>4 DEF NoPacket
  <2> QED
    BY <1>1, <1>2, <1>4, <2>1, OrderKept
<1> QED
  BY <1>1, <1>2, <1>6, <1>7, <1>8, HandlerParts DEF OwnShare

LEMMA ShareStep == ASSUME Types, ShareInv, [Next]_vars PROVE ShareInv'
<1>1. ASSUME NEW u \in Users, ClientDoes(u) PROVE ShareInv'
  <2>1. UNCHANGED serverSide /\ WindowTypes'
    BY <1>1, ClientAlone DEF ShareInv
  <2> QED
    BY <2>1 DEF ShareInv, serverSide, HandlerOK, InOrder
<1>2. ASSUME NEW u \in Users, Handler(u) PROVE ShareInv'
  BY <1>2, StartKeeps, StopKeeps, GrantKeeps, ForwardKeeps, RestKeeps, SendKeeps DEF Handler, Granting, LooksUp
<1>3. CASE UNCHANGED vars
  BY <1>3 DEF vars, relay, handler, window, bounds, order, knowledge, ShareInv, WindowTypes, HandlerOK, InOrder
<1> QED
  BY <1>1, <1>2, <1>3 DEF Next, ClientDoes

LEMMA ShareInit == Init => ShareInv
<1> SUFFICES ASSUME Init PROVE ShareInv
  OBVIOUS
<1>1. WindowTypes
  <2>1. NoShare \in [sharer : Someone, controller : Someone]
    BY DEF NoShare, View, Someone
  <2> QED
    BY <2>1 DEF Init, WindowTypes
<1>2. ASSUME NEW u \in Users PROVE HandlerOK(u) /\ newest[u] <= version
  <2>1. pc[u] = "read" /\ todo[u] = {} /\ msg[u] = NoPacket /\ newest[u] = 0 /\ version = 0
    BY DEF Init
  <2>2. NoPacket.op = "none"
    BY DEF NoPacket
  <2>3. HandlerOK(u)
    BY <2>1, <2>2 DEF HandlerOK, Numbered, Announcements, Idle, Told, Leave
  <2> QED
    BY <2>1, <2>3
<1>3. InOrder
  BY DEF Init, InOrder, NoPacket
<1>4. sharer # NoUser => sharer \in members
  BY DEF Init
<1> QED
  BY <1>1, <1>2, <1>3, <1>4 DEF ShareInv

-----------------------------------------------------------------------------
(* Who captures *)

\* The packets s have one of the kind op; one that ends a share, and no start
\* after it.
Posted(s, op) == \E i \in 1 .. Len(s) : s[i].op = op
Ends == {"SCREEN_STOP", "LEAVE_ROOM"}
Ended(s) == \E i \in 1 .. Len(s) : s[i].op \in Ends /\ \A j \in (i + 1) .. Len(s) : s[j].op # "SCREEN_START"

\* w's handler will tell u of its packet: of an end, of a start, unless u was
\* told of something newer.
Pending(w, u) == pc[w] \in {"clients", "name"} \/ (pc[w] \in {"state", "leave"} /\ w # u) \/ u \in todo[w]
Stops(w, u) == Pending(w, u) /\ msg[w].op = "SCREEN_STOP" /\ newest[u] <= msg[w].n
Tells(x, u) == Pending(x, u) /\ msg[x].op \in {"SCREEN_START", "ROOM_STATE"} /\ newest[u] <= msg[x].n

\* EngineServes makes no exception for u.
Counts(u) == u \notin hasty \cup overtaken /\ ~failed

\* u captures for the share that there is, or that u asks for.
Holds(u) == u \in engine /\ (sharer = u \/ Posted(out[u], "SCREEN_START"))

\* If u does not capture, u does not share, or says so.
Stopping(u) == Ended(out[u]) \/ (~Posted(out[u], "SCREEN_START") /\ sharer # u)

\* If u does, u stays.
Staying(u) ==
    /\ u \in members /\ pc[u] \notin Leave /\ msg[u].op # "SCREEN_STOP"
    /\ \A op \in Ends : ~Posted(out[u], op)

\* No end of a share under way to u will find u's window showing u as the
\* sharer: it is shown whose share ends.  While somebody else shares, u will
\* be told so, or knows it already.
Others(u) == Someone \ {u}
Last(u) == Len(inbox[u]) + 1
Harmless(u, i) == Shown(view[u].sharer, inbox[u], i, "sharer", Others(u))
Unharmed(u) ==
    /\ \A i \in 1 .. Len(inbox[u]) : inbox[u][i].op = "SCREEN_STOP" => Harmless(u, i)
    /\ \A w \in Users : Stops(w, u) => Harmless(u, Last(u))
    /\ \A w, x \in Users : Stops(w, u) /\ Tells(x, u) /\ msg[x].sharer = u => msg[w].n < msg[x].n
    /\ sharer \notin {NoUser, u} =>
        \/ Pending(sharer, u) /\ msg[sharer].op = "SCREEN_START"
        \/ /\ Shown(view[u].sharer, inbox[u], Last(u), "sharer", {sharer})
           /\ \A w \in Users : ~Stops(w, u)
           /\ \A x \in Users : Tells(x, u) => msg[x].sharer = sharer

EngineOK(u) ==
    Counts(u) => /\ u \notin engine => Stopping(u)
                 /\ u \in engine => Staying(u)
                 /\ Holds(u) => Unharmed(u)

\* One more packet
LEMMA PostedAppend ==
    ASSUME NEW s \in Seq(Packet), NEW p \in Packet
    PROVE /\ \A op : Posted(Append(s, p), op) <=> Posted(s, op) \/ p.op = op
          /\ p.op \in Ends => Ended(Append(s, p))
          /\ p.op # "SCREEN_START" /\ Ended(s) => Ended(Append(s, p))
<1> DEFINE t == Append(s, p)
<1>1. /\ t \in Seq(Packet) /\ Len(t) = Len(s) + 1 /\ Len(s) \in Nat
      /\ \A i \in 1 .. Len(s) : t[i] = s[i] /\ i \in 1 .. Len(t)
      /\ t[Len(s) + 1] = p /\ Len(s) + 1 \in 1 .. Len(t)
      /\ \A i \in 1 .. Len(t) : i \in 1 .. Len(s) \/ i = Len(s) + 1
  OBVIOUS
<1> HIDE DEF t
<1>2. \A op : Posted(t, op) <=> Posted(s, op) \/ p.op = op
  BY <1>1 DEF Posted
<1>3. ASSUME p.op \in Ends PROVE Ended(t)
  <2>1. (Len(s) + 1 + 1) .. Len(t) = {}
    BY <1>1
  <2> QED
    BY <1>1, <1>3, <2>1 DEF Ended
<1>4. ASSUME p.op # "SCREEN_START", Ended(s) PROVE Ended(t)
  <2>1. PICK i \in 1 .. Len(s) : s[i].op \in Ends /\ \A j \in (i + 1) .. Len(s) : s[j].op # "SCREEN_START"
    BY <1>4 DEF Ended
  <2>2. ASSUME NEW j \in (i + 1) .. Len(t) PROVE t[j].op # "SCREEN_START"
    <3>1. CASE j = Len(s) + 1
      BY <1>1, <1>4, <3>1
    <3>2. CASE j # Len(s) + 1
      <4>1. j \in (i + 1) .. Len(s) /\ j \in 1 .. Len(s)
        BY <1>1, <3>2
      <4> QED
        BY <1>1, <2>1, <4>1
    <3> QED
      BY <3>1, <3>2
  <2> QED
    BY <1>1, <2>1, <2>2 DEF Ended
<1> QED
  BY <1>2, <1>3, <1>4 DEF t

\* The first packet is taken.
LEMMA PostedTail ==
    ASSUME NEW s \in Seq(Packet), s # <<>>
    PROVE /\ \A op : Posted(s, op) <=> s[1].op = op \/ Posted(Tail(s), op)
          /\ Ended(s) => Ended(Tail(s)) \/ (s[1].op \in Ends /\ ~Posted(Tail(s), "SCREEN_START"))
<1> DEFINE t == Tail(s)
<1>1. /\ Len(t) + 1 = Len(s) /\ Len(s) \in Nat /\ Len(t) \in Nat /\ 1 \in 1 .. Len(s)
      /\ \A i \in 1 .. Len(t) : t[i] = s[i + 1] /\ i + 1 \in 1 .. Len(s)
  OBVIOUS
<1> HIDE DEF t
<1>2. ASSUME NEW i \in 1 .. Len(s), i # 1 PROVE i - 1 \in 1 .. Len(t) /\ t[i - 1] = s[i]
  <2>1. i - 1 \in 1 .. Len(t) /\ (i - 1) + 1 = i
    BY <1>1, <1>2
  <2> QED
    BY <1>1, <2>1
<1>3. \A op : Posted(s, op) <=> s[1].op = op \/ Posted(t, op)
  BY <1>1, <1>2 DEF Posted
<1>4. ASSUME Ended(s), ~Ended(t) PROVE s[1].op \in Ends /\ ~Posted(t, "SCREEN_START")
  <2>1. PICK i \in 1 .. Len(s) : s[i].op \in Ends /\ \A j \in (i + 1) .. Len(s) : s[j].op # "SCREEN_START"
    BY <1>4 DEF Ended
  <2>2. i = 1
    <3>1. SUFFICES ASSUME i # 1 PROVE FALSE
      OBVIOUS
    <3> DEFINE h == i - 1
    <3>2. h \in 1 .. Len(t) /\ t[h] = s[i] /\ h + 1 = i
      BY <1>2, <3>1
    <3>3. ASSUME NEW j \in (h + 1) .. Len(t) PROVE t[j].op # "SCREEN_START"
      <4>1. j \in 1 .. Len(t) /\ j + 1 \in (i + 1) .. Len(s)
        BY <1>1, <3>2
      <4> QED
        BY <1>1, <2>1, <4>1
    <3> HIDE DEF h
    <3> QED
      BY <1>4, <2>1, <3>2, <3>3 DEF Ended
  <2>3. \A j \in 1 .. Len(t) : j + 1 \in (i + 1) .. Len(s) /\ t[j] = s[j + 1]
    BY <1>1, <2>2
  <2> QED
    BY <2>1, <2>2, <2>3 DEF Posted
<1> QED
  BY <1>3, <1>4 DEF t

\* What the others' clients do does not matter.
LEMMA EngineAside ==
    ASSUME NEW u \in Users, EngineOK(u), UNCHANGED <<members, sharer, pc, msg, todo, newest, overtaken>>,
           view'[u] = view[u], out'[u] = out[u], inbox'[u] = inbox[u],
           u \in engine' <=> u \in engine, u \in hasty' <=> u \in hasty, failed => failed'
    PROVE EngineOK(u)'
<1>1. Counts(u)' => Counts(u)
  BY DEF Counts
<1>2. Stopping(u)' <=> Stopping(u)
  BY DEF Stopping
<1>3. Staying(u)' <=> Staying(u)
  BY DEF Staying
<1>4. Holds(u)' <=> Holds(u)
  BY DEF Holds
<1>5. \A w : (Stops(w, u)' <=> Stops(w, u)) /\ (Tells(w, u)' <=> Tells(w, u)) /\ (Pending(w, u)' <=> Pending(w, u))
  BY DEF Stops, Tells, Pending
<1>6. (\A i : Harmless(u, i)' <=> Harmless(u, i)) /\ Last(u)' = Last(u)
  BY DEF Harmless, Last
<1>7. Unharmed(u) => Unharmed(u)'
  BY <1>5, <1>6 DEF Unharmed
<1> QED
  BY <1>1, <1>2, <1>3, <1>4, <1>7 DEF EngineOK

\* u's window hears the next packet, or none.
Listens(u) ==
    \/ inbox'[u] = inbox[u] /\ view'[u].sharer = view[u].sharer
    \/ /\ inbox[u] # <<>> /\ inbox'[u] = Tail(inbox[u])
       /\ view'[u].sharer = IF NewsOf(inbox[u][1], "sharer") THEN Says(inbox[u][1], "sharer") ELSE view[u].sharer

LEMMA UnharmedListens ==
    ASSUME Types, NEW u \in Users, Unharmed(u), UNCHANGED <<sharer, pc, msg, todo, newest>>, Listens(u)
    PROVE Unharmed(u)'
<1>1. inbox[u] \in Seq(Packet)
  BY DEF Types, ClientTypes
<1>2. \A w : (Stops(w, u)' <=> Stops(w, u)) /\ (Tells(w, u)' <=> Tells(w, u)) /\ (Pending(w, u)' <=> Pending(w, u))
  BY DEF Stops, Tells, Pending
<1>3. CASE inbox'[u] = inbox[u] /\ view'[u].sharer = view[u].sharer
  <2>1. (\A i : Harmless(u, i)' <=> Harmless(u, i)) /\ Last(u)' = Last(u)
    BY <1>3 DEF Harmless, Last
  <2> QED
    BY <1>2, <1>3, <2>1 DEF Unharmed
<1>4. CASE /\ inbox[u] # <<>> /\ inbox'[u] = Tail(inbox[u])
           /\ view'[u].sharer = IF NewsOf(inbox[u][1], "sharer") THEN Says(inbox[u][1], "sharer") ELSE view[u].sharer
  <2> DEFINE s == inbox[u]
             t == Tail(s)
  <2>1. /\ Len(t) + 1 = Len(s) /\ Len(t) \in Nat /\ Len(s) \in Nat
        /\ \A i \in 1 .. Len(t) : i + 1 \in 1 .. Len(s) /\ t[i] = s[i + 1]
    BY <1>1, <1>4
  <2>2. \A S : \A i \in 1 .. Len(s) : Shown(view[u].sharer, s, i + 1, "sharer", S) => Shown(view'[u].sharer, t, i, "sharer", S)
    BY <1>1, <1>4, ShownTail
  <2>3. s = inbox[u] /\ t = inbox'[u]
    BY <1>4
  <2> HIDE DEF s, t
  <2>4. \A i \in 1 .. Len(s) : Harmless(u, i + 1) => Harmless(u, i)'
    BY <2>2, <2>3 DEF Harmless, Others
  <2>5. Last(u)' \in 1 .. Len(s) /\ Last(u)' + 1 = Last(u)
    <3>1. Last(u)' = Len(t) + 1 /\ Last(u) = Len(s) + 1
      BY <2>3 DEF Last
    <3> QED
      BY <2>1, <3>1
  <2>6. Harmless(u, Last(u)) => Harmless(u, Last(u))'
    <3>1. Harmless(u, Last(u)' + 1) => Shown(view'[u].sharer, t, Last(u)', "sharer", Others(u))
      BY <2>2, <2>3, <2>5 DEF Harmless
    <3> QED
      BY <2>3, <2>5, <3>1 DEF Harmless, Others
  <2>7. Shown(view[u].sharer, s, Last(u), "sharer", {sharer}) => Shown(view'[u].sharer, t, Last(u)', "sharer", {sharer})
    BY <2>2, <2>5
  <2>8. \A i \in 1 .. Len(t) : t[i].op = "SCREEN_STOP" => Harmless(u, i)'
    BY <2>1, <2>3, <2>4 DEF Unharmed
  <2> QED
    BY <1>2, <2>3, <2>6, <2>7, <2>8 DEF Unharmed
<1> QED
  BY <1>3, <1>4 DEF Listens

\* u's client posts at most one packet, no start and no end.
PostsAside(u) ==
    \/ out'[u] = out[u]
    \/ \E p \in Packet : out'[u] = Append(out[u], p) /\ p.op \notin Ends \cup {"SCREEN_START"}

LEMMA PostedAside ==
    ASSUME Types, NEW u \in Users, PostsAside(u)
    PROVE /\ \A op \in Ends \cup {"SCREEN_START"} : Posted(out'[u], op) <=> Posted(out[u], op)
          /\ Ended(out[u]) => Ended(out'[u])
<1>1. out[u] \in Seq(Packet)
  BY DEF Types, ClientTypes
<1>2. CASE out'[u] = out[u]
  BY <1>2
<1>3. ASSUME NEW p \in Packet, out'[u] = Append(out[u], p), p.op \notin Ends \cup {"SCREEN_START"}
      PROVE /\ \A op \in Ends \cup {"SCREEN_START"} : Posted(out'[u], op) <=> Posted(out[u], op)
            /\ Ended(out[u]) => Ended(out'[u])
  <2>1. /\ \A op : Posted(out'[u], op) <=> Posted(out[u], op) \/ p.op = op
        /\ p.op # "SCREEN_START" /\ Ended(out[u]) => Ended(out'[u])
    BY <1>1, <1>3, PostedAppend
  <2> QED
    BY <1>3, <2>1
<1> QED
  BY <1>2, <1>3 DEF PostsAside

\* ... and listens, and goes on capturing.
LEMMA EngineListens ==
    ASSUME Types, NEW u \in Users, EngineOK(u), UNCHANGED serverSide, Listens(u), PostsAside(u),
           u \in engine' <=> u \in engine, u \in hasty => u \in hasty', failed => failed'
    PROVE EngineOK(u)'
<1>1. Counts(u)' => Counts(u)
  BY DEF Counts, serverSide
<1>2. /\ \A op \in Ends \cup {"SCREEN_START"} : Posted(out'[u], op) <=> Posted(out[u], op)
      /\ Ended(out[u]) => Ended(out'[u])
  BY PostedAside
<1>3. UNCHANGED <<members, sharer, pc, msg, todo, newest>>
  BY DEF serverSide
<1>4. Stopping(u) => Stopping(u)'
  BY <1>2, <1>3 DEF Stopping
<1>5. Staying(u) => Staying(u)'
  BY <1>2, <1>3 DEF Staying
<1>6. Holds(u)' => Holds(u)
  BY <1>2, <1>3 DEF Holds
<1>7. Unharmed(u) => Unharmed(u)'
  BY <1>3, UnharmedListens
<1> QED
  BY <1>1, <1>4, <1>5, <1>6, <1>7 DEF EngineOK

\* u stops capturing, and says so if need be.
LEMMA EngineEnds ==
    ASSUME NEW u \in Users, EngineOK(u), UNCHANGED serverSide, u \notin engine',
           u \in hasty => u \in hasty', failed => failed',
           u \in engine => Stopping(u)', u \notin engine /\ Stopping(u) => Stopping(u)'
    PROVE EngineOK(u)'
<1>1. Counts(u)' => Counts(u)
  BY DEF Counts, serverSide
<1>2. ~Holds(u)'
  BY DEF Holds
<1> QED
  BY <1>1, <1>2 DEF EngineOK

\* u starts to capture while nothing is under way that could end it.
LEMMA EngineStarts ==
    ASSUME Types, ShareInv, NEW u \in Users, StartScreenShare(u) PROVE EngineOK(u)'
<1>1. UNCHANGED serverSide
  BY ClientAlone DEF ClientDoes, Clicks, ShareInv
<1>2. /\ engine' = engine \cup {u} /\ hasty' = IF Behind(u) THEN hasty \cup {u} ELSE hasty
      /\ inbox' = inbox
      /\ out' = [out EXCEPT ![u] = Append(out[u], [op |-> "SCREEN_START", sharer |-> u, user |-> NoUser, n |-> starts'[u]])]
      /\ starts' = [starts EXCEPT ![u] = @ + 1]
  BY DEF StartScreenShare, Post
<1> DEFINE p == [op |-> "SCREEN_START", sharer |-> u, user |-> NoUser, n |-> starts'[u]]
<1>3. out[u] \in Seq(Packet) /\ inbox[u] \in Seq(Packet) /\ p \in Packet /\ p.op = "SCREEN_START" /\ out'[u] = Append(out[u], p)
  <2>1. starts'[u] \in Nat /\ out \in [Users -> Seq(Packet)]
    BY <1>2 DEF Types, ClientTypes
  <2> QED
    BY <1>2, <2>1 DEF Types, ClientTypes, Packet, Ops, Someone
<1> HIDE DEF p
<1>4. SUFFICES ASSUME Counts(u)' PROVE Staying(u)' /\ Unharmed(u)'
  BY <1>2 DEF EngineOK
<1>5. ~Behind(u)
  BY <1>2, <1>4 DEF Counts
<1>6. /\ DOMAIN out[u] = 1 .. Len(out[u]) /\ DOMAIN inbox[u] = 1 .. Len(inbox[u])
  BY <1>3
<1>7. /\ \A op \in Ends : ~Posted(out[u], op)
      /\ \A v \in Users : msg[v].op # "SCREEN_STOP"
      /\ \A i \in 1 .. Len(inbox[u]) : inbox[u][i].op # "SCREEN_STOP"
      /\ sharer \in {NoUser, u} /\ u \in members /\ pc[u] \notin Leave
  BY <1>5, <1>6 DEF Behind, Posted, Ends
<1>8. \A op \in Ends : ~Posted(out'[u], op)
  BY <1>3, <1>7, PostedAppend DEF Ends
<1>9. Staying(u)'
  BY <1>1, <1>7, <1>8 DEF Staying, serverSide
<1>10. \A w \in Users : ~Stops(w, u)'
  BY <1>1, <1>7 DEF Stops, serverSide
<1>11. Unharmed(u)'
  BY <1>1, <1>2, <1>7, <1>10 DEF Unharmed, serverSide
<1> QED
  BY <1>9, <1>11

\* What u's client posts besides starts and ends
LEMMA PostAside ==
    ASSUME Types, Types', NEW u \in Users, NEW op \in Ops \ {"SCREEN_START", "SCREEN_STOP", "LEAVE_ROOM"},
           NEW v \in Someone, Post(u, op, v)
    PROVE PostsAside(u)
<1> DEFINE p == [op |-> op, sharer |-> u, user |-> v, n |-> starts'[u]]
<1>1. starts'[u] \in Nat /\ out \in [Users -> Seq(Packet)]
  BY DEF ClientTypes, Types
<1>2. p \in Packet /\ p.op = op
  BY <1>1 DEF Packet, Someone
<1>3. out'[u] = Append(out[u], p)
  BY <1>1 DEF Post
<1> HIDE DEF p
<1> QED
  BY <1>2, <1>3 DEF PostsAside, Ends

LEMMA PostsOnly ==
    ASSUME Types, Types', NEW u \in Users,
           \/ OnRequestClicked(u) \/ JoinRoom(u) \/ EventFilter(u) \/ SelectRoom(u) \/ OnRevokeClicked(u)
           \/ \E yes \in BOOLEAN : AnswerRequest(u, yes)
           \/ OnRemoteRequest(u) \/ OnRemoteGrant(u) \/ OnRemoteEvent(u)
    PROVE PostsAside(u)
<1>1. NoUser \in Someone /\ u \in Someone
  BY DEF Someone
<1>2. CASE OnRequestClicked(u)
  <2>1. Post(u, "REMOTE_REQUEST", NoUser)
    BY <1>2 DEF OnRequestClicked
  <2> QED
    BY <1>1, <2>1, PostAside DEF Ops
<1>3. CASE JoinRoom(u)
  <2>1. Post(u, "JOIN_ROOM", NoUser)
    BY <1>3 DEF JoinRoom
  <2> QED
    BY <1>1, <2>1, PostAside DEF Ops
<1>4. CASE EventFilter(u)
  <2>1. Post(u, "REMOTE_EVENT", u)
    BY <1>4 DEF EventFilter
  <2> QED
    BY <1>1, <2>1, PostAside DEF Ops
<1>5. CASE SelectRoom(u)
  BY <1>5 DEF SelectRoom, PostsAside
<1>6. CASE OnRevokeClicked(u) \/ OnRemoteRequest(u) \/ OnRemoteGrant(u) \/ OnRemoteEvent(u)
  <2>1. out' = out \/ Post(u, "REMOTE_GRANT", NoUser)
    BY <1>6 DEF OnRevokeClicked, OnRemoteRequest, OnRemoteGrant, OnRemoteEvent
  <2> QED
    BY <1>1, <2>1, PostAside DEF Ops, PostsAside
<1>7. ASSUME NEW yes \in BOOLEAN, AnswerRequest(u, yes) PROVE PostsAside(u)
  <2> DEFINE v == Granted(dialog[u][Len(dialog[u])], yes)
  <2>1. out' = out \/ Post(u, "REMOTE_GRANT", v)
    BY <1>7 DEF AnswerRequest
  <2>2. v \in Someone
    <3>1. dialog[u] # <<>> /\ dialog[u] \in Seq(Someone)
      BY <1>7 DEF AnswerRequest, Types, ClientTypes
    <3>2. dialog[u][Len(dialog[u])] \in Someone
      BY <3>1
    <3> QED
      BY <1>1, <3>2 DEF Granted
  <2> HIDE DEF v
  <2> QED
    BY <2>1, <2>2, PostAside DEF Ops, PostsAside
<1> QED
  BY <1>2, <1>3, <1>4, <1>5, <1>6, <1>7

\* The end of a share is what u's client posts last.
LEMMA PostEnd ==
    ASSUME Types, Types', NEW u \in Users, Post(u, "SCREEN_STOP", NoUser) PROVE Ended(out'[u])
<1> DEFINE p == [op |-> "SCREEN_STOP", sharer |-> u, user |-> NoUser, n |-> starts'[u]]
<1>1. starts'[u] \in Nat /\ out \in [Users -> Seq(Packet)] /\ out[u] \in Seq(Packet)
  BY DEF ClientTypes, Types
<1>2. p \in Packet /\ p.op \in Ends
  BY <1>1 DEF Packet, Someone, Ops, Ends
<1>3. out'[u] = Append(out[u], p)
  BY <1>1 DEF Post
<1> HIDE DEF p
<1> QED
  BY <1>1, <1>2, <1>3, PostedAppend

\* u leaves the room it looks at: the capture that runs is ended.
LEMMA EngineLeaves ==
    ASSUME Types, ShareInv, NEW u \in Users, EngineOK(u), SelectOther(u) \/ LeaveRoom(u) PROVE EngineOK(u)'
<1>1. UNCHANGED serverSide
  BY ClientAlone DEF ClientDoes, Clicks, ShareInv
<1> DEFINE left == [op |-> "LEAVE_ROOM", sharer |-> u, user |-> NoUser, n |-> 0]
           stop == [op |-> "SCREEN_STOP", sharer |-> u, user |-> NoUser, n |-> starts[u]]
           end == IF u \in engine THEN <<stop>> ELSE <<>>
           s == out[u]
<1>2. /\ u \notin engine' /\ UNCHANGED <<hasty, failed>>
      /\ out'[u] = s \o <<>> \o end \/ out'[u] = s \o <<left>> \o end
  BY DEF SelectOther, LeaveRoom, SetCurrentRoom, Types, ClientTypes, knowledge
<1>3. s \in Seq(Packet) /\ left \in Packet /\ stop \in Packet /\ left.op = "LEAVE_ROOM" /\ stop.op = "SCREEN_STOP"
  BY DEF Types, ClientTypes, Packet, Ops, Someone
<1> HIDE DEF left, stop, s
<1>4. \/ u \in engine /\ (out'[u] = Append(s, stop) \/ out'[u] = Append(Append(s, left), stop))
      \/ u \notin engine /\ (out'[u] = s \/ out'[u] = Append(s, left))
  <2>1. \A t \in Seq(Packet) : t \o <<>> = t /\ t \o <<stop>> = Append(t, stop) /\ t \o <<left>> = Append(t, left)
    BY <1>3
  <2>2. Append(s, left) \in Seq(Packet)
    BY <1>3
  <2> QED
    BY <1>2, <1>3, <2>1, <2>2
<1>5. Append(s, left) \in Seq(Packet)
  BY <1>3
<1>6. u \in engine => Ended(out'[u])
  <2>1. stop.op \in Ends
    BY <1>3 DEF Ends
  <2>2. \A t \in Seq(Packet) : Ended(Append(t, stop))
    BY <1>3, <2>1, PostedAppend
  <2> QED
    BY <1>3, <1>4, <1>5, <2>2
<1>7. u \notin engine /\ Ended(s) => Ended(out'[u])
  BY <1>3, <1>4, PostedAppend
<1>8. u \notin engine /\ ~Posted(s, "SCREEN_START") => ~Posted(out'[u], "SCREEN_START")
  BY <1>3, <1>4, PostedAppend
<1>9. /\ u \in engine => Stopping(u)'
      /\ u \notin engine /\ Stopping(u) => Stopping(u)'
  BY <1>1, <1>6, <1>7, <1>8 DEF Stopping, serverSide, s
<1> QED
  BY <1>1, <1>2, <1>9, EngineEnds

\* The client of u itself
LEMMA EngineClient ==
    ASSUME Types, Types', ShareInv, NEW u \in Users, EngineOK(u), ClientDoes(u) PROVE EngineOK(u)'
<1>1. UNCHANGED serverSide /\ UNCHANGED sharer
  BY ClientAlone DEF ShareInv, serverSide
<1>2. /\ out[u] \in Seq(Packet) /\ DOMAIN view = Users
      /\ view[u] \in [sharer : Someone, controller : Someone] /\ engine \subseteq here /\ (failing # {} => failed)
  BY DEF Types, ClientTypes, ShareInv, WindowTypes
<1>3. NoUser \in Someone /\ u \in Someone /\ u # NoUser
  BY ShareAssumption DEF Someone
<1>4. PostsAside(u) /\ Stopping(u) => Stopping(u)'
  BY <1>1, PostedAside DEF Stopping
<1>5. ASSUME PostsAside(u), u \notin engine, u \notin engine', u \in hasty => u \in hasty', failed => failed'
      PROVE EngineOK(u)'
  BY <1>1, <1>4, <1>5, EngineEnds
<1>6. CASE StartScreenShare(u)
  BY <1>6, EngineStarts
<1>7. CASE OnStopClicked(u)
  <2>1. u \notin engine' /\ UNCHANGED <<hasty, failed>> /\ Post(u, "SCREEN_STOP", NoUser)
    BY <1>7 DEF OnStopClicked, knowledge
  <2>2. Stopping(u)'
    BY <2>1, PostEnd DEF Stopping
  <2> QED
    BY <1>1, <2>1, <2>2, EngineEnds
<1>8. CASE SelectOther(u) \/ LeaveRoom(u)
  BY <1>8, EngineLeaves
<1>9. CASE \/ OnRequestClicked(u) \/ JoinRoom(u) \/ EventFilter(u) \/ SelectRoom(u)
           \/ \E yes \in BOOLEAN : AnswerRequest(u, yes)
  <2>1. UNCHANGED <<view, inbox, engine, hasty, failed>>
    BY <1>9 DEF OnRequestClicked, JoinRoom, EventFilter, SelectRoom, AnswerRequest, window, knowledge, bounds
  <2>2. PostsAside(u)
    BY <1>9, PostsOnly
  <2>3. Listens(u)
    BY <2>1 DEF Listens
  <2> QED
    BY <1>1, <2>1, <2>2, <2>3, EngineListens
<1>10. CASE OnRevokeClicked(u)
  <2>1. /\ UNCHANGED <<inbox, engine, hasty, failed>>
        /\ out' = out \/ Post(u, "REMOTE_GRANT", NoUser)
        /\ view' = view \/ view' = [view EXCEPT ![u] = [view[u] EXCEPT !.controller = NoUser]]
    BY <1>10 DEF OnRevokeClicked
  <2>2. PostsAside(u)
    BY <1>3, <2>1, PostAside DEF Ops, PostsAside
  <2>3. [view[u] EXCEPT !.controller = NoUser].sharer = view[u].sharer
    BY <1>2
  <2>4. Listens(u)
    BY <1>2, <2>1, <2>3 DEF Listens
  <2> QED
    BY <1>1, <2>1, <2>2, <2>4, EngineListens
<1>11. CASE EngineFails(u) \/ OnEngineStopped(u)
  <2>1. failed'
    BY <1>2, <1>11 DEF EngineFails, OnEngineStopped, bounds
  <2> QED
    BY <2>1 DEF EngineOK, Counts
<1>12. ASSUME NEW op, Takes(u, op)
       PROVE inbox[u] # <<>> /\ inbox'[u] = Tail(inbox[u]) /\ inbox[u][1].op = op /\ inbox[u] \in Seq(Packet)
  BY <1>12 DEF Takes, Types, ClientTypes
<1>13. CASE OnScreenStart(u)
  <2>1. /\ UNCHANGED <<out, engine, hasty, failed>> /\ Takes(u, "SCREEN_START")
        /\ u \in here => view' = [view EXCEPT ![u] = View(inbox[u][1].sharer, NoUser)]
    BY <1>13 DEF OnScreenStart, bounds, knowledge
  <2>2. u \in here => Listens(u)
    BY <1>2, <1>12, <2>1 DEF Listens, NewsOf, Says, View
  <2> QED
    BY <1>1, <1>2, <1>5, <2>1, <2>2, EngineListens DEF PostsAside
<1>14. CASE HandleRoomState(u)
  <2>1. /\ UNCHANGED <<out, engine, hasty, failed>> /\ Takes(u, "ROOM_STATE")
        /\ view' = [view EXCEPT ![u] = View(inbox[u][1].sharer, inbox[u][1].user)]
    BY <1>14 DEF HandleRoomState, Described, bounds
  <2>2. Listens(u)
    BY <1>2, <1>12, <2>1 DEF Listens, NewsOf, Says, View
  <2> QED
    BY <1>1, <2>1, <2>2, EngineListens DEF PostsAside
<1>15. CASE OnRemoteRequest(u) \/ OnRemoteEvent(u)
  <2>1. /\ UNCHANGED <<view, engine, hasty, failed>> /\ (Takes(u, "REMOTE_REQUEST") \/ Takes(u, "REMOTE_EVENT"))
        /\ out' = out \/ Post(u, "REMOTE_GRANT", NoUser)
    BY <1>15 DEF OnRemoteRequest, OnRemoteEvent, bounds, knowledge, window
  <2>2. Listens(u)
    BY <1>2, <1>12, <2>1 DEF Listens, NewsOf
  <2>3. PostsAside(u)
    BY <1>3, <2>1, PostAside DEF Ops, PostsAside
  <2> QED
    BY <1>1, <2>1, <2>2, <2>3, EngineListens
<1>16. CASE OnRemoteGrant(u)
  <2>1. /\ UNCHANGED <<engine, hasty, failed>> /\ Takes(u, "REMOTE_GRANT")
        /\ out' = out \/ Post(u, "REMOTE_GRANT", NoUser)
        /\ view' = view \/ view' = [view EXCEPT ![u] = [view[u] EXCEPT !.controller = inbox[u][1].user]]
    BY <1>16 DEF OnRemoteGrant, bounds
  <2>2. [view[u] EXCEPT !.controller = inbox[u][1].user].sharer = view[u].sharer
    BY <1>2
  <2>3. view'[u].sharer = view[u].sharer
    BY <1>2, <2>1, <2>2
  <2>4. Listens(u)
    BY <1>12, <2>1, <2>3 DEF Listens, NewsOf
  <2>5. PostsAside(u)
    BY <1>3, <2>1, PostAside DEF Ops, PostsAside
  <2> QED
    BY <1>1, <2>1, <2>4, <2>5, EngineListens
<1>17. CASE OnScreenStop(u)
  <2>1. /\ UNCHANGED <<out, hasty, failed>> /\ Takes(u, "SCREEN_STOP")
        /\ u \in here => view' = [view EXCEPT ![u] = NoShare]
        /\ engine' = engine \/ (view[u].sharer = u /\ engine' = engine \ {u})
    BY <1>17 DEF OnScreenStop, StopsEngine, ClearShareState, bounds, knowledge
  <2>2. PostsAside(u)
    BY <2>1 DEF PostsAside
  <2>3. u \in here => Listens(u)
    BY <1>2, <1>12, <2>1 DEF Listens, NewsOf, Says, View, NoShare
  <2>4. CASE u \notin engine
    BY <1>5, <2>1, <2>2, <2>4
  <2>5. CASE u \in engine /\ u \in engine'
    BY <1>1, <1>2, <2>1, <2>2, <2>3, <2>5, EngineListens
  <2>6. CASE u \in engine /\ u \notin engine'
    <3>1. SUFFICES ASSUME Counts(u) PROVE Stopping(u)
      BY <1>1, <1>4, <2>1, <2>2, <2>6 DEF EngineOK, Counts, Holds, serverSide
    <3>2. view[u].sharer = u
      BY <2>1, <2>6
    <3>3. ~Unharmed(u)
      <4>1. 1 \in 1 .. Len(inbox[u]) /\ inbox[u][1].op = "SCREEN_STOP"
        BY <1>12, <2>1
      <4>2. Harmless(u, 1) => u \in Others(u)
        BY <3>2, ShownFirst DEF Harmless
      <4> QED
        BY <4>1, <4>2 DEF Unharmed, Others
    <3> QED
      BY <2>6, <3>1, <3>3 DEF EngineOK, Holds, Stopping
  <2> QED
    BY <2>4, <2>5, <2>6
<1> QED
  BY <1>6, <1>7, <1>8, <1>9, <1>10, <1>11, <1>13, <1>14, <1>15, <1>16, <1>17 DEF ClientDoes, Clicks, Window

\* What the handlers do to the queues and the share: u gets the share only by
\* a start, and not by an end.
LEMMA Handled ==
    ASSUME Types, ShareInv, NEW u \in Users, Handler(u)
    PROVE /\ OwnShare(u)
          /\ \A v \in Users \ {u} : v \in members' <=> v \in members
          /\ \/ out'[u] = out[u] /\ sharer' = sharer
             \/ /\ out[u] # <<>> /\ out'[u] = Tail(out[u]) /\ out[u] \in Seq(Packet)
                /\ sharer' = u /\ sharer # u => out[u][1].op = "SCREEN_START"
                /\ out[u][1].op \in Ends => sharer' # u
                /\ out[u][1].op \notin Ends => /\ u \in members => u \in members'
                                               /\ pc'[u] \notin Leave /\ msg'[u].op # "SCREEN_STOP"
<1>1. /\ u # NoUser /\ (sharer = u => u \in members) /\ DOMAIN pc = Users /\ DOMAIN msg = Users
  BY ShareAssumption DEF ShareInv, Types, ServerTypes
<1>2. ASSUME NEW op, Handles(u, op)
      PROVE /\ pc[u] = "read" /\ msg[u] = NoPacket /\ NoPacket.op = "none"
            /\ out[u] # <<>> /\ out'[u] = Tail(out[u]) /\ out[u] \in Seq(Packet) /\ out[u][1].op = op
  BY <1>2, Took DEF NoPacket
<1> USE DEF OwnShare, Ends
<1>3. CASE HandleScreenStart(u)
  <2>1. Handles(u, "SCREEN_START") /\ members' = members
        /\ \/ sharer \in {NoUser, u} /\ sharer' = u /\ Announce(u, "clients", "SCREEN_START", u, NoUser)
           \/ sharer' = sharer /\ UNCHANGED <<pc, msg>>
    BY <1>3 DEF HandleScreenStart, Ignored, handler
  <2>2. pc'[u] \notin Leave /\ msg'[u].op # "SCREEN_STOP"
    BY <1>1, <1>2, <2>1 DEF Announce, GoTo, Leave
  <2> QED
    BY <1>1, <1>2, <2>1, <2>2
<1>4. CASE HandleScreenStop(u)
  <2>1. /\ Handles(u, "SCREEN_STOP") /\ members' = members
        /\ (sharer = u /\ sharer' = NoUser) \/ (~(u \in members /\ sharer = u) /\ sharer' = sharer)
    BY <1>4 DEF HandleScreenStop, StopShare
  <2>2. out[u] # <<>> /\ out'[u] = Tail(out[u]) /\ out[u] \in Seq(Packet) /\ out[u][1].op \in Ends
    BY <1>2, <2>1
  <2>3. sharer' # u
    BY <1>1, <2>1
  <2> QED
    BY <2>1, <2>2, <2>3
<1>5. CASE HandleLeaveRoom(u)
  <2>1. /\ Handles(u, "LEAVE_ROOM") /\ members' = members
        /\ (sharer = u /\ sharer' = NoUser) \/ (sharer # u /\ sharer' = sharer)
    BY <1>5 DEF HandleLeaveRoom, StopShare
  <2>2. out[u] # <<>> /\ out'[u] = Tail(out[u]) /\ out[u] \in Seq(Packet) /\ out[u][1].op \in Ends
    BY <1>2, <2>1
  <2>3. sharer' # u
    BY <1>1, <2>1
  <2> QED
    BY <2>1, <2>2, <2>3
<1>6. CASE HandleRemoteGrant(u)
  <2>1. Handles(u, "REMOTE_GRANT") /\ members' = members /\ sharer' = sharer
        /\ \/ Announce(u, "clients", "REMOTE_GRANT", u, NoUser)
           \/ UNCHANGED <<pc, msg>>
    BY <1>6 DEF HandleRemoteGrant, Ignored, handler
  <2>2. pc'[u] \notin Leave /\ msg'[u].op # "SCREEN_STOP"
    BY <1>1, <1>2, <2>1 DEF Announce, GoTo, Leave
  <2> QED
    BY <1>1, <1>2, <2>1, <2>2
<1>11. CASE SetController(u)
  <2>1. Has(u, "grant", "REMOTE_GRANT") /\ Done(u) /\ members' = members /\ sharer' = sharer
        /\ \E step \in {"clients", "name"} : Announce(u, step, "REMOTE_GRANT", u, out[u][1].user)
    BY <1>11 DEF SetController
  <2>2. out[u] # <<>> /\ out'[u] = Tail(out[u]) /\ out[u] \in Seq(Packet) /\ out[u][1].op = "REMOTE_GRANT"
    BY <2>1 DEF Has, Done, Types, ClientTypes
  <2>3. pc'[u] \notin Leave /\ msg'[u].op # "SCREEN_STOP"
    BY <1>1, <2>1 DEF Announce, GoTo, Leave
  <2> QED
    BY <1>1, <2>1, <2>2, <2>3
<1>12. CASE FindTarget(u)
  BY <1>12 DEF FindTarget, relay
<1>13. CASE LooksUp(u)
  <2>1. members' \in {members, members \ {u}} /\ UNCHANGED <<out, sharer>>
    BY <1>13 DEF LooksUp, ReadName, GetState, GiveUpSeat, relay
  <2> QED
    BY <2>1
<1>7. CASE HandleRemoteRequest(u) \/ HandleRemoteEvent(u)
  <2>1. (Handles(u, "REMOTE_REQUEST") \/ Handles(u, "REMOTE_EVENT")) /\ UNCHANGED <<members, sharer>>
    BY <1>7 DEF HandleRemoteRequest, HandleRemoteEvent, relay
  <2>2. UNCHANGED <<pc, msg>> \/ (pc'[u] = "send" /\ msg'[u].op \in {"REMOTE_REQUEST", "REMOTE_EVENT"})
    BY <1>1, <1>7 DEF HandleRemoteRequest, HandleRemoteEvent, Forward, Ignored, handler
  <2>3. pc[u] = "read" /\ msg[u].op = "none"
    BY <1>2, <2>1
  <2>4. pc'[u] \notin Leave /\ msg'[u].op # "SCREEN_STOP"
    BY <2>2, <2>3 DEF Leave
  <2> QED
    BY <1>2, <2>1, <2>4
<1>8. CASE HandleJoinRoom(u)
  <2>1. /\ Handles(u, "JOIN_ROOM") /\ members' = members \cup {u} /\ sharer' = sharer
        /\ pc'[u] = "describe" /\ msg'[u] = [NoPacket EXCEPT !.op = "ROOM_STATE"]
    BY <1>1, <1>8 DEF HandleJoinRoom, GoTo
  <2>2. msg'[u].op = "ROOM_STATE" /\ pc'[u] \notin Leave
    BY <2>1 DEF NoPacket, Leave
  <2> QED
    BY <1>2, <2>1, <2>2
<1>9. CASE Describe(u) \/ (\E v \in Users : Send(u, v))
  BY <1>9 DEF Describe, Send, relay
<1>10. CASE GetRoomClients(u)
  <2>1. UNCHANGED <<members, out, sharer>>
    BY <1>10 DEF GetRoomClients, relay
  <2> QED
    BY <2>1
<1> QED
  BY <1>3, <1>4, <1>5, <1>6, <1>7, <1>8, <1>9, <1>10, <1>11, <1>12, <1>13 DEF Handler, LooksUp

\* The steps of the handlers that take no packet
LEMMA HandledMore ==
    ASSUME Types, ShareInv, NEW u \in Users, Handler(u), out'[u] = out[u], pc[u] \notin Leave, msg[u].op # "SCREEN_STOP"
    PROVE pc'[u] \notin Leave /\ msg'[u].op # "SCREEN_STOP" /\ (u \in members => u \in members')
<1>1. DOMAIN pc = Users /\ DOMAIN msg = Users /\ NoPacket.op = "none"
  BY DEF Types, ServerTypes, NoPacket
<1>2. \A step, op : ~(Has(u, step, op) /\ Done(u))
  <2>1. ASSUME NEW step, NEW op, Has(u, step, op), Done(u) PROVE FALSE
    <3>1. out[u] \in Seq(Packet) /\ out[u] # <<>> /\ Tail(out[u]) = out[u]
      BY <2>1 DEF Has, Done, Types, ClientTypes
    <3>2. Len(Tail(out[u])) = Len(out[u]) - 1 /\ Len(out[u]) \in Nat
      BY <3>1
    <3>3. Len(Tail(out[u])) = Len(out[u])
      BY <3>1
    <3> QED
      BY <3>2, <3>3
  <2> QED
    BY <2>1
<1>3. FindTarget(u) \/ ReadName(u) \/ Describe(u) \/ GetRoomClients(u) \/ \E v \in Users : Send(u, v)
  BY <1>2 DEF Handler, Handles, HandleScreenStart, HandleScreenStop, HandleRemoteRequest, HandleRemoteGrant,
              SetController, HandleRemoteEvent, HandleLeaveRoom, HandleJoinRoom, GetState, GiveUpSeat, Leave
<1>4. CASE Describe(u)
  <2> DEFINE p == [op |-> "ROOM_STATE", sharer |-> sharer, user |-> controller, n |-> version]
  <2>1. pc'[u] = "send" /\ msg'[u] = p /\ p.op = "ROOM_STATE" /\ members' = members
    BY <1>1, <1>4 DEF Describe, relay
  <2> HIDE DEF p
  <2> QED
    BY <2>1 DEF Leave
<1>5. CASE GetRoomClients(u)
  BY <1>1, <1>5 DEF GetRoomClients, relay, After, Leave
<1>7. CASE FindTarget(u) \/ ReadName(u)
  BY <1>1, <1>7 DEF FindTarget, ReadName, GoTo, relay, Leave
<1>6. ASSUME NEW v \in Users, Send(u, v) PROVE pc'[u] \notin Leave /\ msg'[u].op # "SCREEN_STOP" /\ members' = members
  BY <1>1, <1>6 DEF Send, relay, After, Leave
<1> QED
  BY <1>3, <1>4, <1>5, <1>6, <1>7

\* The parts of EngineOK about u's own queue
LEMMA EngineHandled ==
    ASSUME Types, ShareInv, NEW u \in Users, NEW w \in Users, Handler(w)
    PROVE /\ Stopping(u) => Stopping(u)'
          /\ Staying(u) => Staying(u)'
          /\ Holds(u)' => Holds(u)
<1>1. HandlersAlone(w) /\ engine' = engine
  BY HandlerAlone DEF ShareInv, clientSide
<1>2. u # NoUser /\ w # NoUser
  BY ShareAssumption
<1>3. CASE w # u
  <2>1. out'[u] = out[u] /\ pc'[u] = pc[u] /\ msg'[u] = msg[u] /\ (u \in members' <=> u \in members)
    BY <1>1, <1>3, Handled DEF HandlersAlone
  <2>2. sharer' = u <=> sharer = u
    BY <1>2, <1>3, Handled DEF OwnShare
  <2> QED
    BY <1>1, <2>1, <2>2 DEF Stopping, Staying, Holds
<1>4. CASE w = u /\ out'[u] = out[u] /\ sharer' = sharer
  BY <1>1, <1>4, HandledMore DEF Stopping, Staying, Holds
<1>5. CASE /\ w = u /\ out[u] # <<>> /\ out'[u] = Tail(out[u]) /\ out[u] \in Seq(Packet)
           /\ sharer' = u /\ sharer # u => out[u][1].op = "SCREEN_START"
           /\ out[u][1].op \in Ends => sharer' # u
           /\ out[u][1].op \notin Ends => /\ u \in members => u \in members'
                                          /\ pc'[u] \notin Leave /\ msg'[u].op # "SCREEN_STOP"
  <2> DEFINE first == out[u][1].op
  <2>1. /\ \A op : Posted(out[u], op) <=> first = op \/ Posted(out'[u], op)
        /\ Ended(out[u]) => Ended(out'[u]) \/ (first \in Ends /\ ~Posted(out'[u], "SCREEN_START"))
    BY <1>5, PostedTail
  <2>2. Stopping(u) => Stopping(u)'
    BY <1>5, <2>1 DEF Stopping
  <2>3. Staying(u) => Staying(u)'
    BY <1>5, <2>1 DEF Staying
  <2>4. Holds(u)' => Holds(u)
    BY <1>1, <1>5, <2>1 DEF Holds
  <2> QED
    BY <2>2, <2>3, <2>4
<1> QED
  BY <1>3, <1>4, <1>5, Handled

\* A handler w with nothing new about the share for u
LEMMA UnharmedAside ==
    ASSUME Types, NEW u \in Users, NEW w \in Users, HandlersAlone(w), Unharmed(u),
           view'[u] = view[u], inbox'[u] = inbox[u], newest'[u] = newest[u], sharer' = sharer,
           \/ msg'[w].op \notin {"SCREEN_START", "SCREEN_STOP", "ROOM_STATE"}
           \/ ~Pending(w, u)'
           \/ Pending(w, u) /\ msg'[w] = msg[w],
           w # u /\ Pending(w, u) /\ msg[w].op = "SCREEN_START" => Pending(w, u)' /\ msg'[w] = msg[w]
    PROVE Unharmed(u)'
<1>1. \A y \in Users : y # w => pc'[y] = pc[y] /\ msg'[y] = msg[y] /\ todo'[y] = todo[y]
  BY DEF HandlersAlone
<1>2. ASSUME NEW y \in Users, Stops(y, u)' PROVE Stops(y, u) /\ msg'[y] = msg[y]
  BY <1>1, <1>2 DEF Stops, Pending
<1>3. ASSUME NEW y \in Users, Tells(y, u)' PROVE Tells(y, u) /\ msg'[y] = msg[y]
  BY <1>1, <1>3 DEF Tells, Pending
<1>4. ASSUME NEW y \in Users, y # u, Pending(y, u), msg[y].op = "SCREEN_START"
      PROVE Pending(y, u)' /\ msg'[y].op = "SCREEN_START"
  BY <1>1, <1>4 DEF Pending
<1>5. /\ \A i : Harmless(u, i)' <=> Harmless(u, i)
      /\ Last(u)' = Last(u)
      /\ Shown(view[u].sharer, inbox[u], Last(u), "sharer", {sharer})'
         <=> Shown(view[u].sharer, inbox[u], Last(u), "sharer", {sharer})
  BY DEF Harmless, Last, Others
<1>6. \A i \in 1 .. Len(inbox'[u]) : inbox'[u][i].op = "SCREEN_STOP" => Harmless(u, i)'
  BY <1>5 DEF Unharmed
<1>7. \A y \in Users : Stops(y, u)' => Harmless(u, Last(u))'
  BY <1>2, <1>5 DEF Unharmed
<1>8. \A y, x \in Users : Stops(y, u)' /\ Tells(x, u)' /\ msg'[x].sharer = u => msg'[y].n < msg'[x].n
  BY <1>2, <1>3 DEF Unharmed
<1>9. ASSUME sharer' \notin {NoUser, u}
      PROVE \/ Pending(sharer, u)' /\ msg'[sharer'].op = "SCREEN_START"
            \/ /\ Shown(view[u].sharer, inbox[u], Last(u), "sharer", {sharer})'
               /\ \A y \in Users : ~Stops(y, u)'
               /\ \A x \in Users : Tells(x, u)' => msg'[x].sharer = sharer'
  <2>1. sharer \in Users
    BY <1>9 DEF Types, ServerTypes, Someone
  <2> QED
    BY <1>2, <1>3, <1>4, <1>5, <1>9, <2>1 DEF Unharmed
<1> QED
  BY <1>6, <1>7, <1>8, <1>9 DEF Unharmed

\* A share starts: u is going to be told, after all the ends under way.
LEMMA UnharmedStart ==
    ASSUME Types, ShareInv, NEW u \in Users, NEW w \in Users, HandleScreenStart(w), Unharmed(u) PROVE Unharmed(u)'
<1>1. /\ HandlersAlone(w) /\ view' = view /\ inbox' = inbox /\ newest' = newest
      /\ pc[w] = "read" /\ todo[w] = {} /\ msg[w] = NoPacket /\ NoPacket.op = "none"
  <2>1. Handles(w, "SCREEN_START") /\ inbox' = inbox /\ newest' = newest /\ Handler(w)
    BY DEF HandleScreenStart, Handler
  <2> QED
    BY <2>1, Took, HandlerAlone DEF ShareInv, clientSide, NoPacket
<1>2. CASE Ignored(w) /\ sharer' = sharer
  <2>1. msg'[w].op = "none" /\ msg[w].op = "none"
    BY <1>1, <1>2 DEF Ignored, handler
  <2> QED
    BY <1>1, <1>2, <2>1, UnharmedAside
<1>3. CASE sharer' = w /\ Announce(w, "clients", "SCREEN_START", w, NoUser)
  <2>1. /\ version \in Nat /\ pc'[w] = "clients" /\ msg'[w].op = "SCREEN_START" /\ msg'[w].n = version + 1
        /\ \A y \in Users : y # w => pc'[y] = pc[y] /\ msg'[y] = msg[y] /\ todo'[y] = todo[y]
    BY <1>1, <1>3 DEF Announce, GoTo, Types, ServerTypes, HandlersAlone
  <2>2. ASSUME NEW y \in Users, Stops(y, u)' PROVE Stops(y, u) /\ msg'[y] = msg[y] /\ msg'[y].n < version + 1
    <3>1. y # w /\ Stops(y, u) /\ msg'[y] = msg[y]
      BY <1>1, <2>1, <2>2 DEF Stops, Pending
    <3>2. msg[y].n \in Nat /\ msg[y].n <= version
      BY <3>1, NumberOf DEF Stops, Numbered, Announcements
    <3> QED
      BY <2>1, <3>1, <3>2
  <2>3. ASSUME NEW x \in Users, Tells(x, u)' PROVE x = w \/ (Tells(x, u) /\ msg'[x] = msg[x])
    BY <1>1, <2>1, <2>3 DEF Tells, Pending
  <2>4. (\A i : Harmless(u, i)' <=> Harmless(u, i)) /\ Last(u)' = Last(u)
    BY <1>1 DEF Harmless, Last, Others
  <2>5. \A i \in 1 .. Len(inbox'[u]) : inbox'[u][i].op = "SCREEN_STOP" => Harmless(u, i)'
    BY <1>1, <2>4 DEF Unharmed
  <2>6. \A y \in Users : Stops(y, u)' => Harmless(u, Last(u))'
    BY <2>2, <2>4 DEF Unharmed
  <2>7. \A y, x \in Users : Stops(y, u)' /\ Tells(x, u)' /\ msg'[x].sharer = u => msg'[y].n < msg'[x].n
    BY <2>1, <2>2, <2>3 DEF Unharmed
  <2>8. Pending(w, u)'
    BY <2>1 DEF Pending
  <2> QED
    BY <1>3, <2>1, <2>5, <2>6, <2>7, <2>8 DEF Unharmed
<1> QED
  BY <1>2, <1>3 DEF HandleScreenStart

\* Somebody else's share ends: u was told of it last.
LEMMA UnharmedStop ==
    ASSUME Types, ShareInv, NEW u \in Users, NEW w \in Users, w # u, HandlersAlone(w), Unharmed(u),
           UNCHANGED <<view, inbox, newest>>, pc[w] = "read", todo[w] = {}, msg[w] = NoPacket,
           sharer = w, sharer' = NoUser, NEW step \in {"clients", "leave"}, Announce(w, step, "SCREEN_STOP", w, NoUser)
    PROVE Unharmed(u)'
<1>1. /\ w \in Someone /\ w # NoUser /\ u # NoUser
  BY ShareAssumption DEF Someone
<1>2. msg[w].op = "none"
  BY DEF NoPacket
<1>3. /\ Shown(view[u].sharer, inbox[u], Last(u), "sharer", {w})
      /\ \A y \in Users : ~Stops(y, u)
      /\ \A x \in Users : Tells(x, u) => msg[x].sharer = w
  BY <1>1, <1>2 DEF Unharmed
<1>4. /\ msg'[w].op = "SCREEN_STOP"
      /\ \A y \in Users : y # w => pc'[y] = pc[y] /\ msg'[y] = msg[y] /\ todo'[y] = todo[y]
  BY DEF Announce, GoTo, Types, ServerTypes, HandlersAlone
<1>5. Harmless(u, Last(u))'
  <2>1. {w} \subseteq Others(u)
    BY <1>1 DEF Others
  <2>2. Harmless(u, Last(u))
    BY <1>3, <2>1, ShownMore DEF Harmless
  <2> QED
    BY <2>2 DEF Harmless, Last, Others
<1>6. \A i \in 1 .. Len(inbox'[u]) : inbox'[u][i].op = "SCREEN_STOP" => Harmless(u, i)'
  BY DEF Unharmed, Harmless, Others
<1>7. ASSUME NEW x \in Users, Tells(x, u)' PROVE msg'[x].sharer # u
  <2>1. x # w /\ Tells(x, u) /\ msg'[x] = msg[x]
    BY <1>4, <1>7 DEF Tells, Pending
  <2> QED
    BY <1>3, <2>1
<1> QED
  BY <1>5, <1>6, <1>7 DEF Unharmed

\* The share is described to u: the ends under way are older, if it is u's.
LEMMA UnharmedDescribe ==
    ASSUME Types, ShareInv, NEW u \in Users, Describe(u), Unharmed(u) PROVE Unharmed(u)'
<1>1. /\ HandlersAlone(u) /\ UNCHANGED <<view, inbox, newest, sharer, version>>
      /\ pc[u] = "describe" /\ msg'[u] = [op |-> "ROOM_STATE", sharer |-> sharer, user |-> controller, n |-> version]
  <2>1. Handler(u) /\ UNCHANGED <<inbox, newest, sharer, version>>
    BY DEF Handler, Describe, relay, order
  <2>2. DOMAIN msg = Users
    BY DEF Types, ServerTypes
  <2> QED
    BY <2>1, <2>2, HandlerAlone DEF ShareInv, clientSide, Describe
<1>2. msg'[u].op = "ROOM_STATE" /\ msg'[u].sharer = sharer /\ msg'[u].n = version
  BY <1>1
<1>3. \A y \in Users : y # u => pc'[y] = pc[y] /\ msg'[y] = msg[y] /\ todo'[y] = todo[y]
  BY <1>1 DEF HandlersAlone
<1>4. ASSUME NEW y \in Users, Stops(y, u)' PROVE Stops(y, u) /\ msg'[y] = msg[y] /\ (sharer = u => msg'[y].n < version)
  <2>1. y # u /\ Stops(y, u) /\ msg'[y] = msg[y]
    BY <1>1, <1>2, <1>3, <1>4 DEF Stops, Pending
  <2>2. sharer = u => msg[y].n < version
    BY <2>1, ShareAssumption DEF ShareInv, InOrder, Stops
  <2> QED
    BY <2>1, <2>2
<1>5. ASSUME NEW x \in Users, Tells(x, u)' PROVE x = u \/ (Tells(x, u) /\ msg'[x] = msg[x])
  BY <1>1, <1>3, <1>5 DEF Tells, Pending
<1>6. /\ \A i : Harmless(u, i)' <=> Harmless(u, i)
      /\ Last(u)' = Last(u)
      /\ Shown(view[u].sharer, inbox[u], Last(u), "sharer", {sharer})'
         <=> Shown(view[u].sharer, inbox[u], Last(u), "sharer", {sharer})
  BY <1>1 DEF Harmless, Last, Others
<1>7. \A i \in 1 .. Len(inbox'[u]) : inbox'[u][i].op = "SCREEN_STOP" => Harmless(u, i)'
  BY <1>1, <1>6 DEF Unharmed
<1>8. \A y \in Users : Stops(y, u)' => Harmless(u, Last(u))'
  BY <1>4, <1>6 DEF Unharmed
<1>9. \A y, x \in Users : Stops(y, u)' /\ Tells(x, u)' /\ msg'[x].sharer = u => msg'[y].n < msg'[x].n
  BY <1>2, <1>4, <1>5 DEF Unharmed
<1>10. ASSUME sharer' \notin {NoUser, u}
       PROVE \/ Pending(sharer, u)' /\ msg'[sharer'].op = "SCREEN_START"
             \/ /\ Shown(view[u].sharer, inbox[u], Last(u), "sharer", {sharer})'
                /\ \A y \in Users : ~Stops(y, u)'
                /\ \A x \in Users : Tells(x, u)' => msg'[x].sharer = sharer'
  <2>1. sharer \in Users \ {u} /\ sharer \notin {NoUser, u}
    BY <1>1, <1>10 DEF Types, ServerTypes, Someone
  <2>2. CASE Pending(sharer, u) /\ msg[sharer].op = "SCREEN_START"
    BY <1>1, <1>3, <2>1, <2>2 DEF Pending
  <2>3. CASE /\ Shown(view[u].sharer, inbox[u], Last(u), "sharer", {sharer})
             /\ \A y \in Users : ~Stops(y, u)
             /\ \A x \in Users : Tells(x, u) => msg[x].sharer = sharer
    <3>1. \A y \in Users : ~Stops(y, u)'
      BY <1>4, <2>3
    <3>2. \A x \in Users : Tells(x, u)' => msg'[x].sharer = sharer'
      BY <1>1, <1>2, <1>5, <2>3
    <3> QED
      BY <1>6, <2>3, <3>1, <3>2
  <2> QED
    BY <2>1, <2>2, <2>3 DEF Unharmed
<1> QED
  BY <1>7, <1>8, <1>9, <1>10 DEF Unharmed

\* What sending does: v has the packet, and w has not to tell v any more.
LEMMA Sent ==
    ASSUME Types, Types', ShareInv, NEW w \in Users, NEW v \in Users, Send(w, v)
    PROVE /\ UNCHANGED <<view, sharer, members, version>>
          /\ pc[w] \in {"send", "bye"} /\ msg[w] \in Packet /\ v \in todo[w]
          /\ inbox[v] \in Seq(Packet) /\ inbox'[v] = Append(inbox[v], msg[w])
          /\ \A u \in Users : u # v => inbox'[u] = inbox[u] /\ newest'[u] = newest[u]
          /\ \A y \in Users : y # w => pc'[y] = pc[y] /\ msg'[y] = msg[y] /\ todo'[y] = todo[y]
          /\ \A u \in Users : Pending(w, u) <=> u \in todo[w]
          /\ \A u \in Users : Pending(w, u)' <=> (u \in todo[w] /\ u # v)
          /\ msg'[w] = msg[w] \/ (msg'[w] = NoPacket /\ \A u \in Users : ~Pending(w, u)')
          /\ newest[v] \in Nat /\ newest'[v] \in Nat /\ msg[w].n \in Nat
          /\ v \notin overtaken' => newest[v] <= newest'[v]
          /\ v \notin overtaken' /\ msg[w].op \in Numbered => newest'[v] = msg[w].n /\ newest[v] <= msg[w].n
          /\ overtaken \subseteq overtaken'
          /\ pc'[w] \in {pc[w], "read", "gone"}
<1> DEFINE m == msg[w]
<1>1. /\ DOMAIN pc = Users /\ DOMAIN msg = Users /\ todo \in [Users -> SUBSET Users]
      /\ newest \in [Users -> Nat] /\ inbox \in [Users -> Seq(Packet)] /\ newest[v] \in Nat
  BY DEF Types, ServerTypes, ClientTypes, ShareInv, WindowTypes
<1>2. m \in Packet /\ m.n \in Nat
  <2>1. m \in Packet
    BY DEF Send, Types, ServerTypes, Idle
  <2> QED
    BY <2>1, PacketNumber
<1>3. /\ UNCHANGED <<view, sharer, members, version>>
      /\ pc[w] \in {"send", "bye"} /\ v \in todo[w]
      /\ inbox' = [inbox EXCEPT ![v] = Append(@, m)]
      /\ todo' = [todo EXCEPT ![w] = @ \ {v}]
      /\ pc' = [pc EXCEPT ![w] = IF todo[w] = {v} THEN After(@) ELSE @]
      /\ msg' = [msg EXCEPT ![w] = IF todo[w] = {v} THEN NoPacket ELSE @]
  BY DEF Send, relay, window
<1>4. /\ newest' = IF m.op \notin {"REMOTE_REQUEST", "REMOTE_EVENT"} /\ ~(m.n < newest[v]) THEN [newest EXCEPT ![v] = m.n] ELSE newest
      /\ overtaken' = IF m.op \notin {"REMOTE_REQUEST", "REMOTE_EVENT"} /\ m.n < newest[v] THEN overtaken \cup {v} ELSE overtaken
  BY DEF Send
<1>5. m.op \in Numbered => m.op \notin {"REMOTE_REQUEST", "REMOTE_EVENT"}
  BY DEF Numbered, Announcements
<1> HIDE DEF m
<1>6. /\ newest'[v] \in Nat
      /\ v \notin overtaken' => newest[v] <= newest'[v]
      /\ v \notin overtaken' /\ m.op \in Numbered => newest'[v] = m.n /\ newest[v] <= m.n
      /\ overtaken \subseteq overtaken'
      /\ \A u \in Users : u # v => newest'[u] = newest[u]
  BY <1>1, <1>2, <1>4, <1>5
<1>7. /\ inbox'[v] = Append(inbox[v], m) /\ inbox[v] \in Seq(Packet)
      /\ \A u \in Users : u # v => inbox'[u] = inbox[u]
      /\ \A y \in Users : y # w => pc'[y] = pc[y] /\ msg'[y] = msg[y] /\ todo'[y] = todo[y]
      /\ todo'[w] = todo[w] \ {v} /\ pc'[w] \in {pc[w], "read", "gone"}
      /\ msg'[w] = m \/ (msg'[w] = NoPacket /\ todo'[w] = {})
  BY <1>1, <1>3 DEF m, After
<1>8. /\ \A u \in Users : Pending(w, u) <=> u \in todo[w]
      /\ \A u \in Users : Pending(w, u)' <=> (u \in todo[w] /\ u # v)
      /\ todo'[w] = {} => \A u \in Users : ~Pending(w, u)'
  BY <1>3, <1>7 DEF Pending
<1> QED
  BY <1>1, <1>2, <1>3, <1>6, <1>7, <1>8 DEF m

\* A packet for somebody else
LEMMA UnharmedSendAside ==
    ASSUME Types, Types', ShareInv, NEW u \in Users, NEW w \in Users, NEW v \in Users, v # u, Send(w, v), Unharmed(u)
    PROVE Unharmed(u)'
<1>1. Handler(w) /\ HandlersAlone(w)
  BY HandlerAlone DEF ShareInv, Handler
<1>2. /\ view' = view /\ sharer' = sharer /\ inbox'[u] = inbox[u] /\ newest'[u] = newest[u]
      /\ Pending(w, u)' <=> Pending(w, u)
      /\ Pending(w, u)' => msg'[w] = msg[w]
  BY Sent
<1> QED
  BY <1>1, <1>2, UnharmedAside

\* A packet for u that says nothing new of the sharer
LEMMA UnharmedSendOther ==
    ASSUME Types, Types', ShareInv, NEW u \in Users, NEW w \in Users, Send(w, u), u \notin overtaken', Unharmed(u),
           ~NewsOf(msg[w], "sharer")
    PROVE Unharmed(u)'
<1>1. /\ view' = view /\ sharer' = sharer /\ msg[w] \in Packet
      /\ inbox[u] \in Seq(Packet) /\ inbox'[u] = Append(inbox[u], msg[w])
      /\ \A y \in Users : y # w => pc'[y] = pc[y] /\ msg'[y] = msg[y] /\ todo'[y] = todo[y]
      /\ ~Pending(w, u)' /\ newest[u] \in Nat /\ newest'[u] \in Nat /\ newest[u] <= newest'[u]
  BY Sent
<1> DEFINE s == inbox[u]
           p == msg[w]
           t == inbox'[u]
<1>2. /\ s \in Seq(Packet) /\ p \in Packet /\ t = Append(s, p) /\ ~NewsOf(p, "sharer")
      /\ Len(t) = Len(s) + 1 /\ Len(s) \in Nat /\ Last(u) = Len(s) + 1 /\ Last(u)' = Len(s) + 2
  BY <1>1 DEF Last
<1>3. ASSUME NEW S
      PROVE /\ \A i \in 1 .. Len(inbox[u]) + 1 :
                 Shown(view[u].sharer, inbox[u], i, "sharer", S) => Shown(view[u].sharer, inbox'[u], i, "sharer", S)
            /\ Shown(view[u].sharer, inbox[u], Last(u), "sharer", S) => Shown(view[u].sharer, inbox'[u], Last(u)', "sharer", S)
  <2> DEFINE v == view[u].sharer
  <2> HIDE DEF s, p, t, v
  <2>1. /\ \A i \in 1 .. Len(s) + 1 : Shown(v, s, i, "sharer", S) => Shown(v, Append(s, p), i, "sharer", S)
        /\ ~NewsOf(p, "sharer") /\ Shown(v, s, Len(s) + 1, "sharer", S) => Shown(v, Append(s, p), Len(s) + 2, "sharer", S)
    BY <1>2, ShownAppend
  <2>2. /\ \A i \in 1 .. Len(s) + 1 : Shown(v, s, i, "sharer", S) => Shown(v, t, i, "sharer", S)
        /\ Shown(v, s, Last(u), "sharer", S) => Shown(v, t, Last(u)', "sharer", S)
    BY <1>2, <2>1
  <2> QED
    BY <2>2 DEF s, t, v
<1> HIDE DEF s, p, t
<1>4. ASSUME NEW y \in Users, Stops(y, u)' PROVE Stops(y, u) /\ msg'[y] = msg[y]
  <2>1. y # w /\ Pending(y, u) /\ msg'[y] = msg[y] /\ newest'[u] <= msg[y].n /\ msg[y].op = "SCREEN_STOP"
    BY <1>1, <1>4 DEF Stops, Pending
  <2>2. msg[y].n \in Nat
    BY <2>1, NumberOf DEF Numbered, Announcements
  <2> QED
    BY <1>1, <2>1, <2>2 DEF Stops
<1>5. ASSUME NEW y \in Users, Tells(y, u)' PROVE Tells(y, u) /\ msg'[y] = msg[y]
  <2>1. y # w /\ Pending(y, u) /\ msg'[y] = msg[y] /\ newest'[u] <= msg[y].n /\ msg[y].op \in {"SCREEN_START", "ROOM_STATE"}
    BY <1>1, <1>5 DEF Tells, Pending
  <2>2. msg[y].n \in Nat
    BY <2>1, NumberOf DEF Numbered, Announcements
  <2> QED
    BY <1>1, <2>1, <2>2 DEF Tells
<1>6. ASSUME NEW i \in 1 .. Len(inbox'[u]), inbox'[u][i].op = "SCREEN_STOP" PROVE Harmless(u, i)'
  <2>1. i \in 1 .. Len(inbox[u]) /\ inbox'[u][i] = inbox[u][i] /\ i \in 1 .. Len(inbox[u]) + 1
    <3>1. \/ i \in 1 .. Len(inbox[u]) /\ i \in 1 .. Len(inbox[u]) + 1 /\ inbox'[u][i] = inbox[u][i]
          \/ inbox'[u][i] = msg[w]
      BY <1>1
    <3> QED
      BY <1>6, <3>1 DEF NewsOf
  <2>2. Harmless(u, i)
    BY <1>6, <2>1 DEF Unharmed
  <2> QED
    BY <1>1, <1>3, <2>1, <2>2 DEF Harmless, Others
<1>7. Harmless(u, Last(u)) => Harmless(u, Last(u))'
  BY <1>1, <1>3 DEF Harmless, Others
<1>8. ASSUME sharer' \notin {NoUser, u}
      PROVE \/ Pending(sharer, u)' /\ msg'[sharer'].op = "SCREEN_START"
            \/ /\ Shown(view[u].sharer, inbox[u], Last(u), "sharer", {sharer})'
               /\ \A y \in Users : ~Stops(y, u)'
               /\ \A x \in Users : Tells(x, u)' => msg'[x].sharer = sharer'
  <2>1. sharer \in Users /\ sharer \notin {NoUser, u}
    BY <1>1, <1>8 DEF Types, ServerTypes, Someone
  <2>2. CASE Pending(sharer, u) /\ msg[sharer].op = "SCREEN_START"
    <3>1. sharer # w
      BY <2>2 DEF NewsOf
    <3> QED
      BY <1>1, <2>1, <2>2, <3>1 DEF Pending
  <2>3. CASE /\ Shown(view[u].sharer, inbox[u], Last(u), "sharer", {sharer})
             /\ \A y \in Users : ~Stops(y, u)
             /\ \A x \in Users : Tells(x, u) => msg[x].sharer = sharer
    BY <1>1, <1>3, <1>4, <1>5, <2>3
  <2> QED
    BY <2>1, <2>2, <2>3 DEF Unharmed
<1> QED
  BY <1>4, <1>5, <1>6, <1>7, <1>8 DEF Unharmed

\* What u hears of the sharer is what it will show; ends under way that are
\* still to be heard are no older.
LEMMA SentNews ==
    ASSUME Types, Types', ShareInv, NEW u \in Users, NEW w \in Users, Send(w, u), u \notin overtaken', Unharmed(u),
           NewsOf(msg[w], "sharer")
    PROVE /\ \A S : Says(msg[w], "sharer") \in S => Shown(view[u].sharer, inbox[u], Last(u), "sharer", S)'
          /\ \A i \in 1 .. Len(inbox'[u]) : inbox'[u][i].op = "SCREEN_STOP" => Harmless(u, i)'
          /\ \A y \in Users : Stops(y, u)' => y # w /\ Stops(y, u) /\ msg'[y] = msg[y] /\ msg[w].n <= msg[y].n
          /\ \A x \in Users : Tells(x, u)' => x # w /\ Tells(x, u) /\ msg'[x] = msg[x] /\ msg[w].n <= msg[x].n
          /\ msg[w].op = "SCREEN_STOP" => Stops(w, u)
          /\ msg[w].op # "SCREEN_STOP" => Tells(w, u)
<1> DEFINE s == inbox[u]
           p == msg[w]
           t == inbox'[u]
<1>1. /\ view' = view /\ p \in Packet /\ s \in Seq(Packet) /\ t = Append(s, p)
      /\ \A y \in Users : y # w => pc'[y] = pc[y] /\ msg'[y] = msg[y] /\ todo'[y] = todo[y]
      /\ ~Pending(w, u)' /\ Pending(w, u) /\ newest[u] \in Nat
  BY Sent
<1>2. p.op \in {"SCREEN_START", "SCREEN_STOP", "ROOM_STATE"}
  BY DEF NewsOf
<1>3. newest'[u] = p.n /\ newest[u] <= p.n /\ p.n \in Nat
  BY <1>2, Sent DEF Numbered, Announcements
<1>4. /\ p.op = "SCREEN_STOP" => Stops(w, u)
      /\ p.op # "SCREEN_STOP" => Tells(w, u)
  BY <1>1, <1>2, <1>3 DEF Stops, Tells
<1>5. ASSUME NEW y \in Users, Stops(y, u)' PROVE y # w /\ Stops(y, u) /\ msg'[y] = msg[y] /\ p.n <= msg[y].n
  <2>1. y # w /\ Pending(y, u) /\ msg'[y] = msg[y] /\ p.n <= msg[y].n /\ msg[y].op = "SCREEN_STOP"
    BY <1>1, <1>3, <1>5 DEF Stops, Pending
  <2>2. msg[y].n \in Nat
    BY <2>1, NumberOf DEF Numbered, Announcements
  <2> QED
    BY <1>1, <1>3, <2>1, <2>2 DEF Stops
<1>6. ASSUME NEW y \in Users, Tells(y, u)' PROVE y # w /\ Tells(y, u) /\ msg'[y] = msg[y] /\ p.n <= msg[y].n
  <2>1. y # w /\ Pending(y, u) /\ msg'[y] = msg[y] /\ p.n <= msg[y].n /\ msg[y].op \in {"SCREEN_START", "ROOM_STATE"}
    BY <1>1, <1>3, <1>6 DEF Tells, Pending
  <2>2. msg[y].n \in Nat
    BY <2>1, NumberOf DEF Numbered, Announcements
  <2> QED
    BY <1>1, <1>3, <2>1, <2>2 DEF Tells
<1>7. Len(s) \in Nat /\ Last(u) = Len(s) + 1 /\ Len(t) = Len(s) + 1 /\ Last(u)' = Len(s) + 2
      /\ \A i \in 1 .. Len(s) : t[i] = s[i]
  BY <1>1 DEF Last
<1>8. ASSUME NEW S
      PROVE /\ Says(p, "sharer") \in S => Shown(view[u].sharer, inbox[u], Last(u), "sharer", S)'
            /\ \A i \in 1 .. Len(s) + 1 : Shown(view[u].sharer, s, i, "sharer", S) => Shown(view'[u].sharer, t, i, "sharer", S)
  <2> DEFINE v == view[u].sharer
  <2> HIDE DEF s, p, t, v
  <2>1. /\ NewsOf(p, "sharer") /\ Says(p, "sharer") \in S => Shown(v, Append(s, p), Len(s) + 2, "sharer", S)
        /\ \A i \in 1 .. Len(s) + 1 : Shown(v, s, i, "sharer", S) => Shown(v, Append(s, p), i, "sharer", S)
    BY <1>1, ShownAppend
  <2>2. /\ Says(p, "sharer") \in S => Shown(v, t, Last(u)', "sharer", S)
        /\ \A i \in 1 .. Len(s) + 1 : Shown(v, s, i, "sharer", S) => Shown(v, t, i, "sharer", S)
    BY <1>1, <1>7, <2>1 DEF p
  <2> QED
    BY <1>1, <2>2 DEF t, v
<1>9. ASSUME NEW i \in 1 .. Len(inbox'[u]), inbox'[u][i].op = "SCREEN_STOP" PROVE Harmless(u, i)'
  <2>1. i \in 1 .. Len(s) + 1
    BY <1>7
  <2>2. Harmless(u, i)
    <3>1. CASE i \in 1 .. Len(s)
      BY <1>7, <1>9, <3>1 DEF Unharmed
    <3>2. CASE i = Last(u)
      <4>1. p.op = "SCREEN_STOP"
        BY <1>1, <1>7, <1>9, <3>2
      <4> QED
        BY <1>4, <3>2, <4>1 DEF Unharmed
    <3> QED
      BY <1>7, <2>1, <3>1, <3>2
  <2> QED
    BY <1>8, <2>1, <2>2 DEF Harmless, Others
<1> QED
  BY <1>4, <1>5, <1>6, <1>8, <1>9

\* The end of a share, to u: what starts meanwhile is on its way.
LEMMA UnharmedSendStop ==
    ASSUME Types, Types', ShareInv, NEW u \in Users, NEW w \in Users, Send(w, u), u \notin overtaken', Unharmed(u),
           msg[w].op = "SCREEN_STOP"
    PROVE Unharmed(u)'
<1>1. NewsOf(msg[w], "sharer") /\ Says(msg[w], "sharer") \in Others(u)
  BY ShareAssumption DEF NewsOf, Says, Others, Someone
<1>2. /\ \A i \in 1 .. Len(inbox'[u]) : inbox'[u][i].op = "SCREEN_STOP" => Harmless(u, i)'
      /\ \A y \in Users : Stops(y, u)' => Stops(y, u) /\ msg'[y] = msg[y]
      /\ \A x \in Users : Tells(x, u)' => Tells(x, u) /\ msg'[x] = msg[x]
      /\ Stops(w, u)
  BY <1>1, SentNews
<1>3. Harmless(u, Last(u))'
  <2>1. \A S : Says(msg[w], "sharer") \in S => Shown(view[u].sharer, inbox[u], Last(u), "sharer", S)'
    BY <1>1, SentNews
  <2> QED
    BY <1>1, <2>1 DEF Harmless, Others
<1>4. ASSUME sharer' \notin {NoUser, u} PROVE Pending(sharer, u)' /\ msg'[sharer'].op = "SCREEN_START"
  <2>1. /\ sharer' = sharer
        /\ \A y \in Users : y # w => pc'[y] = pc[y] /\ msg'[y] = msg[y] /\ todo'[y] = todo[y]
    BY Sent
  <2>2. sharer \in Users
    BY <1>4, <2>1 DEF Types, ServerTypes, Someone
  <2>3. Pending(sharer, u) /\ msg[sharer].op = "SCREEN_START"
    BY <1>2, <1>4, <2>1 DEF Unharmed
  <2>4. sharer # w
    BY <2>3
  <2> QED
    BY <2>1, <2>2, <2>3, <2>4 DEF Pending
<1> QED
  BY <1>2, <1>3, <1>4 DEF Unharmed

\* The start of a share, to u: no end under way is newer.
LEMMA UnharmedSendStart ==
    ASSUME Types, Types', ShareInv, NEW u \in Users, NEW w \in Users, Send(w, u), u \notin overtaken', Unharmed(u),
           msg[w].op = "SCREEN_START"
    PROVE Unharmed(u)'
<1>1. NewsOf(msg[w], "sharer") /\ sharer = w /\ Says(msg[w], "sharer") = w /\ sharer' = sharer
  BY Sent DEF NewsOf, Says, ShareInv, HandlerOK
<1>2. msg[w].n \in Nat
  BY NumberOf DEF Numbered, Announcements
<1>3. /\ \A i \in 1 .. Len(inbox'[u]) : inbox'[u][i].op = "SCREEN_STOP" => Harmless(u, i)'
      /\ \A y \in Users : Stops(y, u)' => Stops(y, u) /\ msg[w].n <= msg[y].n
      /\ \A x \in Users : Tells(x, u)' => x # w /\ Tells(x, u) /\ msg'[x] = msg[x] /\ msg[w].n <= msg[x].n
  BY <1>1, SentNews
<1>4. ASSUME NEW y \in Users, Stops(y, u)' PROVE FALSE
  <2>1. msg[y].op = "SCREEN_STOP" /\ msg[w].n <= msg[y].n
    BY <1>3, <1>4 DEF Stops
  <2>2. msg[y].n \in Nat
    BY <2>1, NumberOf DEF Numbered, Announcements
  <2>3. msg[y].n < msg[w].n
    BY <2>1 DEF ShareInv, InOrder
  <2> QED
    BY <1>2, <2>1, <2>2, <2>3
<1>5. ASSUME NEW x \in Users, Tells(x, u)' PROVE msg'[x].sharer = w
  <2>1. x # w /\ Pending(x, u) /\ msg[x].op \in {"SCREEN_START", "ROOM_STATE"} /\ msg'[x] = msg[x] /\ msg[w].n <= msg[x].n
    BY <1>3, <1>5 DEF Tells
  <2>2. msg[x].op = "ROOM_STATE"
    BY <1>1, <2>1 DEF ShareInv, HandlerOK
  <2>3. pc[x] = "send"
    <3>1. pc[x] \in Told \cup {"bye"} => msg[x].op \in {"SCREEN_START", "SCREEN_STOP", "REMOTE_GRANT"}
      BY DEF ShareInv, HandlerOK, Announcements
    <3>2. todo[x] # {}
      BY <2>1, <2>2, <3>1 DEF Pending, Told
    <3> QED
      BY <2>2, <3>1, <3>2 DEF ShareInv, HandlerOK, Idle, Told, Leave
  <2>4. msg[x].n \in Nat
    BY <2>2, NumberOf DEF Numbered
  <2> QED
    BY <1>2, <2>1, <2>2, <2>3, <2>4 DEF ShareInv, InOrder
<1>6. Shown(view[u].sharer, inbox[u], Last(u), "sharer", {sharer})'
  <2>1. \A S : Says(msg[w], "sharer") \in S => Shown(view[u].sharer, inbox[u], Last(u), "sharer", S)'
    BY <1>1, SentNews
  <2> QED
    BY <1>1, <2>1
<1> QED
  BY <1>1, <1>3, <1>4, <1>5, <1>6 DEF Unharmed

\* A description of the share, to the one who joined
LEMMA UnharmedSendState ==
    ASSUME Types, Types', ShareInv, NEW u \in Users, NEW w \in Users, Send(w, u), u \notin overtaken', Unharmed(u),
           msg[w].op = "ROOM_STATE"
    PROVE Unharmed(u)'
<1>1. /\ NewsOf(msg[w], "sharer") /\ Says(msg[w], "sharer") = msg[w].sharer /\ sharer' = sharer
      /\ msg[w].sharer \in Someone /\ msg[w].n \in Nat
  <2>1. msg[w] \in Packet /\ sharer' = sharer /\ msg[w].n \in Nat
    BY Sent
  <2> QED
    BY <2>1 DEF NewsOf, Says, Packet
<1>2. w = u /\ pc[w] = "send"
  <2>1. pc[w] \in {"send", "bye"} /\ u \in todo[w]
    BY Sent
  <2>2. pc[w] # "bye"
    BY DEF ShareInv, HandlerOK, Announcements
  <2> QED
    BY <2>1, <2>2 DEF ShareInv, HandlerOK
<1>3. /\ \A i \in 1 .. Len(inbox'[u]) : inbox'[u][i].op = "SCREEN_STOP" => Harmless(u, i)'
      /\ \A y \in Users : Stops(y, u)' => Stops(y, u) /\ msg'[y] = msg[y] /\ msg[w].n <= msg[y].n
      /\ \A x \in Users : Tells(x, u)' => Tells(x, u) /\ msg'[x] = msg[x]
      /\ Tells(w, u)
  BY <1>1, SentNews
<1>4. ASSUME NEW S, msg[w].sharer \in S PROVE Shown(view[u].sharer, inbox[u], Last(u), "sharer", S)'
  <2>1. \A T : Says(msg[w], "sharer") \in T => Shown(view[u].sharer, inbox[u], Last(u), "sharer", T)'
    BY <1>1, SentNews
  <2> QED
    BY <1>1, <1>4, <2>1
<1>5. ASSUME NEW y \in Users, Stops(y, u)' PROVE Harmless(u, Last(u))'
  <2>1. Stops(y, u) /\ msg[w].n <= msg[y].n /\ msg[y].op = "SCREEN_STOP"
    BY <1>3, <1>5 DEF Stops
  <2>2. msg[y].n \in Nat
    BY <2>1, NumberOf DEF Numbered, Announcements
  <2>3. msg[w].sharer # u
    BY <1>1, <1>3, <2>1, <2>2 DEF Unharmed
  <2>4. msg[w].sharer \in Others(u)
    BY <1>1, <2>3 DEF Others
  <2> QED
    BY <1>4, <2>4 DEF Harmless, Others
<1>6. ASSUME sharer' \notin {NoUser, u}
      PROVE \/ Pending(sharer, u)' /\ msg'[sharer'].op = "SCREEN_START"
            \/ /\ Shown(view[u].sharer, inbox[u], Last(u), "sharer", {sharer})'
               /\ \A y \in Users : ~Stops(y, u)'
               /\ \A x \in Users : Tells(x, u)' => msg'[x].sharer = sharer'
  <2>1. sharer \in Users \ {u} /\ sharer \notin {NoUser, u}
    BY <1>1, <1>6 DEF Types, ServerTypes, Someone
  <2>2. \A y \in Users : y # w => pc'[y] = pc[y] /\ msg'[y] = msg[y] /\ todo'[y] = todo[y]
    BY Sent
  <2>3. CASE Pending(sharer, u) /\ msg[sharer].op = "SCREEN_START"
    BY <1>1, <1>2, <2>1, <2>2, <2>3 DEF Pending
  <2>4. CASE /\ \A y \in Users : ~Stops(y, u)
             /\ \A x \in Users : Tells(x, u) => msg[x].sharer = sharer
    <3>1. msg[w].sharer \in {sharer}
      BY <1>3, <2>4
    <3>2. Shown(view[u].sharer, inbox[u], Last(u), "sharer", {sharer})'
      BY <1>1, <1>4, <3>1
    <3> QED
      BY <1>1, <1>3, <2>4, <3>2
  <2> QED
    BY <2>1, <2>3, <2>4 DEF Unharmed
<1> QED
  BY <1>3, <1>5, <1>6 DEF Unharmed

\* A handler takes the next packet and has nothing new to tell of the sharer.
LEMMA UnharmedTakes ==
    ASSUME Types, ShareInv, NEW u \in Users, NEW w \in Users, Handler(w), Unharmed(u), NEW op, Handles(w, op),
           UNCHANGED <<inbox, newest, sharer>>,
           \/ msg'[w].op \notin {"SCREEN_START", "SCREEN_STOP", "ROOM_STATE"}
           \/ ~Pending(w, u)'
    PROVE Unharmed(u)'
<1>1. HandlersAlone(w) /\ view' = view /\ msg[w] = NoPacket
  BY HandlerAlone, Took DEF ShareInv, clientSide
<1>2. msg[w].op # "SCREEN_START"
  BY <1>1 DEF NoPacket
<1> QED
  BY <1>1, <1>2, UnharmedAside

\* An end of a share, or of a stay, that is not u's
LEMMA UnharmedEnds ==
    ASSUME Types, ShareInv, NEW u \in Users, NEW w \in Users, HandleScreenStop(w) \/ HandleLeaveRoom(w), Unharmed(u),
           Staying(u)
    PROVE Unharmed(u)'
<1>1. PICK op \in Ends : Handles(w, op) /\ UNCHANGED <<inbox, newest>> /\ Handler(w)
  BY DEF HandleScreenStop, HandleLeaveRoom, Ends, Handler
<1>2. /\ pc[w] = "read" /\ todo[w] = {} /\ msg[w] = NoPacket /\ NoPacket.op = "none"
      /\ out[w] \in Seq(Packet) /\ out[w] # <<>> /\ out[w][1].op = op
  BY <1>1, Took DEF NoPacket
<1>3. HandlersAlone(w) /\ view' = view /\ DOMAIN msg = Users
  BY <1>1, HandlerAlone DEF ShareInv, clientSide, Types, ServerTypes
<1>4. w # u
  <2>1. ASSUME w = u PROVE FALSE
    <3>1. 1 \in 1 .. Len(out[u])
      BY <1>2, <2>1
    <3>2. ~Posted(out[u], op)
      BY <1>1 DEF Staying
    <3> QED
      BY <1>2, <2>1, <3>1, <3>2 DEF Posted
  <2> QED
    BY <2>1
<1>5. \/ sharer = w /\ sharer' = NoUser /\ \E step \in {"clients", "leave"} : Announce(w, step, "SCREEN_STOP", w, NoUser)
      \/ sharer' = sharer /\ UNCHANGED msg
      \/ sharer' = sharer /\ msg'[w].op = "REMOTE_GRANT"
  <2>1. CASE HandleScreenStop(w)
    BY <2>1 DEF HandleScreenStop, StopShare, Ignored, handler
  <2>2. CASE HandleLeaveRoom(w)
    <3>1. \/ sharer = w /\ sharer' = NoUser /\ Announce(w, "leave", "SCREEN_STOP", w, NoUser)
          \/ sharer' = sharer /\ Announce(w, "state", "REMOTE_GRANT", sharer, NoUser)
          \/ sharer' = sharer /\ UNCHANGED msg
      BY <2>2 DEF HandleLeaveRoom, StopShare
    <3>2. Announce(w, "state", "REMOTE_GRANT", sharer, NoUser) => msg'[w].op = "REMOTE_GRANT"
      BY <1>3 DEF Announce
    <3> QED
      BY <3>1, <3>2
  <2> QED
    BY <2>1, <2>2
<1>6. CASE sharer = w /\ sharer' = NoUser /\ \E step \in {"clients", "leave"} : Announce(w, step, "SCREEN_STOP", w, NoUser)
  BY <1>1, <1>2, <1>3, <1>4, <1>6, UnharmedStop
<1>7. CASE sharer' = sharer /\ (UNCHANGED msg \/ msg'[w].op = "REMOTE_GRANT")
  <2>1. msg'[w].op \notin {"SCREEN_START", "SCREEN_STOP", "ROOM_STATE"}
    BY <1>2, <1>7
  <2> QED
    BY <1>1, <1>7, <2>1, UnharmedTakes
<1> QED
  BY <1>5, <1>6, <1>7

\* The room's users are looked up: u is one of them.
LEMMA UnharmedClients ==
    ASSUME Types, ShareInv, NEW u \in Users, NEW w \in Users, GetRoomClients(w), Unharmed(u), Staying(u)
    PROVE Unharmed(u)'
<1>1. /\ HandlersAlone(w) /\ view' = view /\ UNCHANGED <<inbox, newest, sharer>>
      /\ DOMAIN pc = Users /\ todo \in [Users -> SUBSET Users]
  <2>1. Handler(w) /\ UNCHANGED <<inbox, newest, sharer>>
    BY DEF Handler, GetRoomClients, order, relay
  <2> QED
    BY <2>1, HandlerAlone DEF ShareInv, clientSide, Types, ServerTypes
<1> DEFINE others == IF pc[w] = "leave" THEN members \ {w} ELSE members
<1>2. /\ pc[w] \in {"clients", "leave"} /\ todo[w] = {}
      /\ \/ others # {} /\ todo'[w] = others /\ pc'[w] \in {"send", "bye"} /\ msg' = msg
         \/ others = {} /\ pc'[w] \in {"read", "gone"} /\ todo' = todo
  <2>1. pc[w] \in {"clients", "leave"}
    BY DEF GetRoomClients
  <2>2. todo[w] = {}
    BY <2>1 DEF ShareInv, HandlerOK, Told
  <2> QED
    BY <1>1, <2>1, <2>2 DEF GetRoomClients, After
<1>3. ~Pending(w, u)' \/ (Pending(w, u) /\ msg'[w] = msg[w])
  BY <1>2 DEF Pending
<1>4. ASSUME w # u, Pending(w, u), msg[w].op = "SCREEN_START" PROVE Pending(w, u)' /\ msg'[w] = msg[w]
  <2>1. pc[w] = "clients"
    BY <1>2, <1>4 DEF ShareInv, HandlerOK, Leave
  <2>2. u \in others
    BY <2>1 DEF Staying
  <2> QED
    BY <1>2, <2>2 DEF Pending
<1> QED
  BY <1>1, <1>3, <1>4, UnharmedAside

\* The other steps of a handler
LEMMA UnharmedRest ==
    ASSUME Types, ShareInv, NEW u \in Users, NEW w \in Users, Unharmed(u),
           \/ HandleRemoteRequest(w) \/ Granting(w) \/ HandleRemoteEvent(w) \/ HandleJoinRoom(w)
           \/ Describe(w) \/ LooksUp(w)
    PROVE Unharmed(u)'
<1>1. DOMAIN pc = Users /\ DOMAIN msg = Users /\ todo \in [Users -> SUBSET Users]
  BY DEF Types, ServerTypes
<1>2. CASE HandleRemoteRequest(w) \/ HandleRemoteEvent(w)
  <2>1. PICK op \in {"REMOTE_REQUEST", "REMOTE_EVENT"} : Handles(w, op) /\ Handler(w)
          /\ UNCHANGED <<inbox, newest, sharer>> /\ (UNCHANGED msg \/ msg'[w].op \in {"REMOTE_REQUEST", "REMOTE_EVENT"})
    BY <1>1, <1>2 DEF HandleRemoteRequest, HandleRemoteEvent, Handler, Forward, Ignored, handler, relay
  <2>2. msg[w] = NoPacket /\ NoPacket.op = "none"
    BY <2>1, Took DEF NoPacket
  <2>3. msg'[w].op \notin {"SCREEN_START", "SCREEN_STOP", "ROOM_STATE"}
    BY <2>1, <2>2
  <2> QED
    BY <2>1, <2>3, UnharmedTakes
<1>3. CASE HandleRemoteGrant(w)
  <2>1. Handles(w, "REMOTE_GRANT") /\ Handler(w) /\ UNCHANGED <<inbox, newest, sharer>>
        /\ (UNCHANGED msg \/ msg'[w].op = "REMOTE_GRANT")
    BY <1>1, <1>3 DEF HandleRemoteGrant, Handler, Announce, Ignored, handler
  <2>2. msg[w] = NoPacket /\ NoPacket.op = "none"
    BY <2>1, Took DEF NoPacket
  <2>3. msg'[w].op \notin {"SCREEN_START", "SCREEN_STOP", "ROOM_STATE"}
    BY <2>1, <2>2
  <2> QED
    BY <2>1, <2>3, UnharmedTakes
<1>6. CASE FindTarget(w) \/ SetController(w) \/ LooksUp(w)
  <2>1. /\ Handler(w) /\ UNCHANGED <<inbox, newest, sharer>> /\ pc[w] \in {"read", "grant", "name", "state", "gone"}
        /\ UNCHANGED msg \/ msg'[w].op = "REMOTE_GRANT" \/ msg'[w] = NoPacket
    BY <1>1, <1>6
       DEF FindTarget, SetController, LooksUp, ReadName, GetState, GiveUpSeat, Handler, Announce, Has, order, relay
  <2>2. msg[w].op \in {"none", "REMOTE_GRANT"} /\ NoPacket.op = "none"
    BY <2>1 DEF ShareInv, HandlerOK, NoPacket, Idle
  <2>3. msg'[w].op \notin {"SCREEN_START", "SCREEN_STOP", "ROOM_STATE"}
    BY <2>1, <2>2
  <2>4. HandlersAlone(w) /\ view' = view
    BY <2>1, HandlerAlone DEF ShareInv, clientSide
  <2> QED
    BY <2>1, <2>2, <2>3, <2>4, UnharmedAside
<1>4. CASE HandleJoinRoom(w)
  <2>1. Handles(w, "JOIN_ROOM") /\ Handler(w) /\ UNCHANGED <<inbox, newest, sharer, todo>> /\ pc'[w] = "describe"
    BY <1>1, <1>4 DEF HandleJoinRoom, Handler, GoTo, order
  <2>2. ~Pending(w, u)'
    BY <2>1, Took DEF Pending
  <2> QED
    BY <2>1, <2>2, UnharmedTakes
<1>5. CASE Describe(w)
  <2>1. CASE w = u
    BY <1>5, <2>1, UnharmedDescribe
  <2>2. CASE w # u
    <3>1. /\ Handler(w) /\ UNCHANGED <<inbox, newest, sharer>> /\ pc[w] = "describe"
          /\ pc'[w] = "send" /\ todo'[w] = {w}
      BY <1>1, <1>5 DEF Describe, Handler, relay, order
    <3>2. HandlersAlone(w) /\ view' = view
      BY <3>1, HandlerAlone DEF ShareInv, clientSide
    <3>3. ~Pending(w, u)'
      BY <2>2, <3>1 DEF Pending
    <3>4. msg[w].op # "SCREEN_START"
      BY <3>1 DEF ShareInv, HandlerOK
    <3> QED
      BY <3>1, <3>2, <3>3, <3>4, UnharmedAside
  <2> QED
    BY <2>1, <2>2
<1> QED
  BY <1>2, <1>3, <1>4, <1>5, <1>6 DEF Granting

LEMMA UnharmedSend ==
    ASSUME Types, Types', ShareInv, NEW u \in Users, NEW w \in Users, NEW v \in Users, Send(w, v), u \notin overtaken',
           Unharmed(u), Staying(u)
    PROVE Unharmed(u)'
<1>1. CASE v # u
  BY <1>1, UnharmedSendAside
<1>2. CASE v = u /\ ~NewsOf(msg[w], "sharer")
  BY <1>2, UnharmedSendOther
<1>3. CASE v = u /\ NewsOf(msg[w], "sharer")
  BY <1>3, UnharmedSendStop, UnharmedSendStart, UnharmedSendState DEF NewsOf
<1> QED
  BY <1>1, <1>2, <1>3

LEMMA UnharmedHandler ==
    ASSUME Types, Types', ShareInv, NEW u \in Users, NEW w \in Users, Handler(w), u \notin overtaken',
           Unharmed(u), Staying(u)
    PROVE Unharmed(u)'
  BY UnharmedStart, UnharmedEnds, UnharmedClients, UnharmedRest, UnharmedSend DEF Handler, Granting, LooksUp

-----------------------------------------------------------------------------
(* EngineServes *)

\* Nobody becomes an exception's opposite.
LEMMA CountsBefore ==
    ASSUME Types, Types', ShareInv, NEW u \in Users, NEW w \in Users, Handler(w) PROVE Counts(u)' => Counts(u)
<1>1. hasty' = hasty /\ failed' = failed
  BY HandlerAlone DEF ShareInv, clientSide
<1>2. overtaken \subseteq overtaken'
  <2>1. ASSUME NEW v \in Users, Send(w, v) PROVE overtaken \subseteq overtaken'
    BY <2>1, Sent
  <2>2. CASE ~\E v \in Users : Send(w, v)
    <3>1. overtaken' = overtaken
      BY <2>2 DEF Handler, HandleScreenStart, HandleScreenStop, HandleRemoteRequest, HandleRemoteGrant, FindTarget,
         SetController, ReadName, HandleRemoteEvent, HandleLeaveRoom, GetState, GiveUpSeat, HandleJoinRoom, Describe,
         GetRoomClients, order
    <3> QED
      BY <3>1
  <2> QED
    BY <2>1, <2>2
<1> QED
  BY <1>1, <1>2 DEF Counts

LEMMA EngineHandler ==
    ASSUME Types, Types', ShareInv, NEW u \in Users, NEW w \in Users, EngineOK(u), Handler(w) PROVE EngineOK(u)'
<1>1. Counts(u)' => Counts(u) /\ u \notin overtaken'
  BY CountsBefore DEF Counts
<1>2. u \in engine' <=> u \in engine
  BY HandlerAlone DEF ShareInv, clientSide
<1>3. /\ Stopping(u) => Stopping(u)'
      /\ Staying(u) => Staying(u)'
      /\ Holds(u)' => Holds(u)
  BY EngineHandled
<1>4. ASSUME Counts(u)', Holds(u)' PROVE Unharmed(u)'
  <2>1. Unharmed(u) /\ Staying(u)
    BY <1>1, <1>3, <1>4 DEF EngineOK, Holds
  <2> QED
    BY <1>1, <1>4, <2>1, UnharmedHandler
<1> QED
  BY <1>1, <1>2, <1>3, <1>4 DEF EngineOK

LEMMA EngineStep ==
    ASSUME Types, Types', ShareInv, \A u \in Users : EngineOK(u), [Next]_vars PROVE \A u \in Users : EngineOK(u)'
<1> SUFFICES ASSUME NEW u \in Users PROVE EngineOK(u)'
  OBVIOUS
<1>1. CASE UNCHANGED vars
  <2>1. UNCHANGED <<members, sharer, pc, msg, todo, newest, overtaken, view, out, inbox, engine, hasty, failed>>
    BY <1>1 DEF vars, relay, handler, window, bounds, order, knowledge
  <2> QED
    BY <2>1, EngineAside
<1>2. ASSUME NEW w \in Users, ClientDoes(w) PROVE EngineOK(u)'
  <2>1. CASE w = u
    BY <1>2, <2>1, EngineClient
  <2>2. CASE w # u
    <3>1. UNCHANGED serverSide /\ OthersAlone(w)
      BY <1>2, ClientAlone DEF ShareInv
    <3>2. failed => failed'
      BY <1>2 DEF ClientDoes, Clicks, Window, StartScreenShare, OnStopClicked, OnRequestClicked, OnRevokeClicked,
         SelectOther, LeaveRoom, SetCurrentRoom, SelectRoom, JoinRoom, AnswerRequest, EventFilter, EngineFails,
         OnEngineStopped, OnScreenStart, OnScreenStop, OnRemoteRequest, OnRemoteGrant, OnRemoteEvent,
         HandleRoomState, bounds
    <3> QED
      BY <2>2, <3>1, <3>2, EngineAside DEF OthersAlone, serverSide
  <2> QED
    BY <2>1, <2>2
<1>3. ASSUME NEW w \in Users, Handler(w) PROVE EngineOK(u)'
  BY <1>3, EngineHandler
<1> QED
  BY <1>1, <1>2, <1>3 DEF Next, ClientDoes

LEMMA EngineInit == Init => \A u \in Users : EngineOK(u)
<1> SUFFICES ASSUME Init, NEW u \in Users PROVE EngineOK(u)
  OBVIOUS
<1>1. out[u] = <<>> /\ sharer = NoUser /\ engine = {} /\ u # NoUser
  BY ShareAssumption DEF Init
<1>2. Len(out[u]) = 0
  BY <1>1
<1>3. Stopping(u)
  BY <1>1, <1>2 DEF Stopping, Posted
<1> QED
  BY <1>1, <1>3 DEF EngineOK, Holds

\* What the invariant says of a user to or from whom nothing is under way
LEMMA EngineRests == Types /\ (\A u \in Users : EngineOK(u)) => EngineServes
<1> SUFFICES ASSUME Types, \A u \in Users : EngineOK(u), NEW u \in Users, u \notin hasty,
                    Quiet(u), sharer = u, u \notin overtaken, ~failed
             PROVE u \in engine
  BY DEF EngineServes, Captures, Types, ServerTypes
<1>1. Len(out[u]) = 0
  BY DEF Quiet
<1>2. ~Stopping(u)
  BY <1>1 DEF Stopping, Ended
<1> QED
  BY <1>2 DEF EngineOK, Counts

EnginesInv == ShareInv /\ \A u \in Users : EngineOK(u)

\* Whoever shares, in the eyes of the server, captures: for any number of
\* users and clicks, unless the engine failed, or the user was told of things
\* in the wrong order, or started before the window had heard all there was.
THEOREM EnginesServe == Spec => []EngineServes
<1>1. ConsentInv => Types
  BY DEF ConsentInv, ControlAllowed, Types
<1>2. Types /\ Types' /\ EnginesInv /\ [Next]_vars => EnginesInv'
  BY ShareStep, EngineStep DEF EnginesInv
<1>3. Init => EnginesInv
  BY ShareInit, EngineInit DEF EnginesInv
<1>4. Types /\ EnginesInv => EngineServes
  BY EngineRests DEF EnginesInv
<1> QED
  BY <1>1, <1>2, <1>3, <1>4, ConsentKept, PTL DEF Spec

-----------------------------------------------------------------------------
(* What the windows show *)

Viewed(u, a) == IF a = "sharer" THEN view[u].sharer ELSE view[u].controller
Truth(a) == IF a = "sharer" THEN sharer ELSE controller

\* u's window goes by what the server said, or is about to.
Reported(u, a) ==
    \/ u \in here \ blind /\ (a = "controller" => u \notin released)
    \/ Heard(inbox[u], a)

\* u's window is ahead of the server, which has yet to read what u did.
Local(u) ==
    \/ Posted(out[u], "LEAVE_ROOM")
    \/ sharer = u /\ Posted(out[u], "SCREEN_STOP")
    \/ sharer = NoUser /\ Posted(out[u], "SCREEN_START")

\* u will be told of change n, or of a later one; u will be told of a change
\* of the sharer that is older than what u knows.
Due(u, a, n) ==
    \/ pc[u] = "describe"
    \/ \E w \in Users : Pending(w, u) /\ NewsOf(msg[w], a) /\ n <= msg[w].n
Doomed(u) == \E w \in Users : Pending(w, u) /\ NewsOf(msg[w], "sharer") /\ msg[w].n < newest[u]

\* n is the last change of what there is to know: packets that are no older
\* tell the truth, and whoever listens shows it or is going to hear it.
Truthful(w, a, n) ==
    pc[w] \notin {"read", "describe"} /\ NewsOf(msg[w], a) /\ n <= msg[w].n => Says(msg[w], a) = Truth(a)

Aware(u, a, n) ==
    \/ Shown(Viewed(u, a), inbox[u], Last(u), a, {Truth(a)})
    \/ Local(u) \/ Due(u, a, n) \/ Doomed(u)

Stays(u) == u \in members \ overtaken /\ pc[u] \notin Leave
Informed(u, a, n) ==
    Stays(u) => /\ newest[u] < n => Due(u, a, n)
                /\ Reported(u, a) => Aware(u, a, n)

Known(a, n) == \A u \in Users : Truthful(u, a, n) /\ Informed(u, a, n)

\* Grants are no news of the sharer, whose last change may be an older one; who
\* has the control is known unless a start has hidden it, or nobody was told.
Change(a, n) == n \in Nat /\ n <= version /\ (a = "controller" => n = version /\ ~repeated)
KnownInv ==
    \A a \in Shows : (a = "controller" => ~repeated /\ ~silent) => \E n : Change(a, n) /\ Known(a, n)

LEMMA KnownInit == Init => KnownInv
<1> SUFFICES ASSUME Init PROVE KnownInv
  OBVIOUS
<1>1. ASSUME NEW u \in Users, NEW a \in Shows PROVE Truthful(u, a, 0) /\ Informed(u, a, 0)
  <2>1. inbox[u] = <<>> /\ newest[u] = 0 /\ pc[u] = "read" /\ view[u] = NoShare /\ sharer = NoUser /\ controller = NoUser
    BY DEF Init
  <2>2. Len(inbox[u]) = 0 /\ Last(u) = 1 /\ 1 .. (1 - 1) = {}
    BY <2>1 DEF Last
  <2>3. Viewed(u, a) \in {Truth(a)}
    BY <2>1 DEF Viewed, Truth, NoShare, View
  <2>4. Shown(Viewed(u, a), inbox[u], Last(u), a, {Truth(a)})
    BY <2>2, <2>3 DEF Shown
  <2> QED
    BY <2>1, <2>4 DEF Truthful, Informed, Aware
<1>2. \A a \in Shows : Known(a, 0)
  BY <1>1 DEF Known
<1>3. \A a \in Shows : Change(a, 0)
  BY DEF Init, Change
<1> QED
  BY <1>2, <1>3 DEF KnownInv

\* What the invariant says of a user to or from whom nothing is under way
LEMMA KnownRests ==
    ASSUME Types, ShareInv, NEW u \in Users, NEW a \in Shows, NEW n, Informed(u, a, n),
           u \in here, u \in members, Quiet(u), u \notin overtaken \cup blind \cup released
    PROVE Viewed(u, a) = Truth(a)
<1>1. \A w \in Users : ~Pending(w, u)
  BY DEF Quiet, ShareInv, HandlerOK, Pending, Idle
<1>2. Len(out[u]) = 0 /\ Len(inbox[u]) = 0 /\ pc[u] = "read"
  BY DEF Quiet
<1>3. ~Local(u) /\ ~Due(u, a, n) /\ ~Doomed(u)
  BY <1>1, <1>2 DEF Local, Posted, Due, Doomed
<1>4. Shown(Viewed(u, a), inbox[u], 1, a, {Truth(a)})
  BY <1>2, <1>3 DEF Informed, Aware, Stays, Leave, Reported, Last
<1> QED
  BY <1>4, ShownFirst

LEMMA ViewsRest == Types /\ ShareInv /\ KnownInv => ViewsAgree
<1> SUFFICES ASSUME Types, ShareInv, KnownInv, NEW u \in here \cap members,
                    Quiet(u), u \notin overtaken \cup blind \cup released
             PROVE view[u].sharer = sharer /\ (view[u].controller = controller \/ repeated \/ silent)
  BY DEF ViewsAgree
<1>1. u \in Users
  BY DEF Types, ServerTypes
<1>2. view[u].sharer = sharer
  <2>1. PICK n : Informed(u, "sharer", n)
    BY <1>1 DEF KnownInv, Known, Shows
  <2> QED
    BY <1>1, <2>1, KnownRests DEF Viewed, Truth, Shows
<1>3. ASSUME ~repeated, ~silent PROVE view[u].controller = controller
  <2>1. PICK n : Informed(u, "controller", n)
    BY <1>1, <1>3 DEF KnownInv, Known, Shows
  <2> QED
    BY <1>1, <2>1, KnownRests DEF Viewed, Truth, Shows
<1> QED
  BY <1>2, <1>3

-----------------------------------------------------------------------------
(* The clients' steps *)

\* What the others' clients do does not matter.
LEMMA InformedAside ==
    ASSUME NEW u \in Users, NEW a, NEW n, Informed(u, a, n), UNCHANGED serverSide,
           view'[u] = view[u], out'[u] = out[u], inbox'[u] = inbox[u],
           u \in here' <=> u \in here, u \in blind' <=> u \in blind, u \in released' <=> u \in released
    PROVE Informed(u, a, n)'
<1> USE DEF serverSide
<1>1. (Due(u, a, n)' <=> Due(u, a, n)) /\ (Doomed(u)' <=> Doomed(u))
  BY DEF Due, Doomed, Pending
<1>2. (Local(u)' <=> Local(u)) /\ (Reported(u, a)' <=> Reported(u, a)) /\ (Stays(u)' <=> Stays(u))
  BY DEF Local, Reported, Stays
<1>3. Viewed(u, a)' = Viewed(u, a) /\ Truth(a)' = Truth(a) /\ Last(u)' = Last(u)
  BY DEF Viewed, Truth, Last
<1> QED
  BY <1>1, <1>2, <1>3 DEF Informed, Aware

\* u's client takes nothing back that it has told the server.
SaysMore(u) == \A op \in Ends \cup {"SCREEN_START"} : Posted(out[u], op) => Posted(out'[u], op)

\* What a window shows does not matter if it is going to hear of it.
LEMMA ShownAgain ==
    ASSUME NEW s \in Seq(Packet), NEW v, NEW w, NEW a, NEW S, NEW i, i = Len(s) + 1, Shown(v, s, i, a, S),
           w = v \/ Heard(s, a)
    PROVE Shown(w, s, i, a, S)
<1>1. CASE w = v
  BY <1>1
<1>2. CASE Heard(s, a)
  <2>1. Shown(v, s, Len(s) + 1, a, S)
    OBVIOUS
  <2>2. \A x : Shown(x, s, Len(s) + 1, a, S)
    BY <1>2, <2>1, ShownLast
  <2> QED
    BY <2>2
<1> QED
  BY <1>1, <1>2

\* u's window takes no packet: what it shows is what it showed, or what it is
\* going to hear.
LEMMA InformedStays ==
    ASSUME Types, NEW u \in Users, NEW a, NEW n, Informed(u, a, n), UNCHANGED serverSide, inbox'[u] = inbox[u],
           SaysMore(u),
           Stays(u) /\ Reported(u, a)' =>
              /\ Reported(u, a)
              /\ \/ Viewed(u, a)' = Viewed(u, a) \/ Heard(inbox[u], a)
                 \/ Local(u)' \/ Due(u, a, n) \/ Doomed(u)
    PROVE Informed(u, a, n)'
<1> USE DEF serverSide
<1>1. (Due(u, a, n)' <=> Due(u, a, n)) /\ (Doomed(u)' <=> Doomed(u))
  BY DEF Due, Doomed, Pending
<1>2. (Local(u) => Local(u)') /\ (Stays(u)' <=> Stays(u))
  BY DEF Local, Stays, SaysMore, Ends
<1>3. Truth(a)' = Truth(a) /\ Last(u)' = Last(u) /\ Last(u) = Len(inbox[u]) + 1 /\ inbox[u] \in Seq(Packet)
  BY DEF Truth, Last, Types, ClientTypes
<1>4. ASSUME Stays(u), Reported(u, a)' PROVE Aware(u, a, n)'
  <2>1. CASE Local(u)' \/ Due(u, a, n) \/ Doomed(u)
    BY <1>1, <2>1 DEF Aware
  <2>2. CASE Reported(u, a) /\ ~Due(u, a, n) /\ ~Doomed(u) /\ ~Local(u)'
    <3>1. Shown(Viewed(u, a), inbox[u], Last(u), a, {Truth(a)})
      BY <1>2, <1>4, <2>2 DEF Informed, Aware
    <3>2. Viewed(u, a)' = Viewed(u, a) \/ Heard(inbox[u], a)
      BY <1>4, <2>2
    <3> DEFINE v == Viewed(u, a)
               w == Viewed(u, a)'
               S == {Truth(a)}
    <3> HIDE DEF v, w, S
    <3>3. Shown(w, inbox[u], Last(u), a, S)
      BY <1>3, <3>1, <3>2, ShownAgain DEF v, w, S
    <3>4. Shown(Viewed(u, a)', inbox[u], Last(u), a, {Truth(a)})
      BY <3>3 DEF w, S
    <3> QED
      BY <1>3, <3>4 DEF Aware
  <2> QED
    BY <1>4, <2>1, <2>2
<1> QED
  BY <1>1, <1>2, <1>4 DEF Informed

\* u's window takes a packet: it shows what it says, or will hear of it again.
LEMMA InformedTakes ==
    ASSUME Types, NEW u \in Users, NEW a, NEW n, Informed(u, a, n), UNCHANGED serverSide,
           inbox[u] # <<>>, inbox'[u] = Tail(inbox[u]), SaysMore(u),
           Reported(u, a)' =>
              /\ Reported(u, a)
              /\ \/ Viewed(u, a)' = IF NewsOf(inbox[u][1], a) THEN Says(inbox[u][1], a) ELSE Viewed(u, a)
                 \/ Heard(inbox'[u], a)
    PROVE Informed(u, a, n)'
<1> USE DEF serverSide
<1> DEFINE s == inbox[u]
           w == IF NewsOf(s[1], a) THEN Says(s[1], a) ELSE Viewed(u, a)
<1>1. (Due(u, a, n)' <=> Due(u, a, n)) /\ (Doomed(u)' <=> Doomed(u))
  BY DEF Due, Doomed, Pending
<1>2. (Local(u) => Local(u)') /\ (Stays(u)' <=> Stays(u))
  BY DEF Local, Stays, SaysMore, Ends
<1>3. Truth(a)' = Truth(a) /\ s \in Seq(Packet) /\ s # <<>>
  BY DEF Truth, Types, ClientTypes
<1>4. /\ Tail(s) \in Seq(Packet) /\ Len(Tail(s)) + 1 = Len(s) /\ Len(s) \in 1 .. Len(s)
      /\ Last(u)' = Len(Tail(s)) + 1 /\ Last(u) = Len(s) + 1
  BY <1>3 DEF Last
<1>5. ASSUME Shown(Viewed(u, a), s, Last(u), a, {Truth(a)}) PROVE Shown(w, Tail(s), Last(u)', a, {Truth(a)})
  <2> DEFINE v == Viewed(u, a)
             S == {Truth(a)}
  <2>1. w = IF NewsOf(s[1], a) THEN Says(s[1], a) ELSE v
    OBVIOUS
  <2> HIDE DEF s, w, v, S
  <2>2. \A i \in 1 .. Len(s) : Shown(v, s, i + 1, a, S) => Shown(w, Tail(s), i, a, S)
    BY <1>3, <2>1, ShownTail
  <2>3. Shown(v, s, Len(s) + 1, a, S) => Shown(w, Tail(s), Len(Tail(s)) + 1, a, S)
    BY <1>4, <2>2
  <2> QED
    BY <1>4, <1>5, <2>3 DEF v, S
<1>6. ASSUME Stays(u), Reported(u, a)' PROVE Aware(u, a, n)'
  <2>1. CASE Local(u) \/ Due(u, a, n) \/ Doomed(u)
    BY <1>1, <1>2, <2>1 DEF Aware
  <2>2. CASE Shown(Viewed(u, a), s, Last(u), a, {Truth(a)})
    <3>1. Shown(w, Tail(s), Last(u)', a, {Truth(a)})
      BY <1>5, <2>2
    <3>2. Viewed(u, a)' = w \/ Heard(Tail(s), a)
      BY <1>6
    <3> DEFINE v == Viewed(u, a)'
               i == Last(u)'
               S == {Truth(a)}
    <3> HIDE DEF v, w, s, i, S
    <3>3. Tail(s) \in Seq(Packet) /\ i = Len(Tail(s)) + 1 /\ Shown(w, Tail(s), i, a, S) /\ (v = w \/ Heard(Tail(s), a))
      BY <1>4, <3>1, <3>2 DEF v, i, S
    <3>4. Shown(v, Tail(s), i, a, S)
      BY <3>3, ShownAgain
    <3>5. Shown(Viewed(u, a)', Tail(s), Last(u)', a, {Truth(a)})
      BY <3>4 DEF v, i, S
    <3>6. inbox'[u] = Tail(s)
      BY DEF s
    <3> QED
      BY <1>3, <3>5, <3>6 DEF Aware
  <2> QED
    BY <1>6, <2>1, <2>2 DEF Informed, Aware
<1> QED
  BY <1>1, <1>2, <1>6 DEF Informed

\* One more packet from u's client, or some
LEMMA PostMore ==
    ASSUME Types, Types', NEW u \in Users, NEW op \in Ops, NEW v \in Someone, Post(u, op, v)
    PROVE SaysMore(u) /\ Posted(out'[u], op)
<1> DEFINE p == [op |-> op, sharer |-> u, user |-> v, n |-> starts'[u]]
<1>1. starts'[u] \in Nat /\ out \in [Users -> Seq(Packet)] /\ out[u] \in Seq(Packet)
  BY DEF ClientTypes, Types
<1>2. p \in Packet /\ p.op = op
  BY <1>1 DEF Packet, Someone
<1>3. out'[u] = Append(out[u], p)
  BY <1>1 DEF Post
<1> HIDE DEF p
<1> QED
  BY <1>1, <1>2, <1>3, PostedAppend DEF SaysMore

LEMMA LeaveMore == ASSUME Types, NEW u \in Users, SelectOther(u) \/ LeaveRoom(u) PROVE SaysMore(u)
<1> DEFINE left == [op |-> "LEAVE_ROOM", sharer |-> u, user |-> NoUser, n |-> 0]
           stop == [op |-> "SCREEN_STOP", sharer |-> u, user |-> NoUser, n |-> starts[u]]
           s == out[u]
<1>1. PICK t \in {<<>>, <<left>>}, end \in {<<>>, <<stop>>} : out'[u] = s \o t \o end
  BY DEF SelectOther, LeaveRoom, SetCurrentRoom, Types, ClientTypes
<1>2. s \in Seq(Packet) /\ left \in Packet /\ stop \in Packet
  BY DEF Types, ClientTypes, Packet, Ops, Someone
<1> HIDE DEF left, stop, s
<1>3. t \in Seq(Packet) /\ end \in Seq(Packet)
  <2>1. \A p \in Packet : <<p>> \in Seq(Packet)
    OBVIOUS
  <2>2. <<>> \in Seq(Packet)
    OBVIOUS
  <2>3. <<left>> \in Seq(Packet) /\ <<stop>> \in Seq(Packet)
    BY <1>2, <2>1
  <2>4. t = <<>> \/ t = <<left>>
    OBVIOUS
  <2>5. end = <<>> \/ end = <<stop>>
    OBVIOUS
  <2>6. t \in Seq(Packet)
    BY <2>2, <2>3, <2>4
  <2> QED
    BY <2>2, <2>3, <2>5, <2>6
<1>4. /\ Len(s) \in Nat /\ Len(s \o t \o end) \in Nat /\ Len(s) <= Len(s \o t \o end)
      /\ \A i \in 1 .. Len(s) : (s \o t \o end)[i] = s[i]
  BY <1>2, <1>3
<1>5. \A i \in 1 .. Len(s) : i \in 1 .. Len(s \o t \o end)
  BY <1>4
<1> QED
  BY <1>1, <1>4, <1>5 DEF SaysMore, Posted, s

LEMMA AsideMore == ASSUME Types, NEW u \in Users, PostsAside(u) PROVE SaysMore(u)
  BY PostedAside DEF SaysMore

\* A window that has heard all there is to hear of what it shows knows who
\* shares, or else u has said something since, or is going to be told.
LEMMA WindowKnows ==
    ASSUME Types, ShareInv, NEW u \in Users, NEW n, Informed(u, "sharer", n), Stays(u),
           NEW a \in Shows, NEW k, Change(a, k), Informed(u, a, k), a = "sharer" => k = n,
           Reported(u, a), ~Heard(inbox[u], a)
    PROVE view[u].sharer = sharer \/ Local(u) \/ Due(u, a, k) \/ Doomed(u)
<1>1. \A m : NewsOf(m, "sharer") => NewsOf(m, a)
  BY DEF NewsOf, Shows
<1>2. ~Heard(inbox[u], "sharer")
  BY <1>1 DEF Heard
<1>3. Reported(u, "sharer")
  BY DEF Reported
<1>4. Aware(u, "sharer", n)
  BY <1>3 DEF Informed
<1>5. CASE Shown(Viewed(u, "sharer"), inbox[u], Last(u), "sharer", {Truth("sharer")})
  <2>1. inbox[u] \in Seq(Packet) /\ Last(u) = Len(inbox[u]) + 1
    BY DEF Types, ClientTypes, Last
  <2>2. Viewed(u, "sharer") \in {Truth("sharer")}
    BY <1>2, <1>5, <2>1, ShownLast
  <2> QED
    BY <2>2 DEF Viewed, Truth
<1>6. CASE Due(u, "sharer", n) /\ a = "controller" /\ pc[u] # "describe"
  <2>1. k = version /\ newest[u] \in Nat /\ newest[u] <= version /\ version \in Nat
    BY <1>6 DEF Change, ShareInv, WindowTypes, Types, ServerTypes
  <2>2. PICK w \in Users : Pending(w, u) /\ NewsOf(msg[w], "sharer")
    BY <1>6 DEF Due
  <2>3. msg[w].n \in Nat /\ NewsOf(msg[w], a)
    BY <1>1, <2>2, NumberOf DEF NewsOf, Numbered, Announcements
  <2>4. CASE newest[u] < k
    BY <2>4 DEF Informed
  <2>5. CASE k <= msg[w].n
    BY <2>2, <2>3, <2>5 DEF Due
  <2>6. CASE newest[u] = k /\ msg[w].n < k
    BY <2>2, <2>3, <2>6 DEF Doomed
  <2> QED
    BY <2>1, <2>3, <2>4, <2>5, <2>6
<1>7. CASE Due(u, "sharer", n) /\ (a = "sharer" \/ pc[u] = "describe")
  BY <1>7 DEF Due
<1>8. CASE Doomed(u)
  BY <1>1, <1>8 DEF Doomed
<1> QED
  BY <1>4, <1>5, <1>6, <1>7, <1>8 DEF Aware, Shows

\* u stops sharing, and says so.
LEMMA InformedStops ==
    ASSUME Types, Types', ShareInv, NEW u \in Users, NEW n, Informed(u, "sharer", n), UNCHANGED serverSide,
           NEW a \in Shows, NEW k, Change(a, k), Informed(u, a, k), a = "sharer" => k = n,
           inbox'[u] = inbox[u], view[u].sharer = u, Post(u, "SCREEN_STOP", NoUser), Reported(u, a)' => Reported(u, a)
    PROVE Informed(u, a, k)'
<1>1. SaysMore(u) /\ Posted(out'[u], "SCREEN_STOP")
  BY PostMore DEF Ops, Someone
<1>2. /\ view[u].sharer = sharer => Local(u)'
      /\ Local(u) => Local(u)'
  BY <1>1 DEF serverSide, Local, SaysMore, Ends
<1>3. ASSUME Stays(u), Reported(u, a)'
      PROVE Heard(inbox[u], a) \/ Local(u)' \/ Due(u, a, k) \/ Doomed(u)
  BY <1>2, <1>3, WindowKnows
<1> QED
  BY <1>1, <1>3, InformedStays

\* u starts to share, and says so.
LEMMA InformedStarts ==
    ASSUME Types, Types', ShareInv, NEW u \in Users, NEW n, Informed(u, "sharer", n), StartScreenShare(u),
           NEW a \in Shows, NEW k, Change(a, k), Informed(u, a, k), a = "sharer" => k = n
    PROVE Informed(u, a, k)'
<1>1. UNCHANGED serverSide
  BY ClientAlone DEF ClientDoes, Clicks, ShareInv
<1>2. /\ inbox' = inbox /\ here' = here /\ blind' = blind /\ released' = released
      /\ view[u].sharer = NoUser /\ view' = [view EXCEPT ![u].sharer = u] /\ Post(u, "SCREEN_START", NoUser)
  BY DEF StartScreenShare
<1>3. SaysMore(u) /\ Posted(out'[u], "SCREEN_START")
  BY <1>2, PostMore DEF Ops, Someone
<1>4. Reported(u, a)' <=> Reported(u, a)
  BY <1>2 DEF Reported
<1>5. /\ view[u].sharer = sharer => Local(u)'
      /\ Local(u) => Local(u)'
  BY <1>1, <1>2, <1>3 DEF serverSide, Local, SaysMore, Ends
<1>6. ASSUME Stays(u), Reported(u, a)'
      PROVE Heard(inbox[u], a) \/ Local(u)' \/ Due(u, a, k) \/ Doomed(u)
  BY <1>4, <1>5, <1>6, WindowKnows
<1> QED
  BY <1>1, <1>2, <1>3, <1>4, <1>6, InformedStays

\* The clicks that take nothing from the server
LEMMA InformedClicks ==
    ASSUME Types, Types', ShareInv, NEW u \in Users, Clicks(u) \/ EngineFails(u) \/ OnEngineStopped(u),
           NEW n, Informed(u, "sharer", n),
           NEW a \in Shows, NEW k, Change(a, k), Informed(u, a, k), a = "sharer" => k = n
    PROVE Informed(u, a, k)'
<1>1. UNCHANGED serverSide /\ DOMAIN view = Users /\ view[u] \in [sharer : Someone, controller : Someone]
  BY ClientAlone DEF ClientDoes, ShareInv, WindowTypes
<1>2. CASE StartScreenShare(u)
  BY <1>2, InformedStarts
<1>3. CASE OnStopClicked(u)
  <2>1. /\ UNCHANGED <<inbox, here, blind, released>> /\ view[u].sharer = u /\ Post(u, "SCREEN_STOP", NoUser)
    BY <1>3 DEF OnStopClicked, knowledge
  <2>2. Reported(u, a)' => Reported(u, a)
    BY <2>1 DEF Reported
  <2> QED
    BY <1>1, <2>1, <2>2, InformedStops
<1>4. CASE OnRevokeClicked(u)
  <2>1. /\ inbox' = inbox /\ here' = here /\ blind' = blind
        /\ \/ view' = view /\ released' = released
           \/ view' = [view EXCEPT ![u] = [view[u] EXCEPT !.controller = NoUser]] /\ released' = released \cup {u}
    BY <1>4 DEF OnRevokeClicked
  <2>2. [view[u] EXCEPT !.controller = NoUser].sharer = view[u].sharer
    BY <1>1
  <2>3. Reported(u, a)' => Reported(u, a) /\ (Viewed(u, a)' = Viewed(u, a) \/ Heard(inbox[u], a))
    BY <1>1, <2>1, <2>2 DEF Reported, Viewed, Shows
  <2>4. SaysMore(u)
    BY <1>4, PostsOnly, AsideMore
  <2> QED
    BY <1>1, <2>1, <2>3, <2>4, InformedStays
<1>5. CASE SelectOther(u) \/ LeaveRoom(u)
  <2>1. inbox' = inbox /\ u \notin here'
    BY <1>5 DEF SelectOther, LeaveRoom, SetCurrentRoom
  <2>2. Reported(u, a)' => Heard(inbox[u], a) /\ Reported(u, a)
    BY <2>1 DEF Reported
  <2>3. SaysMore(u)
    BY <1>5, LeaveMore
  <2> QED
    BY <1>1, <2>1, <2>2, <2>3, InformedStays
<1>6. CASE SelectRoom(u)
  <2>1. inbox' = inbox /\ view' = view /\ u \in blind'
    BY <1>6 DEF SelectRoom
  <2>2. Reported(u, a)' => Heard(inbox[u], a) /\ Reported(u, a)
    BY <2>1 DEF Reported
  <2>3. SaysMore(u)
    BY <1>6, PostsOnly, AsideMore
  <2> QED
    BY <1>1, <2>1, <2>2, <2>3, InformedStays
<1>7. CASE OnRequestClicked(u) \/ JoinRoom(u) \/ EventFilter(u) \/ \E yes \in BOOLEAN : AnswerRequest(u, yes)
  <2>1. UNCHANGED <<inbox, view, here, blind, released>>
    BY <1>7 DEF OnRequestClicked, JoinRoom, EventFilter, AnswerRequest, window, knowledge
  <2>2. (Reported(u, a)' <=> Reported(u, a)) /\ Viewed(u, a)' = Viewed(u, a)
    BY <2>1 DEF Reported, Viewed
  <2>3. SaysMore(u)
    BY <1>7, PostsOnly, AsideMore
  <2> QED
    BY <1>1, <2>1, <2>2, <2>3, InformedStays
<1>8. CASE EngineFails(u)
  <2>1. UNCHANGED <<inbox, view, here, blind, released, out>>
    BY <1>8 DEF EngineFails, knowledge
  <2> QED
    BY <1>1, <2>1, InformedAside
<1>9. CASE OnEngineStopped(u)
  <2>1. /\ inbox' = inbox /\ here' = here /\ released' = released
        /\ \/ view[u].sharer = u /\ Post(u, "SCREEN_STOP", NoUser) /\ blind' = blind
           \/ u \in blind' /\ out' = out
    BY <1>9 DEF OnEngineStopped
  <2>2. CASE view[u].sharer = u /\ Post(u, "SCREEN_STOP", NoUser) /\ blind' = blind
    <3>1. Reported(u, a)' => Reported(u, a)
      BY <2>1, <2>2 DEF Reported
    <3> QED
      BY <1>1, <2>1, <2>2, <3>1, InformedStops
  <2>3. CASE u \in blind' /\ out' = out
    <3>1. Reported(u, a)' => Heard(inbox[u], a) /\ Reported(u, a)
      BY <2>1, <2>3 DEF Reported
    <3> QED
      BY <1>1, <2>1, <2>3, <3>1, InformedStays DEF SaysMore
  <2> QED
    BY <2>1, <2>2, <2>3
<1> QED
  BY <1>2, <1>3, <1>4, <1>5, <1>6, <1>7, <1>8, <1>9 DEF Clicks

\* The packets the window takes
LEMMA InformedWindow ==
    ASSUME Types, Types', ShareInv, NEW u \in Users, Window(u), NEW a \in Shows, NEW k, Informed(u, a, k)
    PROVE Informed(u, a, k)'
<1>1. UNCHANGED serverSide /\ DOMAIN view = Users /\ view[u] \in [sharer : Someone, controller : Someone]
  BY ClientAlone DEF ClientDoes, ShareInv, WindowTypes
<1> DEFINE p == inbox[u][1]
           w == IF NewsOf(p, a) THEN Says(p, a) ELSE Viewed(u, a)
<1>2. /\ inbox[u] # <<>> /\ inbox'[u] = Tail(inbox[u]) /\ inbox[u] \in Seq(Packet)
      /\ Heard(inbox[u], a) <=> Heard(inbox'[u], a) \/ NewsOf(p, a)
  <2>1. inbox[u] # <<>> /\ inbox'[u] = Tail(inbox[u]) /\ inbox[u] \in Seq(Packet)
    BY DEF Window, OnScreenStart, OnScreenStop, OnRemoteRequest, OnRemoteGrant, OnRemoteEvent, HandleRoomState,
       Takes, Types, ClientTypes
  <2>2. Heard(inbox[u], a) <=> Heard(Tail(inbox[u]), a) \/ NewsOf(p, a)
    BY <2>1, ShownTail
  <2> QED
    BY <2>1, <2>2
<1>3. ASSUME SaysMore(u), Reported(u, a)' => Reported(u, a) /\ (Viewed(u, a)' = w \/ Heard(inbox'[u], a))
      PROVE Informed(u, a, k)'
  BY <1>1, <1>2, <1>3, InformedTakes
<1>4. CASE OnScreenStart(u) \/ OnScreenStop(u) \/ HandleRoomState(u)
  <2>1. NewsOf(p, a)
    BY <1>4 DEF OnScreenStart, OnScreenStop, HandleRoomState, Takes, NewsOf
  <2>2. Viewed(u, a)' = Says(p, a) \/ u \notin here'
    BY <1>1, <1>4 DEF OnScreenStart, OnScreenStop, HandleRoomState, Takes, Viewed, Says, View, NoShare, Described,
       ClearShareState, Shows
  <2>3. out' = out
    BY <1>4 DEF OnScreenStart, OnScreenStop, HandleRoomState
  <2>4. Reported(u, a)' => Viewed(u, a)' = Says(p, a) \/ Heard(inbox'[u], a)
    BY <2>2 DEF Reported
  <2> QED
    BY <1>2, <1>3, <2>1, <2>3, <2>4 DEF SaysMore, Reported
<1>5. CASE OnRemoteRequest(u) \/ OnRemoteEvent(u)
  <2>1. p.op \in {"REMOTE_REQUEST", "REMOTE_EVENT"} /\ UNCHANGED <<view, here, blind, released>>
    BY <1>5 DEF OnRemoteRequest, OnRemoteEvent, Takes, window, knowledge
  <2>2. ~NewsOf(p, a)
    BY <2>1 DEF NewsOf
  <2>3. Viewed(u, a)' = Viewed(u, a) /\ (Reported(u, a)' => Reported(u, a))
    BY <1>2, <2>1 DEF Viewed, Reported
  <2>4. SaysMore(u)
    BY <1>5, PostsOnly, AsideMore
  <2> QED
    BY <1>3, <2>2, <2>3, <2>4
<1>6. CASE OnRemoteGrant(u)
  <2>1. /\ p.op = "REMOTE_GRANT" /\ UNCHANGED <<here, blind>>
        /\ \/ u \in here /\ view' = [view EXCEPT ![u] = [view[u] EXCEPT !.controller = p.user]] /\ released' = released \ {u}
           \/ u \notin here /\ view' = view /\ released' = released
    BY <1>6 DEF OnRemoteGrant, Takes
  <2>2. /\ [view[u] EXCEPT !.controller = p.user].sharer = view[u].sharer
        /\ [view[u] EXCEPT !.controller = p.user].controller = p.user
    BY <1>1
  <2>3. view'[u].sharer = view[u].sharer /\ (u \in here => view'[u].controller = p.user)
    BY <1>1, <2>1, <2>2
  <2>4. SaysMore(u)
    BY <1>6, PostsOnly, AsideMore
  <2>5. CASE a = "controller"
    <3>1. NewsOf(p, a) /\ Says(p, a) = p.user
      BY <2>1, <2>5 DEF NewsOf, Says
    <3>2. Reported(u, a)' => Viewed(u, a)' = p.user \/ Heard(inbox'[u], a)
      BY <2>1, <2>3, <2>5 DEF Reported, Viewed
    <3>3. Reported(u, a)
      BY <1>2, <3>1 DEF Reported
    <3> QED
      BY <1>3, <2>4, <3>1, <3>2, <3>3
  <2>6. CASE a = "sharer"
    <3>1. ~NewsOf(p, a)
      BY <2>1, <2>6 DEF NewsOf
    <3>2. Viewed(u, a)' = Viewed(u, a)
      BY <2>3, <2>6 DEF Viewed
    <3>3. Reported(u, a)' => Reported(u, a)
      BY <1>2, <2>1, <2>6 DEF Reported
    <3> QED
      BY <1>3, <2>4, <3>1, <3>2, <3>3
  <2> QED
    BY <2>5, <2>6 DEF Shows
<1> QED
  BY <1>4, <1>5, <1>6 DEF Window

\* What the clients do leaves the server's knowledge alone.
LEMMA KnownClient ==
    ASSUME Types, Types', ShareInv, NEW w \in Users, ClientDoes(w), repeated' = repeated, KnownInv
    PROVE KnownInv'
<1>1. UNCHANGED serverSide /\ OthersAlone(w)
  BY ClientAlone DEF ShareInv
<1>2. PICK n : Change("sharer", n) /\ Known("sharer", n)
  BY DEF KnownInv, Shows
<1>3. ASSUME NEW a \in Shows, NEW k, Change(a, k), Known(a, k), a = "sharer" => k = n
      PROVE Change(a, k)' /\ Known(a, k)'
  <2>1. Change(a, k)'
    BY <1>1, <1>3 DEF Change, serverSide
  <2>2. ASSUME NEW u \in Users PROVE Truthful(u, a, k)'
    <3>1. Truthful(u, a, k)
      BY <1>3 DEF Known
    <3> QED
      BY <1>1, <3>1 DEF Truthful, Truth, serverSide
  <2>3. ASSUME NEW u \in Users PROVE Informed(u, a, k)'
    <3>1. Informed(u, a, k) /\ Informed(u, "sharer", n)
      BY <1>2, <1>3 DEF Known
    <3>2. CASE u # w
      BY <1>1, <3>1, <3>2, InformedAside DEF OthersAlone
    <3>3. CASE u = w
      BY <1>3, <3>1, <3>3, InformedClicks, InformedWindow DEF ClientDoes
    <3> QED
      BY <3>2, <3>3
  <2> QED
    BY <2>1, <2>2, <2>3 DEF Known
<1>4. Change("sharer", n)' /\ Known("sharer", n)' /\ silent' = silent
  BY <1>1, <1>2, <1>3 DEF Shows, serverSide
<1>5. ASSUME ~repeated, ~silent PROVE \E k : Change("controller", k)' /\ Known("controller", k)'
  <2>1. PICK k : Change("controller", k) /\ Known("controller", k)
    BY <1>5 DEF KnownInv, Shows
  <2> QED
    BY <1>3, <2>1 DEF Shows
<1> QED
  BY <1>4, <1>5 DEF KnownInv, Shows

-----------------------------------------------------------------------------
(* The handlers' steps *)

\* A handler w that neither changes what there is to know nor tells anybody:
\* its packet is no news, or tells the truth, or is the old one; who was going
\* to be told of it is still, unless it is an older grant; and it reads nothing
\* its client counts on.
LEMMA KnownKept ==
    ASSUME Types, ShareInv, NEW w \in Users, Handler(w), UNCHANGED <<sharer, inbox, newest, overtaken>>,
           NEW a \in Shows, NEW n, Truth(a)' = Truth(a), Known(a, n),
           \/ pc'[w] \in {"read", "describe"}
           \/ ~NewsOf(msg'[w], a)
           \/ msg'[w] = msg[w] /\ pc[w] \notin {"read", "describe"}
           \/ Says(msg'[w], a) = Truth(a),
           \A u \in Users : Stays(u)' => Stays(u) \/ Due(u, a, n)',
           \A u \in Users : Stays(u)' /\ NewsOf(msg[w], a) /\ Pending(w, u) =>
              \/ Pending(w, u)' /\ msg'[w] = msg[w]
              \/ ~NewsOf(msg[w], "sharer") /\ ~(n <= msg[w].n),
           pc[w] = "describe" => Due(w, a, n)',
           Stays(w)' /\ Local(w) => Local(w)' \/ Due(w, a, n)'
    PROVE Known(a, n)'
<1>1. HandlersAlone(w) /\ UNCHANGED clientSide
  BY HandlerAlone DEF ShareInv
<1>2. \A y \in Users : y # w => pc'[y] = pc[y] /\ msg'[y] = msg[y] /\ todo'[y] = todo[y] /\ out'[y] = out[y]
  BY <1>1 DEF HandlersAlone
<1>3. ASSUME NEW y \in Users PROVE Truthful(y, a, n)'
  <2>1. Truthful(y, a, n)
    BY DEF Known
  <2> QED
    BY <1>2, <2>1 DEF Truthful
<1>4. ASSUME NEW u \in Users PROVE Informed(u, a, n)'
  <2>1. SUFFICES ASSUME Stays(u)', Stays(u), ~Due(u, a, n)' PROVE Informed(u, a, n)'
    BY DEF Informed, Aware
  <2>2. ASSUME NEW y \in Users, Pending(y, u), NewsOf(msg[y], a)
        PROVE \/ Pending(y, u)' /\ msg'[y] = msg[y]
              \/ ~NewsOf(msg[y], "sharer") /\ ~(n <= msg[y].n)
    <3>1. CASE y = w
      BY <2>1, <2>2, <3>1
    <3>2. CASE y # w
      BY <1>2, <2>2, <3>2 DEF Pending
    <3> QED
      BY <3>1, <3>2
  <2>3. ~Due(u, a, n)
    <3>1. pc[u] # "describe"
      BY <1>2, <2>1 DEF Due
    <3>2. \A y \in Users : Pending(y, u) /\ NewsOf(msg[y], a) => ~(n <= msg[y].n)
      BY <2>1, <2>2 DEF Due
    <3> QED
      BY <3>1, <3>2 DEF Due
  <2>4. Doomed(u) => Doomed(u)'
    <3>1. \A m : NewsOf(m, "sharer") => NewsOf(m, a)
      BY DEF NewsOf, Shows
    <3> QED
      BY <2>2, <3>1 DEF Doomed
  <2>5. Local(u) => Local(u)'
    <3>1. CASE u = w
      BY <2>1, <3>1
    <3>2. CASE u # w
      BY <1>2, <3>2 DEF Local
    <3> QED
      BY <3>1, <3>2
  <2>6. (Reported(u, a)' <=> Reported(u, a)) /\ Viewed(u, a)' = Viewed(u, a) /\ Last(u)' = Last(u)
    BY <1>1 DEF clientSide, Reported, Viewed, Last
  <2>7. Informed(u, a, n)
    BY DEF Known
  <2>8. Shown(Viewed(u, a), inbox[u], Last(u), a, {Truth(a)})' <=> Shown(Viewed(u, a), inbox[u], Last(u), a, {Truth(a)})
    BY <2>6
  <2>9. ~(newest'[u] < n)
    BY <2>1, <2>3, <2>7 DEF Informed
  <2>10. Reported(u, a)' => Aware(u, a, n)'
    BY <2>1, <2>3, <2>4, <2>5, <2>6, <2>7, <2>8 DEF Informed, Aware
  <2> QED
    BY <2>9, <2>10 DEF Informed
<1> QED
  BY <1>3, <1>4 DEF Known

\* w's handler is through with a packet.
Through(w, op) == (Has(w, "read", op) \/ Has(w, "grant", op)) /\ Done(w)

\* A packet that changes nothing: the end of a stay, or of a share, is none.
LEMMA KnownTakes ==
    ASSUME Types, ShareInv, NEW w \in Users, Handler(w), NEW op, Through(w, op),
           UNCHANGED <<sharer, inbox, newest, overtaken>>,
           NEW a \in Shows, NEW n, Truth(a)' = Truth(a), Known(a, n),
           pc'[w] \in {"read", "describe"} \/ ~NewsOf(msg'[w], a),
           \A u \in Users \ {w} : u \in members' <=> u \in members,
           Stays(w)' => w \in members \/ Due(w, a, n)',
           Stays(w)' /\ ~Due(w, a, n)' =>
              /\ op = "SCREEN_START" => sharer # NoUser
              /\ op = "SCREEN_STOP" => sharer # w
              /\ op # "LEAVE_ROOM"
    PROVE Known(a, n)'
<1>1. /\ pc[w] \notin Leave /\ msg[w] = NoPacket /\ out[w] \in Seq(Packet) /\ out[w] # <<>>
      /\ out[w][1].op = op /\ out'[w] = Tail(out[w]) /\ pc[w] # "describe"
  BY DEF Through, Has, Done, Idle, Leave, Types, ClientTypes, ShareInv, HandlerOK
<1>2. ~NewsOf(msg[w], a)
  BY <1>1 DEF NoPacket, NewsOf
<1>3. HandlersAlone(w)
  BY HandlerAlone DEF ShareInv
<1>4. \A u \in Users : Stays(u)' => Stays(u) \/ Due(u, a, n)'
  <2>1. \A u \in Users \ {w} : Stays(u)' => Stays(u)
    BY <1>3 DEF HandlersAlone, Stays
  <2>2. Stays(w)' => Stays(w) \/ Due(w, a, n)'
    BY <1>1 DEF Stays
  <2> QED
    BY <2>1, <2>2
<1>5. ASSUME Stays(w)', Local(w), ~Due(w, a, n)' PROVE Local(w)'
  <2>1. \A kind : Posted(out[w], kind) <=> op = kind \/ Posted(out'[w], kind)
    BY <1>1, PostedTail
  <2>2. op = "SCREEN_START" => sharer # NoUser
    BY <1>5
  <2>3. op = "SCREEN_STOP" => sharer # w
    BY <1>5
  <2>4. op # "LEAVE_ROOM"
    BY <1>5
  <2>5. Posted(out[w], "LEAVE_ROOM") => Posted(out'[w], "LEAVE_ROOM")
    BY <2>1, <2>4
  <2>6. sharer = w /\ Posted(out[w], "SCREEN_STOP") => Posted(out'[w], "SCREEN_STOP")
    BY <2>1, <2>3
  <2>7. sharer = NoUser /\ Posted(out[w], "SCREEN_START") => Posted(out'[w], "SCREEN_START")
    BY <2>1, <2>2
  <2> QED
    BY <1>5, <2>5, <2>6, <2>7 DEF Local
<1> QED
  BY <1>1, <1>2, <1>4, <1>5, KnownKept

\* News of a change, for everyone who stays
LEMMA KnownAnnounce ==
    ASSUME Types, ShareInv, NEW w \in Users, HandlersAlone(w), NEW step \in Told,
           NEW op, NEW s, NEW v, Announce(w, step, op, s, v),
           NEW a \in Shows, NewsOf(msg'[w], a), Says(msg'[w], a) = Truth(a)',
           NEW n, n = version + 1
    PROVE Known(a, n)'
<1>1. /\ pc'[w] = step /\ msg'[w] = [op |-> op, sharer |-> s, user |-> v, n |-> version + 1] /\ version \in Nat
      /\ \A y \in Users : y # w => pc'[y] = pc[y] /\ msg'[y] = msg[y]
  BY DEF Announce, GoTo, Types, ServerTypes, HandlersAlone
<1>2. ASSUME NEW y \in Users PROVE Truthful(y, a, n)'
  <2>1. CASE y = w
    BY <2>1 DEF Truthful
  <2>2. CASE y # w
    <3>1. NewsOf(msg[y], a) => msg[y].op \in Numbered
      BY DEF NewsOf, Shows, Numbered, Announcements
    <3>2. NewsOf(msg[y], a) => msg[y].n \in Nat /\ msg[y].n <= version
      BY <3>1, NumberOf
    <3> QED
      BY <1>1, <2>2, <3>2 DEF Truthful
  <2> QED
    BY <2>1, <2>2
<1>3. ASSUME NEW u \in Users, Stays(u)' PROVE Due(u, a, n)'
  <2>1. pc'[w] \in {"state", "leave"} => u # w
    BY <1>3 DEF Stays, Leave
  <2>2. Pending(w, u)'
    BY <1>1, <2>1 DEF Pending, Told
  <2>3. n <= msg'[w].n
    BY <1>1
  <2> QED
    BY <2>2, <2>3 DEF Due
<1> QED
  BY <1>2, <1>3 DEF Known, Informed, Aware

\* A step of a handler either changes what there is to know, or keeps it.
LEMMA KnownEither ==
    ASSUME KnownInv, version \in Nat, version' \in Nat, repeated => repeated',
           \A a \in Shows : (a = "controller" => ~repeated' /\ ~silent') =>
             \/ \A n : n = version' => Known(a, n)'
             \/ /\ version' = version \/ (a = "sharer" /\ version' = version + 1)
                /\ a = "controller" => ~silent
                /\ \A n : Change(a, n) /\ Known(a, n) => Known(a, n)'
    PROVE KnownInv'
<1> SUFFICES ASSUME NEW a \in Shows, a = "controller" => ~repeated' /\ ~silent'
             PROVE \E n : Change(a, n)' /\ Known(a, n)'
  BY DEF KnownInv
<1>1. CASE \A n : n = version' => Known(a, n)'
  <2>1. PICK n \in Nat : n = version'
    OBVIOUS
  <2> QED
    BY <1>1, <2>1 DEF Change
<1>2. CASE /\ version' = version \/ (a = "sharer" /\ version' = version + 1)
           /\ a = "controller" => ~silent
           /\ \A n : Change(a, n) /\ Known(a, n) => Known(a, n)'
  <2>1. PICK n : Change(a, n) /\ Known(a, n)
    BY <1>2 DEF KnownInv
  <2>2. Change(a, n)'
    BY <1>2, <2>1 DEF Change
  <2> QED
    BY <1>2, <2>1, <2>2
<1> QED
  BY <1>1, <1>2

LEMMA KnownStart ==
    ASSUME Types, ShareInv, KnownInv, NEW w \in Users, HandleScreenStart(w) PROVE KnownInv'
<1>1. /\ Handler(w) /\ Handles(w, "SCREEN_START") /\ UNCHANGED <<members, controller, inbox, newest, overtaken>>
      /\ version \in Nat /\ DOMAIN msg = Users
  BY DEF Handler, HandleScreenStart, Types, ServerTypes
<1>2. CASE /\ w \in members /\ sharer' = w /\ repeated' = (repeated \/ controller # NoUser)
           /\ Announce(w, "clients", "SCREEN_START", w, NoUser)
  <2>1. /\ HandlersAlone(w) /\ version' = version + 1
        /\ msg'[w] = [op |-> "SCREEN_START", sharer |-> w, user |-> NoUser, n |-> version + 1]
    BY <1>1, <1>2, HandlerAlone DEF ShareInv, Announce
  <2>2. (repeated => repeated') /\ (controller # NoUser => repeated')
    BY <1>2, Zenon DEF ShareInv, WindowTypes
  <2>3. ASSUME NEW a \in Shows, a = "controller" => ~repeated' PROVE NewsOf(msg'[w], a) /\ Says(msg'[w], a) = Truth(a)'
    <3>1. a = "controller" => controller' = NoUser
      BY <1>1, <2>2, <2>3
    <3>2. msg'[w].op = "SCREEN_START" /\ msg'[w].sharer = w /\ sharer' = w
      BY <1>2, <2>1
    <3> QED
      BY <3>1, <3>2 DEF NewsOf, Says, Truth, Shows
  <2>4. ASSUME NEW a \in Shows, a = "controller" => ~repeated', NEW n, n = version + 1 PROVE Known(a, n)'
    BY <1>2, <2>1, <2>3, <2>4, KnownAnnounce DEF Told
  <2> QED
    BY <1>1, <2>1, <2>2, <2>4, KnownEither
<1>3. CASE ~(w \in members /\ sharer \in {NoUser, w}) /\ Ignored(w) /\ UNCHANGED <<sharer, repeated>>
  <2>1. msg'[w].op = "none" /\ version' = version /\ silent' = silent /\ Through(w, "SCREEN_START")
    BY <1>1, <1>3, Took DEF Ignored, handler, NoPacket, Through, Handles
  <2>2. ASSUME NEW a \in Shows, NEW n, Known(a, n) PROVE Known(a, n)'
    <3>1. Truth(a)' = Truth(a) /\ ~NewsOf(msg'[w], a) /\ (Stays(w)' => w \in members)
      BY <1>1, <1>3, <2>1 DEF Truth, NewsOf, Stays
    <3> QED
      BY <1>1, <1>3, <2>1, <2>2, <3>1, KnownTakes
  <2> QED
    BY <1>1, <1>3, <2>1, <2>2, KnownEither
<1> QED
  BY <1>2, <1>3 DEF HandleScreenStart

\* The share is given up, and everyone is to be told.
LEMMA KnownStop ==
    ASSUME Types, ShareInv, KnownInv, NEW w \in Users, HandlersAlone(w), StopShare, repeated' = repeated,
           NEW step \in {"clients", "leave"}, Announce(w, step, "SCREEN_STOP", w, NoUser)
    PROVE KnownInv'
<1>1. /\ version \in Nat /\ version' = version + 1
      /\ msg'[w].op = "SCREEN_STOP"
  BY DEF Announce, Types, ServerTypes
<1>2. ASSUME NEW a \in Shows PROVE NewsOf(msg'[w], a) /\ Says(msg'[w], a) = Truth(a)'
  BY <1>1 DEF NewsOf, Says, Truth, StopShare
<1>3. ASSUME NEW a \in Shows, NEW n, n = version + 1 PROVE Known(a, n)'
  BY <1>2, <1>3, KnownAnnounce DEF Told
<1> QED
  BY <1>1, <1>3, KnownEither

\* The control changes hands: everyone is to be told, and the sharer stays.
LEMMA KnownControl ==
    ASSUME Types, ShareInv, KnownInv, NEW w \in Users, Handler(w), repeated' = repeated,
           UNCHANGED <<sharer, members, inbox, newest, overtaken>>,
           NEW op \in {"REMOTE_GRANT", "LEAVE_ROOM"}, Through(w, op),
           NEW step \in Told, op = "LEAVE_ROOM" => step = "state",
           NEW s, NEW v, Announce(w, step, "REMOTE_GRANT", s, v), controller' = v
    PROVE KnownInv'
<1>1. /\ version \in Nat /\ version' = version + 1 /\ HandlersAlone(w) /\ pc'[w] = step
      /\ msg'[w] = [op |-> "REMOTE_GRANT", sharer |-> s, user |-> v, n |-> version + 1]
  BY HandlerAlone DEF Announce, GoTo, Types, ServerTypes, ShareInv
<1>2. NewsOf(msg'[w], "controller") /\ Says(msg'[w], "controller") = Truth("controller")'
  BY <1>1 DEF NewsOf, Says, Truth
<1>3. ASSUME NEW n, n = version' PROVE Known("controller", n)'
  BY <1>1, <1>2, <1>3, KnownAnnounce DEF Shows
<1>4. ASSUME NEW n, Known("sharer", n) PROVE Known("sharer", n)'
  <2>1. ~NewsOf(msg'[w], "sharer") /\ Truth("sharer")' = Truth("sharer")
    BY <1>1 DEF NewsOf, Truth
  <2>2. Stays(w)' => w \in members /\ op # "LEAVE_ROOM"
    BY <1>1 DEF Stays, Leave
  <2>3. op # "SCREEN_START" /\ op # "SCREEN_STOP"
    OBVIOUS
  <2> QED
    BY <1>4, <2>1, <2>2, <2>3, KnownTakes DEF Shows
<1> QED
  BY <1>1, <1>3, <1>4, KnownEither DEF Shows

LEMMA KnownEnds ==
    ASSUME Types, ShareInv, KnownInv, NEW w \in Users, HandleScreenStop(w) \/ HandleLeaveRoom(w) PROVE KnownInv'
<1>1. /\ Handler(w) /\ HandlersAlone(w) /\ UNCHANGED <<inbox, newest, overtaken>> /\ repeated' = repeated
      /\ version \in Nat
  <2>1. Handler(w) /\ UNCHANGED <<inbox, newest, overtaken>> /\ repeated' = repeated
    BY DEF Handler, HandleScreenStop, HandleLeaveRoom, knowledge
  <2> QED
    BY <2>1, HandlerAlone DEF ShareInv, Types, ServerTypes
<1>2. CASE StopShare /\ \E step \in {"clients", "leave"} : Announce(w, step, "SCREEN_STOP", w, NoUser)
  BY <1>1, <1>2, KnownStop
<1>3. CASE HandleScreenStop(w) /\ ~(w \in members /\ sharer = w)
  <2>1. /\ Through(w, "SCREEN_STOP") /\ msg'[w].op = "none" /\ UNCHANGED <<members, sharer, controller, version, silent>>
    BY <1>3, Took DEF HandleScreenStop, Ignored, handler, NoPacket, Through, Handles
  <2>2. ASSUME NEW a \in Shows, NEW n, Known(a, n) PROVE Known(a, n)'
    <3>1. Truth(a)' = Truth(a) /\ ~NewsOf(msg'[w], a) /\ (Stays(w)' => w \in members)
      BY <2>1 DEF Truth, NewsOf, Stays
    <3> QED
      BY <1>1, <1>3, <2>1, <2>2, <3>1, KnownTakes
  <2> QED
    BY <1>1, <2>1, <2>2, KnownEither
<1>4. CASE HandleLeaveRoom(w) /\ sharer # w /\ controller = w
  <2>1. /\ Through(w, "LEAVE_ROOM") /\ UNCHANGED <<members, sharer>> /\ controller' = NoUser
        /\ Announce(w, "state", "REMOTE_GRANT", sharer, NoUser)
    BY <1>4 DEF HandleLeaveRoom, Through, Handles
  <2> QED
    BY <1>1, <2>1, KnownControl DEF Told
<1>5. CASE HandleLeaveRoom(w) /\ w \notin {sharer, controller}
  <2>1. /\ Through(w, "LEAVE_ROOM") /\ pc'[w] = "gone" /\ UNCHANGED <<members, sharer, controller, version, silent>>
        /\ msg'[w].op = "none"
    BY <1>5, Took DEF HandleLeaveRoom, GoTo, NoPacket, Through, Handles, Types, ServerTypes
  <2>2. ASSUME NEW a \in Shows, NEW n, Known(a, n) PROVE Known(a, n)'
    <3>1. Truth(a)' = Truth(a) /\ ~NewsOf(msg'[w], a) /\ ~Stays(w)'
      BY <2>1 DEF Truth, NewsOf, Stays, Leave
    <3> QED
      BY <1>1, <2>1, <2>2, <3>1, KnownTakes
  <2> QED
    BY <1>1, <2>1, <2>2, KnownEither
<1>6. HandleLeaveRoom(w) /\ sharer = w => StopShare /\ Announce(w, "leave", "SCREEN_STOP", w, NoUser)
  BY DEF HandleLeaveRoom
<1>7. HandleScreenStop(w) /\ w \in members /\ sharer = w => StopShare /\ Announce(w, "clients", "SCREEN_STOP", w, NoUser)
  BY DEF HandleScreenStop
<1> QED
  BY <1>2, <1>3, <1>4, <1>5, <1>6, <1>7

LEMMA KnownGrant ==
    ASSUME Types, ShareInv, KnownInv, NEW w \in Users, Granting(w) PROVE KnownInv'
<1>1. /\ Handler(w) /\ UNCHANGED <<sharer, members, inbox, newest, overtaken>> /\ repeated' = repeated
      /\ version \in Nat
  BY DEF Granting, Handler, HandleRemoteGrant, FindTarget, SetController, relay, order, knowledge, Types, ServerTypes
<1>2. ASSUME NEW v, NEW step \in Told, Announce(w, step, "REMOTE_GRANT", w, v), controller' = v, Through(w, "REMOTE_GRANT")
      PROVE KnownInv'
  BY <1>1, <1>2, KnownControl
<1>3. CASE HandleRemoteGrant(w) /\ Ignored(w) /\ controller' = controller
  <2>1. msg'[w].op = "none" /\ version' = version /\ silent' = silent /\ Through(w, "REMOTE_GRANT")
    BY <1>3, Took DEF Ignored, handler, NoPacket, Through, Handles, HandleRemoteGrant
  <2>2. ASSUME NEW a \in Shows, NEW n, Known(a, n) PROVE Known(a, n)'
    <3>1. Truth(a)' = Truth(a) /\ ~NewsOf(msg'[w], a) /\ (Stays(w)' => w \in members)
      BY <1>1, <1>3, <2>1 DEF Truth, NewsOf, Stays
    <3> QED
      BY <1>1, <2>1, <2>2, <3>1, KnownTakes
  <2> QED
    BY <1>1, <2>1, <2>2, KnownEither
<1>4. CASE FindTarget(w)
  <2>1. /\ pc[w] = "read" /\ pc'[w] = "grant" /\ msg[w] = NoPacket /\ todo[w] = {}
        /\ UNCHANGED <<controller, out, msg, todo, version, silent>>
    BY <1>4 DEF FindTarget, Has, GoTo, relay, order, ShareInv, HandlerOK, Idle, Types, ServerTypes
  <2>2. HandlersAlone(w)
    BY <1>1, HandlerAlone DEF ShareInv
  <2>3. ASSUME NEW a \in Shows, NEW n, Known(a, n) PROVE Known(a, n)'
    <3>1. Truth(a)' = Truth(a) /\ ~NewsOf(msg'[w], a) /\ ~NewsOf(msg[w], a)
      BY <1>1, <2>1 DEF Truth, NewsOf, NoPacket
    <3>2. \A u \in Users : Stays(u)' => Stays(u)
      BY <1>1, <2>1, <2>2 DEF Stays, Leave, HandlersAlone
    <3>3. Local(w) => Local(w)'
      BY <1>1, <2>1 DEF Local
    <3> QED
      BY <1>1, <2>1, <2>3, <3>1, <3>2, <3>3, KnownKept
  <2> QED
    BY <1>1, <2>1, <2>3, KnownEither
<1>5. CASE HandleRemoteGrant(w) /\ Announce(w, "clients", "REMOTE_GRANT", w, NoUser) /\ controller' = NoUser
  BY <1>2, <1>5 DEF HandleRemoteGrant, Handles, Through, Told
<1>6. CASE SetController(w)
  <2>1. PICK step \in {"name", "clients"} : Announce(w, step, "REMOTE_GRANT", w, out[w][1].user)
    BY <1>6 DEF SetController
  <2> QED
    BY <1>2, <1>6, <2>1 DEF SetController, Through, Told
<1> QED
  BY <1>3, <1>4, <1>5, <1>6 DEF Granting, HandleRemoteGrant

\* A grant that is not sent, to whoever left, or of a share that is over, is
\* no news, or nobody is to be told.
LEMMA KnownLooks ==
    ASSUME Types, ShareInv, KnownInv, NEW w \in Users, LooksUp(w) PROVE KnownInv'
<1>1. /\ Handler(w) /\ UNCHANGED <<sharer, controller, version, inbox, newest, overtaken, out, todo>> /\ repeated' = repeated
      /\ version \in Nat /\ pc[w] \in {"name", "state", "gone"} /\ \A u \in Users : u # w => (u \in members' <=> u \in members)
  BY DEF LooksUp, Handler, ReadName, GetState, GiveUpSeat, GoTo, knowledge, order, relay, Types, ServerTypes
<1>2. HandlersAlone(w) /\ DOMAIN pc = Users /\ DOMAIN msg = Users /\ todo[w] = {}
  BY <1>1, HandlerAlone DEF ShareInv, HandlerOK, Told, Idle, Types, ServerTypes
<1>3. \/ msg' = msg /\ \A u \in Users : Stays(u)' /\ NewsOf(msg[w], "controller") /\ Pending(w, u) => Pending(w, u)'
      \/ pc[w] = "name" /\ pc'[w] = "read" /\ msg'[w] = NoPacket /\ silent' = (silent \/ msg[w].n = version)
      \/ pc[w] = "state" /\ pc'[w] = "gone" /\ msg'[w] = NoPacket /\ sharer = NoUser /\ silent' = silent
  <2>1. CASE ReadName(w)
    BY <1>2, <2>1 DEF ReadName, GoTo, Pending
  <2>2. CASE GetState(w)
    BY <1>2, <2>2 DEF GetState, GoTo, Pending, order
  <2>3. CASE GiveUpSeat(w)
    <3>1. msg' = msg /\ pc[w] = "gone" /\ todo[w] = {}
      BY <1>2, <2>3 DEF GiveUpSeat
    <3> QED
      BY <3>1 DEF Pending
  <2> QED
    BY <2>1, <2>2, <2>3 DEF LooksUp
<1>4. ASSUME NEW a \in Shows, a = "controller" => ~silent', NEW n, Change(a, n), Known(a, n) PROVE Known(a, n)'
  <2>1. Truth(a)' = Truth(a)
    BY <1>1 DEF Truth
  <2>2. \A u \in Users : Stays(u)' => Stays(u)
    <3>1. \A u \in Users : u # w => (Stays(u)' <=> Stays(u))
      BY <1>1, <1>2 DEF Stays, HandlersAlone
    <3>2. Stays(w)' => Stays(w)
      BY <1>2 DEF LooksUp, ReadName, GetState, GiveUpSeat, GoTo, relay, order, Stays, Leave
    <3> QED
      BY <3>1, <3>2
  <2>3. NewsOf(msg[w], a) => a = "controller" /\ msg[w].op = "REMOTE_GRANT" /\ ~NewsOf(msg[w], "sharer")
    <3>1. msg[w].op \in {"none", "REMOTE_GRANT"}
      BY <1>1 DEF ShareInv, HandlerOK, Idle, NoPacket
    <3> QED
      BY <3>1 DEF NewsOf, Shows
  <2>4. NewsOf(msg[w], a) => msg[w].n \in Nat /\ msg[w].n <= version /\ n = version
    BY <1>4, <2>3, NumberOf DEF Change, Numbered, Announcements
  <2>5. \A u \in Users : Stays(u)' /\ NewsOf(msg[w], a) /\ Pending(w, u) =>
           \/ Pending(w, u)' /\ msg'[w] = msg[w]
           \/ ~NewsOf(msg[w], "sharer") /\ ~(n <= msg[w].n)
    <3>1. CASE msg' = msg /\ \A u \in Users : Stays(u)' /\ NewsOf(msg[w], "controller") /\ Pending(w, u) => Pending(w, u)'
      BY <2>3, <3>1
    <3>2. CASE pc[w] = "name" /\ silent' = (silent \/ msg[w].n = version)
      <4>1. NewsOf(msg[w], a) => msg[w].n # version
        BY <1>4, <2>3, <3>2
      <4> QED
        BY <1>1, <2>3, <2>4, <4>1
    <3>3. CASE sharer = NoUser
      <4>1. NewsOf(msg[w], a) => msg[w].n < version
        BY <2>3, <3>3 DEF ShareInv, InOrder
      <4> QED
        BY <1>1, <2>3, <2>4, <4>1
    <3> QED
      BY <1>3, <3>1, <3>2, <3>3
  <2>6. ~NewsOf(msg'[w], a) \/ (msg'[w] = msg[w] /\ pc[w] \notin {"read", "describe"})
    BY <1>1, <1>3 DEF NewsOf, NoPacket
  <2>7. Local(w) => Local(w)'
    BY <1>1 DEF Local
  <2>8. pc[w] # "describe"
    BY <1>1
  <2> QED
    BY <1>1, <1>4, <2>1, <2>2, <2>5, <2>6, <2>7, <2>8, KnownKept
<1>5. ~silent' => ~silent
  BY <1>3 DEF LooksUp, ReadName, GetState, GiveUpSeat, order
<1> QED
  BY <1>1, <1>4, <1>5, KnownEither

LEMMA KnownForward ==
    ASSUME Types, ShareInv, KnownInv, NEW w \in Users, HandleRemoteRequest(w) \/ HandleRemoteEvent(w) PROVE KnownInv'
<1>1. PICK op \in {"REMOTE_REQUEST", "REMOTE_EVENT"} : Handles(w, op) /\ Through(w, op)
  BY DEF HandleRemoteRequest, HandleRemoteEvent, Handles, Through
<1>2. /\ Handler(w) /\ UNCHANGED <<sharer, controller, members, version, silent, inbox, newest, overtaken>> /\ repeated' = repeated
      /\ version \in Nat /\ DOMAIN msg = Users
      /\ UNCHANGED msg \/ msg'[w].op \in {"REMOTE_REQUEST", "REMOTE_EVENT"}
  BY DEF Handler, HandleRemoteRequest, HandleRemoteEvent, knowledge, relay, handler, Forward, Ignored, Types, ServerTypes
<1>3. msg'[w].op \in {"none", "REMOTE_REQUEST", "REMOTE_EVENT"}
  BY <1>1, <1>2, Took DEF NoPacket
<1>4. ASSUME NEW a \in Shows, NEW n, Known(a, n) PROVE Known(a, n)'
  <2>1. Truth(a)' = Truth(a) /\ ~NewsOf(msg'[w], a) /\ (Stays(w)' => w \in members)
    BY <1>2, <1>3 DEF Truth, NewsOf, Stays
  <2>2. op # "SCREEN_START" /\ op # "SCREEN_STOP" /\ op # "LEAVE_ROOM"
    BY <1>1
  <2> QED
    BY <1>1, <1>2, <1>4, <2>1, <2>2, KnownTakes
<1> QED
  BY <1>2, <1>4, KnownEither

\* Whoever joins is going to be told of the share as it is then.
LEMMA KnownJoin ==
    ASSUME Types, ShareInv, KnownInv, NEW w \in Users, HandleJoinRoom(w) PROVE KnownInv'
<1>1. /\ Handler(w) /\ UNCHANGED <<sharer, controller, version, silent, inbox, newest, overtaken>> /\ repeated' = repeated
      /\ version \in Nat /\ Through(w, "JOIN_ROOM") /\ pc'[w] = "describe" /\ members' = members \cup {w}
  BY DEF Handler, HandleJoinRoom, knowledge, order, GoTo, Types, ServerTypes, Handles, Through
<1>2. ASSUME NEW a \in Shows, NEW n, Known(a, n) PROVE Known(a, n)'
  <2>1. Truth(a)' = Truth(a) /\ Due(w, a, n)'
    BY <1>1 DEF Truth, Due
  <2>2. \A u \in Users \ {w} : u \in members' <=> u \in members
    BY <1>1
  <2> QED
    BY <1>1, <1>2, <2>1, <2>2, KnownTakes
<1> QED
  BY <1>1, <1>2, KnownEither

LEMMA KnownDescribe ==
    ASSUME Types, ShareInv, KnownInv, NEW w \in Users, Describe(w) PROVE KnownInv'
<1>1. /\ Handler(w) /\ UNCHANGED <<sharer, controller, members, version, silent, inbox, newest, overtaken, out>> /\ repeated' = repeated
      /\ version \in Nat /\ pc[w] = "describe" /\ todo'[w] = {w} /\ pc'[w] = "send"
      /\ msg'[w] = [op |-> "ROOM_STATE", sharer |-> sharer, user |-> controller, n |-> version]
  BY DEF Handler, Describe, knowledge, order, relay, Types, ServerTypes
<1>2. HandlersAlone(w) /\ todo[w] = {}
  BY <1>1, HandlerAlone DEF ShareInv, HandlerOK
<1>3. ASSUME NEW a \in Shows, NEW n, Change(a, n), Known(a, n) PROVE Known(a, n)'
  <2>1. Truth(a)' = Truth(a) /\ NewsOf(msg'[w], a) /\ Says(msg'[w], a) = Truth(a)
    BY <1>1 DEF Truth, NewsOf, Says, Shows
  <2>2. Due(w, a, n)'
    <3>1. Pending(w, w)' /\ n <= msg'[w].n
      BY <1>1, <1>3 DEF Pending, Change
    <3> QED
      BY <2>1, <3>1 DEF Due
  <2>3. \A u \in Users : Stays(u)' => Stays(u) \/ Due(u, a, n)'
    BY <1>1, <1>2, <2>2 DEF Stays, HandlersAlone
  <2>4. \A u \in Users : ~Pending(w, u)
    BY <1>1, <1>2 DEF Pending
  <2> QED
    BY <1>1, <1>3, <2>1, <2>2, <2>3, <2>4, KnownKept
<1> QED
  BY <1>1, <1>3, KnownEither

LEMMA KnownClients ==
    ASSUME Types, ShareInv, KnownInv, NEW w \in Users, GetRoomClients(w) PROVE KnownInv'
<1> DEFINE others == IF pc[w] = "leave" THEN members \ {w} ELSE members
<1>1. /\ Handler(w) /\ UNCHANGED <<sharer, controller, members, version, silent, inbox, newest, overtaken, out>> /\ repeated' = repeated
      /\ version \in Nat /\ pc[w] \in {"clients", "leave"}
      /\ pc[w] = "leave" <=> pc'[w] \in Leave
      /\ \/ todo'[w] = others /\ msg' = msg
         \/ others = {} /\ msg'[w] = NoPacket
  BY DEF Handler, GetRoomClients, After, Leave, knowledge, order, relay, Types, ServerTypes
<1>2. HandlersAlone(w)
  BY <1>1, HandlerAlone DEF ShareInv
<1>3. ASSUME NEW a \in Shows, NEW n, Known(a, n) PROVE Known(a, n)'
  <2>1. Truth(a)' = Truth(a)
    BY <1>1 DEF Truth
  <2>2. \A u \in Users : Stays(u)' => Stays(u)
    BY <1>1, <1>2 DEF Stays, HandlersAlone, Leave
  <2>3. \A u \in Users : Stays(u)' => Pending(w, u)' /\ msg'[w] = msg[w]
    <3>1. ASSUME NEW u \in Users, Stays(u)' PROVE u \in others
      BY <1>1, <3>1 DEF Stays
    <3> QED
      BY <1>1, <3>1 DEF Pending
  <2>4. ~NewsOf(msg'[w], a) \/ (msg'[w] = msg[w] /\ pc[w] \notin {"read", "describe"})
    BY <1>1 DEF NewsOf, NoPacket
  <2>5. Local(w) => Local(w)'
    BY <1>1 DEF Local
  <2>6. pc[w] # "describe"
    BY <1>1
  <2> QED
    BY <1>1, <1>3, <2>1, <2>2, <2>3, <2>4, <2>5, <2>6, KnownKept
<1> QED
  BY <1>1, <1>3, KnownEither

\* What is sent to u: no news; the truth; or old news, while newer are on
\* their way.
LEMMA InformedSend ==
    ASSUME Types, Types', ShareInv, NEW u \in Users, NEW w \in Users, Send(w, u),
           NEW a \in Shows, NEW n, Change(a, n), Informed(u, a, n), Truthful(w, a, n)
    PROVE Informed(u, a, n)'
<1> SUFFICES ASSUME Stays(u)' PROVE Informed(u, a, n)'
  BY DEF Informed
<1> DEFINE s == inbox[u]
           p == msg[w]
           t == inbox'[u]
<1>1. /\ view' = view /\ p \in Packet /\ s \in Seq(Packet) /\ t = Append(s, p) /\ pc[w] \in {"send", "bye"}
      /\ \A y \in Users : y # w => pc'[y] = pc[y] /\ msg'[y] = msg[y] /\ todo'[y] = todo[y]
      /\ ~Pending(w, u)' /\ newest[u] \in Nat /\ newest'[u] \in Nat /\ p.n \in Nat /\ pc'[w] \in {pc[w], "read", "gone"}
  BY Sent
<1>2. /\ u \notin overtaken' /\ Stays(u) /\ newest[u] <= newest'[u]
      /\ p.op \in Numbered => newest'[u] = p.n /\ newest[u] <= p.n
  <2>1. pc[w] \in Leave => pc'[w] \in Leave
    BY <1>1 DEF Send, After, Leave, Types, ServerTypes
  <2>2. Stays(u)
    BY <1>1, <2>1, Sent DEF Stays
  <2>3. u \notin overtaken'
    BY DEF Stays
  <2> QED
    BY <2>2, <2>3, Sent
<1>3. /\ UNCHANGED <<sharer, controller, out, here, blind, released>> /\ n \in Nat
  BY DEF Send, relay, knowledge, window, Change
<1>4. /\ Truth(a)' = Truth(a) /\ Viewed(u, a)' = Viewed(u, a)
      /\ Local(u)' <=> Local(u)
  BY <1>1, <1>3 DEF Truth, Viewed, Local
<1>5. Len(s) \in Nat /\ Last(u) = Len(s) + 1 /\ Last(u)' = Len(s) + 2
  BY <1>1 DEF Last
<1>6. /\ NewsOf(p, a) /\ Says(p, a) = Truth(a) => Shown(Viewed(u, a), t, Last(u)', a, {Truth(a)})
      /\ ~NewsOf(p, a) /\ Shown(Viewed(u, a), s, Last(u), a, {Truth(a)}) => Shown(Viewed(u, a), t, Last(u)', a, {Truth(a)})
      /\ Heard(t, a) <=> Heard(s, a) \/ NewsOf(p, a)
  <2> DEFINE v == Viewed(u, a)
             S == {Truth(a)}
  <2>1. Says(p, a) = Truth(a) => Says(p, a) \in S
    OBVIOUS
  <2> HIDE DEF s, p, t, v, S
  <2>2. /\ NewsOf(p, a) /\ Says(p, a) \in S => Shown(v, Append(s, p), Len(s) + 2, a, S)
        /\ ~NewsOf(p, a) /\ Shown(v, s, Len(s) + 1, a, S) => Shown(v, Append(s, p), Len(s) + 2, a, S)
        /\ Heard(Append(s, p), a) <=> Heard(s, a) \/ NewsOf(p, a)
    BY <1>1, ShownAppend
  <2> QED
    BY <1>1, <1>5, <2>1, <2>2 DEF v, S
<1>7. ASSUME NEW y \in Users, Pending(y, u), y # w PROVE Pending(y, u)' /\ msg'[y] = msg[y]
  BY <1>1, <1>7 DEF Pending
<1>8. CASE NewsOf(p, a) /\ n <= p.n
  <2>1. p.op \in Numbered
    BY <1>8 DEF NewsOf, Numbered, Announcements
  <2>2. ~(newest'[u] < n)
    BY <1>1, <1>2, <1>3, <1>8, <2>1
  <2>3. Says(p, a) = Truth(a)
    BY <1>1, <1>8 DEF Truthful
  <2>4. Shown(Viewed(u, a), inbox[u], Last(u), a, {Truth(a)})'
    BY <1>1, <1>4, <1>6, <1>8, <2>3
  <2> QED
    BY <2>2, <2>4 DEF Informed, Aware
<1>9. CASE NewsOf(p, a) /\ ~(n <= p.n)
  <2>1. p.op \in Numbered
    BY <1>9 DEF NewsOf, Numbered, Announcements
  <2>2. newest[u] < n
    BY <1>1, <1>2, <1>3, <1>9, <2>1
  <2>3. Due(u, a, n)
    BY <1>2, <2>2 DEF Informed
  <2>4. Due(u, a, n)'
    <3>1. CASE pc[u] = "describe"
      BY <1>1, <3>1 DEF Due
    <3>2. ASSUME NEW y \in Users, Pending(y, u), NewsOf(msg[y], a), n <= msg[y].n PROVE Due(u, a, n)'
      <4>1. y # w
        BY <1>9, <3>2
      <4> QED
        BY <1>7, <3>2, <4>1 DEF Due
    <3> QED
      BY <2>3, <3>1, <3>2 DEF Due
  <2> QED
    BY <2>4 DEF Informed, Aware
<1>10. CASE ~NewsOf(p, a)
  <2>1. Due(u, a, n) => Due(u, a, n)'
    <3>1. CASE pc[u] = "describe"
      BY <1>1, <3>1 DEF Due
    <3>2. ASSUME NEW y \in Users, Pending(y, u), NewsOf(msg[y], a), n <= msg[y].n PROVE Due(u, a, n)'
      <4>1. y # w
        BY <1>10, <3>2
      <4> QED
        BY <1>7, <3>2, <4>1 DEF Due
    <3> QED
      BY <3>1, <3>2 DEF Due
  <2>2. Doomed(u) => Doomed(u)'
    <3>1. ASSUME NEW y \in Users, Pending(y, u), NewsOf(msg[y], "sharer"), msg[y].n < newest[u] PROVE Doomed(u)'
      <4>1. y # w
        BY <1>10, <3>1 DEF NewsOf, Shows
      <4>2. msg[y].n \in Nat
        BY <3>1, NumberOf DEF NewsOf, Numbered, Announcements
      <4>3. msg[y].n < newest'[u]
        BY <1>1, <1>2, <3>1, <4>2
      <4> QED
        BY <1>7, <3>1, <4>1, <4>3 DEF Doomed
    <3> QED
      BY <3>1 DEF Doomed
  <2>3. newest'[u] < n => Due(u, a, n)'
    <3>1. newest'[u] < n => newest[u] < n
      BY <1>1, <1>2, <1>3
    <3> QED
      BY <1>2, <2>1, <3>1 DEF Informed
  <2>4. Reported(u, a)' <=> Reported(u, a)
    BY <1>3, <1>6, <1>10 DEF Reported
  <2>5. Aware(u, a, n) => Aware(u, a, n)'
    BY <1>4, <1>6, <1>10, <2>1, <2>2 DEF Aware
  <2> QED
    BY <1>2, <2>3, <2>4, <2>5 DEF Informed
<1> QED
  BY <1>8, <1>9, <1>10

LEMMA KnownSend ==
    ASSUME Types, Types', ShareInv, KnownInv, NEW w \in Users, NEW v \in Users, Send(w, v) PROVE KnownInv'
<1>1. /\ UNCHANGED <<sharer, controller, members, version, silent, out, view, here, blind, released>> /\ repeated' = repeated
      /\ version \in Nat /\ (pc[w] \in Leave => pc'[w] \in Leave)
  BY DEF Send, After, Leave, relay, window, knowledge, Types, ServerTypes
<1>2. /\ pc[w] \in {"send", "bye"} /\ pc'[w] \in {pc[w], "read", "gone"}
      /\ \A u \in Users : u # v => inbox'[u] = inbox[u] /\ newest'[u] = newest[u]
      /\ \A y \in Users : y # w => pc'[y] = pc[y] /\ msg'[y] = msg[y] /\ todo'[y] = todo[y]
      /\ msg'[w] = msg[w] \/ (msg'[w] = NoPacket /\ \A u \in Users : ~Pending(w, u)')
      /\ overtaken \subseteq overtaken'
  BY Sent
<1>3. \A u \in Users : u # v => (Pending(w, u)' <=> Pending(w, u))
  BY Sent
<1>4. ASSUME NEW a \in Shows, NEW n, Change(a, n), Known(a, n) PROVE Known(a, n)'
  <2>1. Truth(a)' = Truth(a)
    BY <1>1 DEF Truth
  <2>2. ASSUME NEW y \in Users PROVE Truthful(y, a, n)'
    <3>1. Truthful(y, a, n)
      BY <1>4 DEF Known
    <3>2. \/ msg'[y] = msg[y] /\ (pc'[y] \notin {"read", "describe"} => pc[y] \notin {"read", "describe"})
          \/ msg'[y] = NoPacket
      BY <1>2
    <3>3. ~NewsOf(NoPacket, a)
      BY DEF NewsOf, NoPacket
    <3> QED
      BY <2>1, <3>1, <3>2, <3>3 DEF Truthful
  <2>3. ASSUME NEW u \in Users, u # v PROVE Informed(u, a, n)'
    <3>1. SUFFICES ASSUME Stays(u)' PROVE Informed(u, a, n)'
      BY DEF Informed
    <3>2. Stays(u)
      BY <1>1, <1>2, <3>1 DEF Stays
    <3>3. \A y \in Users : (Pending(y, u)' <=> Pending(y, u)) /\ (Pending(y, u) => msg'[y] = msg[y])
      BY <1>2, <1>3, <2>3 DEF Pending
    <3>4. (Due(u, a, n) => Due(u, a, n)') /\ (Doomed(u) => Doomed(u)')
      <4>1. pc[u] = "describe" => pc'[u] = "describe"
        BY <1>2
      <4> QED
        BY <1>2, <2>3, <3>3, <4>1 DEF Due, Doomed
    <3>5. /\ Local(u)' <=> Local(u)
          /\ Reported(u, a)' <=> Reported(u, a)
          /\ Viewed(u, a)' = Viewed(u, a) /\ Last(u)' = Last(u)
      BY <1>1, <1>2, <2>3 DEF Local, Reported, Viewed, Last
    <3>6. Informed(u, a, n)
      BY <1>4 DEF Known
    <3>7. newest'[u] < n => Due(u, a, n)'
      BY <1>2, <2>3, <3>2, <3>4, <3>6 DEF Informed
    <3>8. Reported(u, a)' => Aware(u, a, n)'
      BY <1>2, <2>1, <2>3, <3>2, <3>4, <3>5, <3>6 DEF Informed, Aware
    <3> QED
      BY <3>7, <3>8 DEF Informed
  <2>4. Informed(v, a, n)'
    BY <1>4, InformedSend DEF Known
  <2> QED
    BY <2>2, <2>3, <2>4 DEF Known
<1> QED
  BY <1>1, <1>4, KnownEither

LEMMA KnownStep == ASSUME Types, Types', ShareInv, KnownInv, [Next]_vars PROVE KnownInv'
<1>1. ASSUME NEW w \in Users, ClientDoes(w) PROVE KnownInv'
  <2>1. repeated' = repeated
    BY <1>1 DEF ClientDoes, Clicks, Window, StartScreenShare, OnStopClicked, OnRequestClicked, OnRevokeClicked,
       SelectOther, LeaveRoom, SetCurrentRoom, SelectRoom, JoinRoom, AnswerRequest, EventFilter, EngineFails,
       OnEngineStopped, OnScreenStart, OnScreenStop, OnRemoteRequest, OnRemoteGrant, OnRemoteEvent,
       HandleRoomState, knowledge
  <2> QED
    BY <1>1, <2>1, KnownClient
<1>2. ASSUME NEW w \in Users, Handler(w) PROVE KnownInv'
  BY <1>2, KnownStart, KnownEnds, KnownGrant, KnownLooks, KnownForward, KnownJoin, KnownDescribe, KnownClients, KnownSend
  DEF Handler, Granting, LooksUp
<1>3. CASE UNCHANGED vars
  <2>1. UNCHANGED serverSide /\ UNCHANGED <<view, out, inbox, here, blind, released, repeated, silent>>
    BY <1>3 DEF vars, relay, handler, window, order, knowledge, serverSide
  <2>2. ASSUME NEW a \in Shows, NEW n, Known(a, n) PROVE Known(a, n)'
    <3>1. \A u \in Users : Informed(u, a, n)'
      BY <2>1, <2>2, InformedAside DEF Known
    <3>2. \A u \in Users : Truthful(u, a, n)'
      BY <2>1, <2>2 DEF Known, Truthful, Truth, serverSide
    <3> QED
      BY <3>1, <3>2 DEF Known
  <2>3. \A a, n : Change(a, n)' <=> Change(a, n)
    BY <2>1 DEF Change, serverSide
  <2> QED
    BY <2>1, <2>2, <2>3 DEF KnownInv
<1> QED
  BY <1>1, <1>2, <1>3 DEF Next, ClientDoes

\* A window that has heard all there is to hear shows who shares and who has
\* the control, for any number of users, clicks and failures.
THEOREM ViewsAlwaysAgree == Spec => []ViewsAgree
<1>1. ConsentInv => Types
  BY DEF ConsentInv, ControlAllowed, Types
<1>2. Types /\ Types' /\ ShareInv /\ KnownInv /\ [Next]_vars => ShareInv' /\ KnownInv'
  BY ShareStep, KnownStep
<1>3. Init => ShareInv /\ KnownInv
  BY ShareInit, KnownInit
<1>4. Types /\ ShareInv /\ KnownInv => ViewsAgree
  BY ViewsRest
<1> QED
  BY <1>1, <1>2, <1>3, <1>4, ConsentKept, PTL DEF Spec

-----------------------------------------------------------------------------
(* Types *)

\* A request that v gets comes from somebody else.
PacketFor(v) == {p \in Packet : p.op = "REMOTE_REQUEST" => p.user \in Users \ {v}}

\* Windows that do not show the room show no share, and nobody is asked to
\* answer a request of their own.
WindowOK(u) ==
    /\ u \notin here => view[u] = NoShare /\ u \notin input
    /\ dialog[u] \in Seq(Users \ {u})
    /\ inbox[u] \in Seq(PacketFor(u))

Steps == {"read", "clients", "send", "describe", "grant", "name"} \cup Leave

TypeInv ==
    /\ pc \in [Users -> Steps]
    /\ silent \in BOOLEAN
    /\ {here, engine, executor, input, failing} \subseteq SUBSET Users
    /\ sharer = NoUser => controller = NoUser
    /\ \A u \in Users : WindowOK(u)
    /\ \A u \in Users : \A v \in todo[u] : msg[u] \in PacketFor(v)

LEMMA TypeInit == Init => TypeInv
<1> SUFFICES ASSUME Init PROVE TypeInv
  OBVIOUS
<1>1. pc \in [Users -> Steps] /\ silent \in BOOLEAN
  BY DEF Init, Steps
<1>2. {here, engine, executor, input, failing} \subseteq SUBSET Users
  BY DEF Init
<1>3. \A u \in Users : dialog[u] = <<>> /\ inbox[u] = <<>> /\ todo[u] = {} /\ u \in here
  BY DEF Init
<1> QED
  BY <1>1, <1>2, <1>3 DEF Init, TypeInv, WindowOK

LEMMA TypeRests == Types /\ ShareInv /\ TypeInv => TypeOK
<1> SUFFICES ASSUME Types, ShareInv, TypeInv PROVE TypeOK
  OBVIOUS
<1>1. /\ members \subseteq Users /\ sharer \in Someone /\ controller \in Users \cup {NoUser}
      /\ \A u \in Users : pc[u] \notin Idle => msg[u] \in Packet
  BY DEF Types, ServerTypes, Someone
<1>2. \A u \in Users : todo[u] # {} => pc[u] \in {"send", "bye"}
  BY DEF ShareInv, HandlerOK, Idle, Told, Leave
<1>3. view \in [Users -> [sharer : Someone, controller : Someone]]
  BY DEF ShareInv, WindowTypes
<1>4. ASSUME NEW u \in Users, NEW i \in DOMAIN dialog[u] PROVE dialog[u][i] \in Users \ {u}
  <2>1. dialog[u] \in Seq(Users \ {u})
    BY DEF TypeInv, WindowOK
  <2> QED
    BY <1>4, <2>1
<1>5. \A u \in Users : u \notin here => view[u] = NoShare /\ u \notin input
  BY DEF TypeInv, WindowOK
<1> QED
  BY <1>1, <1>2, <1>3, <1>4, <1>5 DEF TypeOK, TypeInv, Steps

\* A window that is left alone
LEMMA WindowAlone ==
    ASSUME NEW v \in Users, WindowOK(v), view'[v] = view[v], dialog'[v] = dialog[v], inbox'[v] = inbox[v],
           v \in here' <=> v \in here, v \in input' <=> v \in input
    PROVE WindowOK(v)'
  BY DEF WindowOK

\* The steps of u's client leave the windows of the others alone.
LEMMA DialogsAlone ==
    ASSUME Types, WindowTypes, NEW u \in Users, ClientDoes(u), NEW v \in Users, v # u
    PROVE dialog'[v] = dialog[v] /\ (v \in input' <=> v \in input)
<1> USE DEF window
<1>1. DOMAIN dialog = Users
  BY DEF Types, ClientTypes
<1>2. CASE \/ StartScreenShare(u) \/ OnStopClicked(u) \/ OnRequestClicked(u) \/ OnRevokeClicked(u)
           \/ SelectOther(u) \/ LeaveRoom(u) \/ SelectRoom(u) \/ JoinRoom(u) \/ EventFilter(u)
  BY <1>2 DEF StartScreenShare, OnStopClicked, OnRequestClicked, OnRevokeClicked, SelectOther, LeaveRoom,
     SetCurrentRoom, SelectRoom, JoinRoom, EventFilter, ClearShareState
<1>3. CASE (\E yes \in BOOLEAN : AnswerRequest(u, yes)) \/ EngineFails(u) \/ OnEngineStopped(u)
  BY <1>1, <1>3 DEF AnswerRequest, EngineFails, OnEngineStopped, ClearShareState
<1>4. CASE Window(u)
  BY <1>1, <1>4 DEF Window, OnScreenStart, OnScreenStop, OnRemoteRequest, OnRemoteGrant, OnRemoteEvent,
     HandleRoomState, ClearShareState
<1> QED
  BY <1>2, <1>3, <1>4 DEF ClientDoes, Clicks

\* u's own window, after a click or a failure of the engine
LEMMA WindowClicks ==
    ASSUME Types, WindowTypes, NEW u \in Users, Clicks(u) \/ EngineFails(u) \/ OnEngineStopped(u), WindowOK(u),
           engine \subseteq here, here \subseteq Users, input \subseteq Users
    PROVE WindowOK(u)'
<1> USE DEF window
<1>1. /\ DOMAIN dialog = Users /\ DOMAIN view = Users /\ dialog[u] \in Seq(Users \ {u})
      /\ inbox[u] \in Seq(PacketFor(u)) /\ (u \notin here => view[u] = NoShare /\ u \notin input)
  BY DEF Types, ClientTypes, WindowTypes, WindowOK
<1>2. inbox' = inbox
  BY DEF Clicks, StartScreenShare, OnStopClicked, OnRequestClicked, OnRevokeClicked, SelectOther, LeaveRoom,
     SetCurrentRoom, SelectRoom, JoinRoom, AnswerRequest, EventFilter, EngineFails, OnEngineStopped
<1>3. dialog'[u] \in Seq(Users \ {u})
  <2>1. ASSUME NEW yes \in BOOLEAN, AnswerRequest(u, yes) PROVE dialog'[u] \in Seq(Users \ {u})
    <3>1. dialog'[u] = SubSeq(dialog[u], 1, Len(dialog[u]) - 1) /\ dialog[u] # <<>>
      BY <1>1, <2>1 DEF AnswerRequest
    <3>2. Len(dialog[u]) - 1 \in 0 .. Len(dialog[u])
      BY <1>1, <3>1
    <3> QED
      BY <1>1, <3>1, <3>2
  <2>2. CASE ~\E yes \in BOOLEAN : AnswerRequest(u, yes)
    <3>1. dialog' = dialog
      BY <2>2 DEF Clicks, StartScreenShare, OnStopClicked, OnRequestClicked, OnRevokeClicked, SelectOther, LeaveRoom,
         SetCurrentRoom, SelectRoom, JoinRoom, EventFilter, EngineFails, OnEngineStopped
    <3> QED
      BY <1>1, <3>1
  <2> QED
    BY <2>1, <2>2
<1>4. u \notin here' => view'[u] = NoShare /\ u \notin input'
  <2>1. CASE StartScreenShare(u) \/ OnStopClicked(u) \/ SelectRoom(u)
    BY <1>1, <2>1 DEF StartScreenShare, OnStopClicked, SelectRoom
  <2>2. CASE SelectOther(u) \/ LeaveRoom(u) \/ OnEngineStopped(u)
    BY <1>1, <2>2 DEF SelectOther, LeaveRoom, SetCurrentRoom, OnEngineStopped, ClearShareState
  <2>3. CASE OnRevokeClicked(u)
    <3>1. u \in here
      <4>1. u # NoUser
        BY ShareAssumption
      <4>2. view[u].sharer = u \/ view[u].controller = u
        BY <2>3 DEF OnRevokeClicked
      <4> QED
        BY <1>1, <4>1, <4>2 DEF NoShare, View
    <3> QED
      BY <2>3, <3>1 DEF OnRevokeClicked
  <2>4. CASE \/ OnRequestClicked(u) \/ JoinRoom(u) \/ EventFilter(u) \/ EngineFails(u)
             \/ \E yes \in BOOLEAN : AnswerRequest(u, yes)
    BY <1>1, <2>4 DEF OnRequestClicked, JoinRoom, EventFilter, EngineFails, AnswerRequest
  <2> QED
    BY <2>1, <2>2, <2>3, <2>4 DEF Clicks
<1> QED
  BY <1>1, <1>2, <1>3, <1>4 DEF WindowOK

\* u's own window, after a packet: a question is somebody else's.
LEMMA WindowTakes ==
    ASSUME Types, WindowTypes, NEW u \in Users, Window(u), WindowOK(u)
    PROVE WindowOK(u)'
<1> USE DEF window
<1>1. /\ DOMAIN dialog = Users /\ DOMAIN view = Users /\ dialog[u] \in Seq(Users \ {u})
      /\ inbox[u] \in Seq(PacketFor(u)) /\ (u \notin here => view[u] = NoShare /\ u \notin input)
  BY DEF Types, ClientTypes, WindowTypes, WindowOK
<1>2. inbox[u] # <<>> /\ inbox'[u] = Tail(inbox[u])
  BY DEF Window, OnScreenStart, OnScreenStop, OnRemoteRequest, OnRemoteGrant, OnRemoteEvent, HandleRoomState,
     Takes, Types, ClientTypes
<1>3. inbox'[u] \in Seq(PacketFor(u)) /\ inbox[u][1] \in PacketFor(u)
  BY <1>1, <1>2
<1>4. dialog'[u] \in Seq(Users \ {u})
  <2>1. CASE OnRemoteRequest(u)
    <3>1. inbox[u][1].user \in Users \ {u}
      BY <1>3, <2>1 DEF OnRemoteRequest, Takes, PacketFor
    <3>2. dialog' = dialog \/ dialog' = [dialog EXCEPT ![u] = Append(@, inbox[u][1].user)]
      BY <2>1 DEF OnRemoteRequest
    <3>3. dialog'[u] = dialog[u] \/ dialog'[u] = Append(dialog[u], inbox[u][1].user)
      BY <1>1, <3>2
    <3> QED
      BY <1>1, <3>1, <3>3
  <2>2. CASE ~OnRemoteRequest(u)
    <3>1. dialog' = dialog
      BY <2>2 DEF Window, OnScreenStart, OnScreenStop, OnRemoteGrant, OnRemoteEvent, HandleRoomState
    <3> QED
      BY <1>1, <3>1
  <2> QED
    BY <2>1, <2>2
<1>5. u \notin here' => view'[u] = NoShare /\ u \notin input'
  BY <1>1 DEF Window, OnScreenStart, OnScreenStop, OnRemoteRequest, OnRemoteGrant, OnRemoteEvent, HandleRoomState
<1> QED
  BY <1>3, <1>4, <1>5 DEF WindowOK

\* The sets of users
LEMMA SetsTyped ==
    ASSUME NEW u \in Users, ClientDoes(u) \/ Handler(u), {here, engine, executor, input, failing} \subseteq SUBSET Users
    PROVE {here, engine, executor, input, failing}' \subseteq SUBSET Users
<1> USE DEF window
<1>1. CASE Clicks(u)
  <2>1. CASE StartScreenShare(u) \/ OnStopClicked(u) \/ OnRequestClicked(u) \/ OnRevokeClicked(u)
    BY <2>1 DEF StartScreenShare, StartExecutor, OnStopClicked, OnRequestClicked, OnRevokeClicked, ClearShareState
  <2>2. CASE SelectOther(u) \/ LeaveRoom(u) \/ SelectRoom(u) \/ JoinRoom(u) \/ EventFilter(u) \/ \E yes \in BOOLEAN : AnswerRequest(u, yes)
    BY <2>2 DEF SelectOther, LeaveRoom, SetCurrentRoom, SelectRoom, JoinRoom, EventFilter, AnswerRequest, ClearShareState
  <2> QED
    BY <1>1, <2>1, <2>2 DEF Clicks
<1>2. CASE EngineFails(u) \/ OnEngineStopped(u)
  BY <1>2 DEF EngineFails, OnEngineStopped, ClearShareState
<1>3. CASE Window(u)
  BY <1>3 DEF Window, OnScreenStart, OnScreenStop, OnRemoteRequest, OnRemoteGrant, OnRemoteEvent, HandleRoomState,
     ClearShareState
<1>4. CASE Handler(u)
  BY <1>4 DEF Handler, HandleScreenStart, HandleScreenStop, HandleRemoteRequest, HandleRemoteGrant, FindTarget,
     SetController, ReadName, HandleRemoteEvent, HandleLeaveRoom, GetState, GiveUpSeat, HandleJoinRoom, Describe,
     GetRoomClients, Send
<1> QED
  BY <1>1, <1>2, <1>3, <1>4 DEF ClientDoes

LEMMA TypeClient == ASSUME Types, ShareInv, TypeInv, NEW u \in Users, ClientDoes(u) PROVE TypeInv'
<1>1. UNCHANGED serverSide /\ OthersAlone(u) /\ WindowTypes
  BY ClientAlone DEF ShareInv
<1>2. {here, engine, executor, input, failing}' \subseteq SUBSET Users
  BY SetsTyped DEF TypeInv
<1>3. WindowOK(u)'
  <2>1. WindowOK(u) /\ engine \subseteq here /\ here \subseteq Users /\ input \subseteq Users
    BY <1>1 DEF TypeInv, WindowTypes
  <2> QED
    BY <1>1, <2>1, WindowClicks, WindowTakes DEF ClientDoes
<1>4. ASSUME NEW v \in Users, v # u PROVE WindowOK(v)'
  <2>1. WindowOK(v)
    BY DEF TypeInv
  <2> QED
    BY <1>1, <1>4, <2>1, DialogsAlone, WindowAlone DEF OthersAlone
<1> QED
  BY <1>1, <1>2, <1>3, <1>4 DEF TypeInv, serverSide

\* The steps of the handlers: what they are about, and whom they are for
LEMMA PacketsFor ==
    ASSUME Types, Types', ShareInv, ShareInv', TypeInv, NEW u \in Users, Handler(u), NEW v \in todo'[u]
    PROVE msg'[u] \in PacketFor(v)
<1>1. /\ DOMAIN pc = Users /\ DOMAIN msg = Users /\ todo \in [Users -> SUBSET Users]
  BY DEF Types, ServerTypes
<1>2. msg'[u] \in Packet
  <2>1. pc'[u] \notin Idle
    BY DEF ShareInv, HandlerOK
  <2> QED
    BY <2>1 DEF Types, ServerTypes
<1>3. CASE HandleRemoteRequest(u)
  <2>1. pc[u] = "read" /\ todo[u] = {}
    BY <1>3, Took DEF HandleRemoteRequest
  <2>2. todo'[u] = {sharer} /\ msg'[u].user = u /\ sharer # u
    BY <1>1, <1>3, <2>1 DEF HandleRemoteRequest, Forward, Ignored, handler
  <2> QED
    BY <1>2, <2>2 DEF PacketFor
<1>4. CASE \E w \in Users : Send(u, w)
  <2>1. PICK w \in Users : Send(u, w)
    BY <1>4
  <2>2. todo'[u] = todo[u] \ {w} /\ (todo[u] # {w} => msg'[u] = msg[u])
    BY <1>1, <2>1 DEF Send
  <2> QED
    BY <2>2 DEF TypeInv
<1>5. CASE ~HandleRemoteRequest(u) /\ ~\E w \in Users : Send(u, w)
  <2>1. msg'[u].op # "REMOTE_REQUEST"
    <3>1. CASE GetRoomClients(u)
      <4>1. pc[u] \in {"clients", "leave"} /\ (msg'[u] = msg[u] \/ todo'[u] = todo[u])
        BY <1>1, <3>1 DEF GetRoomClients
      <4> QED
        BY <4>1 DEF ShareInv, HandlerOK, Announcements, Told
    <3>2. ASSUME todo[u] = {}, UNCHANGED todo PROVE FALSE
      BY <3>2
    <3>3. CASE HandleRemoteEvent(u)
      <4>1. pc[u] = "read" /\ todo[u] = {}
        BY <3>3, Took DEF HandleRemoteEvent
      <4> QED
        BY <1>1, <3>3, <4>1 DEF HandleRemoteEvent, Forward, Ignored, handler
    <3>4. CASE Describe(u)
      BY <1>1, <3>4 DEF Describe
    <3>5. CASE HandleScreenStart(u) \/ HandleScreenStop(u) \/ HandleRemoteGrant(u) \/ HandleLeaveRoom(u) \/ HandleJoinRoom(u)
      <4>1. UNCHANGED todo /\ \E op : Handles(u, op)
        BY <3>5 DEF HandleScreenStart, HandleScreenStop, HandleRemoteGrant, HandleLeaveRoom, HandleJoinRoom, Announce,
           GoTo, Ignored, handler
      <4>2. todo[u] = {}
        BY <4>1, Took
      <4> QED
        BY <3>2, <4>1, <4>2
    <3>6. CASE FindTarget(u) \/ SetController(u) \/ LooksUp(u)
      <4>1. UNCHANGED todo /\ pc[u] \in Idle \cup Told
        BY <3>6 DEF FindTarget, SetController, LooksUp, ReadName, GetState, GiveUpSeat, Has, GoTo, Announce, Idle, Told
      <4>2. todo[u] = {}
        BY <4>1 DEF ShareInv, HandlerOK
      <4> QED
        BY <3>2, <4>1, <4>2
    <3> QED
      BY <1>5, <3>1, <3>3, <3>4, <3>5, <3>6 DEF Handler, LooksUp
  <2> QED
    BY <1>2, <2>1 DEF PacketFor
<1> QED
  BY <1>3, <1>4, <1>5

LEMMA TypeHandler ==
    ASSUME Types, Types', ShareInv, ShareInv', TypeInv, NEW u \in Users, Handler(u) PROVE TypeInv'
<1>1. UNCHANGED clientSide /\ HandlersAlone(u) /\ dialog' = dialog /\ input' = input
  <2>1. dialog' = dialog /\ input' = input
    BY DEF Handler, HandleScreenStart, HandleScreenStop, HandleRemoteRequest, HandleRemoteGrant, FindTarget, SetController, ReadName,
       HandleRemoteEvent, HandleLeaveRoom, GetState, GiveUpSeat, HandleJoinRoom, Describe, GetRoomClients, Send, window
  <2> QED
    BY <2>1, HandlerAlone DEF ShareInv
<1>2. pc' \in [Users -> Steps]
  <2>1. pc \in [Users -> Steps] /\ pc[u] \in Steps
    BY DEF TypeInv
  <2>2. pc' = pc \/ \E step \in Steps : pc' = [pc EXCEPT ![u] = step]
    <3>1. CASE \E v \in Users : Send(u, v)
      BY <2>1, <3>1 DEF Send, After, Steps, Leave
    <3>2. CASE HandleScreenStart(u) \/ HandleScreenStop(u) \/ HandleRemoteRequest(u) \/ HandleRemoteEvent(u)
      BY <3>2 DEF HandleScreenStart, HandleScreenStop, HandleRemoteRequest, HandleRemoteEvent, Announce, GoTo, Ignored, Forward,
         handler, Steps
    <3>3. CASE HandleRemoteGrant(u) \/ FindTarget(u) \/ SetController(u) \/ LooksUp(u)
      BY <3>3 DEF HandleRemoteGrant, FindTarget, SetController, LooksUp, ReadName, GetState, GiveUpSeat, Announce, GoTo,
         Ignored, handler, Steps, Leave
    <3>4. CASE HandleLeaveRoom(u) \/ HandleJoinRoom(u) \/ Describe(u)
      BY <3>4 DEF HandleLeaveRoom, HandleJoinRoom, Describe, Announce, GoTo, Steps, Leave
    <3>5. CASE GetRoomClients(u)
      BY <2>1, <3>5 DEF GetRoomClients, After, Steps, Leave
    <3> QED
      BY <3>1, <3>2, <3>3, <3>4, <3>5 DEF Handler, LooksUp
  <2> QED
    BY <2>1, <2>2
<1>3. sharer' = NoUser => controller' = NoUser
  BY ShareAssumption DEF TypeInv, Handler, HandleScreenStart, HandleScreenStop, StopShare, HandleRemoteRequest,
     HandleRemoteGrant, FindTarget, SetController, ReadName, HandleRemoteEvent, HandleLeaveRoom, GetState, GiveUpSeat,
     HandleJoinRoom, Describe, GetRoomClients, Send, relay
<1>7. silent' \in BOOLEAN
  <2>1. CASE ReadName(u)
    BY <2>1, Zenon DEF ReadName, TypeInv
  <2>2. CASE ~ReadName(u)
    <3>1. silent' = silent \/ silent' = FALSE
      BY <2>2 DEF Handler, HandleScreenStart, HandleScreenStop, HandleRemoteRequest,
         HandleRemoteGrant, FindTarget, SetController, HandleRemoteEvent, HandleLeaveRoom, GetState, GiveUpSeat,
         HandleJoinRoom, Describe, GetRoomClients, Send, Announce, Ignored, Forward, order
    <3> QED
      BY <3>1 DEF TypeInv
  <2> QED
    BY <2>1, <2>2
<1>4. ASSUME NEW v \in Users PROVE WindowOK(v)'
  <2>1. WindowOK(v)
    BY DEF TypeInv
  <2>2. inbox'[v] \in Seq(PacketFor(v))
    <3>1. CASE Send(u, v)
      <4>1. inbox'[v] = Append(inbox[v], msg[u]) /\ v \in todo[u]
        BY <3>1, Sent
      <4>2. msg[u] \in PacketFor(v)
        BY <4>1 DEF TypeInv
      <4> QED
        BY <2>1, <4>1, <4>2 DEF WindowOK
    <3>2. ASSUME NEW w \in Users, Send(u, w), w # v PROVE inbox'[v] = inbox[v]
      BY <3>2, Sent
    <3>3. CASE ~\E w \in Users : Send(u, w)
      <4>1. inbox' = inbox
        BY <3>3 DEF Handler, HandleScreenStart, HandleScreenStop, HandleRemoteRequest, HandleRemoteGrant, FindTarget,
           SetController, ReadName, HandleRemoteEvent, HandleLeaveRoom, GetState, GiveUpSeat, HandleJoinRoom, Describe,
           GetRoomClients
      <4> QED
        BY <2>1, <4>1 DEF WindowOK
    <3> QED
      BY <2>1, <3>1, <3>2, <3>3 DEF WindowOK
  <2> QED
    BY <1>1, <2>1, <2>2 DEF WindowOK, clientSide
<1>5. ASSUME NEW w \in Users, NEW v \in todo'[w] PROVE msg'[w] \in PacketFor(v)
  <2>1. CASE w = u
    BY <1>5, <2>1, PacketsFor
  <2>2. CASE w # u
    BY <1>1, <1>5, <2>2 DEF HandlersAlone, TypeInv
  <2> QED
    BY <2>1, <2>2
<1>6. {here, engine, executor, input, failing}' \subseteq SUBSET Users
  BY SetsTyped DEF TypeInv
<1> QED
  BY <1>2, <1>3, <1>4, <1>5, <1>6, <1>7 DEF TypeInv

LEMMA TypeStep == ASSUME Types, Types', ShareInv, ShareInv', TypeInv, [Next]_vars PROVE TypeInv'
<1>1. CASE UNCHANGED vars
  BY <1>1 DEF vars, relay, handler, window, order, TypeInv, WindowOK
<1>2. CASE Next
  BY <1>2, TypeClient, TypeHandler DEF Next, ClientDoes
<1> QED
  BY <1>1, <1>2

\* The share, the handlers, the packets and the windows stay well-typed; a
\* window that does not show the room shows no share, and no question is its
\* user's own.
THEOREM ShareViewTypeCorrect == Spec => []TypeOK
<1>1. ConsentInv => Types
  BY DEF ConsentInv, ControlAllowed, Types
<1>2. Types /\ ShareInv /\ [Next]_vars => ShareInv'
  BY ShareStep
<1>3. Types /\ Types' /\ ShareInv /\ ShareInv' /\ TypeInv /\ [Next]_vars => TypeInv'
  BY TypeStep
<1>4. Init => ShareInv /\ TypeInv
  BY ShareInit, TypeInit
<1>5. Types /\ ShareInv /\ TypeInv => TypeOK
  BY TypeRests
<1> QED
  BY <1>1, <1>2, <1>3, <1>4, <1>5, ConsentKept, PTL DEF Spec

-----------------------------------------------------------------------------
(* The promise of the server *)

\* The share as the floor of a chat server with this room alone, which
\* everybody has entered
Room == "room"
RoomFloor == INSTANCE Floor WITH
    Rooms <- {Room}, members <- [r \in {Room} |-> members], holder <- [r \in {Room} |-> sharer]

\* Only the server's handlers touch it.
LEMMA FloorAlone ==
    ASSUME NEW u \in Users, ClientDoes(u)
    PROVE UNCHANGED <<members, sharer>>
BY DEF ClientDoes, Clicks, StartScreenShare, OnStopClicked, OnRequestClicked, OnRevokeClicked, SelectOther, LeaveRoom,
   SetCurrentRoom, SelectRoom, JoinRoom, AnswerRequest, EventFilter, EngineFails, OnEngineStopped, Window, OnScreenStart,
   OnScreenStop, OnRemoteRequest, OnRemoteGrant, OnRemoteEvent, HandleRoomState, relay

\* A handler takes the share when it is free, gives it up, lets its user in,
\* or lets its user go without it.
LEMMA HandlerOnFloor ==
    ASSUME ShareInv, ServerTypes, NEW u \in Users, Handler(u)
    PROVE \/ members' = members \cup {u} /\ sharer' = sharer
          \/ members' = members \ {u} /\ sharer # u /\ sharer' = sharer
          \/ members' = members /\ u \in members /\ sharer = NoUser /\ sharer' = u
          \/ members' = members /\ sharer = u /\ sharer' = NoUser
          \/ UNCHANGED <<members, sharer>>
<1>1. CASE HandleScreenStart(u)
  BY <1>1 DEF HandleScreenStart
<1>2. CASE HandleScreenStop(u)
  BY <1>2 DEF HandleScreenStop, StopShare
<1>3. CASE HandleLeaveRoom(u)
  BY <1>3 DEF HandleLeaveRoom, StopShare
<1>4. CASE HandleJoinRoom(u)
  BY <1>4 DEF HandleJoinRoom
<1>5. CASE GiveUpSeat(u)
  <2>1. pc[u] \in Leave /\ sharer # u
    BY <1>5 DEF GiveUpSeat, ShareInv, HandlerOK, Leave
  <2> QED
    BY <1>5, <2>1 DEF GiveUpSeat
<1>6. CASE \/ HandleRemoteRequest(u) \/ HandleRemoteGrant(u) \/ FindTarget(u) \/ SetController(u) \/ ReadName(u)
           \/ HandleRemoteEvent(u) \/ GetState(u) \/ Describe(u) \/ GetRoomClients(u) \/ \E v \in Users : Send(u, v)
  BY <1>6 DEF HandleRemoteRequest, HandleRemoteGrant, FindTarget, SetController, ReadName, HandleRemoteEvent, GetState,
     Describe, GetRoomClients, Send, relay
<1> QED
  BY <1>1, <1>2, <1>3, <1>4, <1>5, <1>6 DEF Handler

LEMMA HandlerImplementsFloor ==
    ASSUME ShareInv, ServerTypes, NEW u \in Users, Handler(u)
    PROVE RoomFloor!Next \/ UNCHANGED RoomFloor!vars
<1>1. CASE members' = members \cup {u} /\ sharer' = sharer
  <2>1. RoomFloor!Enter(Room, u)
    BY <1>1 DEF RoomFloor!Enter
  <2> QED
    BY <2>1 DEF RoomFloor!Next
<1>2. CASE members' = members \ {u} /\ sharer # u /\ sharer' = sharer
  <2>1. RoomFloor!Exit({Room}, u)
    BY <1>2 DEF RoomFloor!Exit
  <2> QED
    BY <2>1 DEF RoomFloor!Next
<1>3. CASE members' = members /\ u \in members /\ sharer = NoUser /\ sharer' = u
  <2>1. RoomFloor!Take(Room, u)
    BY <1>3 DEF RoomFloor!Take
  <2> QED
    BY <2>1 DEF RoomFloor!Next
<1>4. CASE members' = members /\ sharer = u /\ sharer' = NoUser
  <2>1. RoomFloor!Yield(Room, u)
    BY <1>4 DEF RoomFloor!Yield
  <2> QED
    BY <2>1 DEF RoomFloor!Next
<1>5. CASE UNCHANGED <<members, sharer>>
  BY <1>5 DEF RoomFloor!vars
<1> QED
  BY <1>1, <1>2, <1>3, <1>4, <1>5, HandlerOnFloor

\* Everybody has entered the room, and nobody has the floor.
RoomEntered == members = Users /\ sharer = NoUser

\* The room starts as Floor's when everybody has entered it, and every step of
\* windows, engines and handlers is a step of Floor or leaves the floor alone:
\* a share is only taken when there is none, and its user leaves without it,
\* although the leave has several steps.
THEOREM FloorIsKept == Spec => RoomEntered /\ [][RoomFloor!Next]_(RoomFloor!vars)
<1>1. ConsentInv => Types
  BY DEF ConsentInv, ControlAllowed, Types
<1>2. Types /\ ShareInv /\ [Next]_vars => ShareInv'
  BY ShareStep
<1>3. Types /\ ShareInv /\ [Next]_vars => [RoomFloor!Next]_(RoomFloor!vars)
  <2> SUFFICES ASSUME Types, ShareInv, [Next]_vars PROVE RoomFloor!Next \/ UNCHANGED RoomFloor!vars
    OBVIOUS
  <2>1. CASE UNCHANGED vars
    BY <2>1 DEF vars, relay, RoomFloor!vars
  <2>2. ASSUME NEW u \in Users, ClientDoes(u) PROVE UNCHANGED RoomFloor!vars
    BY <2>2, FloorAlone DEF RoomFloor!vars
  <2>3. ASSUME NEW u \in Users, Handler(u) PROVE RoomFloor!Next \/ UNCHANGED RoomFloor!vars
    BY <2>3, HandlerImplementsFloor DEF Types
  <2> QED
    BY <2>1, <2>2, <2>3 DEF Next, ClientDoes
<1>4. Init => ShareInv /\ RoomEntered
  BY ShareInit DEF Init, RoomEntered
<1> QED
  BY <1>1, <1>2, <1>3, <1>4, ConsentKept, PTL DEF Spec
=============================================================================
