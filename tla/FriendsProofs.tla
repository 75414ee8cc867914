--------------------------- MODULE FriendsProofs ----------------------------
(***************************************************************************)
(* Proofs about Friends: its types, that send_request never inserts a row  *)
(* that exists, that friendship is mutual, and that the clients are shown  *)
(* the friends and requests they have, for any number of users.            *)
(***************************************************************************)
EXTENDS Friends, TLAPS

Busy == Steps \ {"login", "login_send", "register", "idle"}

\* What a handler has read about the row of its peer stays true until it has
\* written: u alone deletes rows <<v, u>>, and their locks are u's as well.
RequestKept ==
    \A u \in Users : pc[u] \in {"update", "upsert", "delete"} => rows[<<peer[u], u>>] # "none"

\* The inductive invariant behind Mutual
Claims == InsertIsNew /\ RequestKept /\ Mutual

-----------------------------------------------------------------------------
(* Types, in four parts *)

TableOK ==
    /\ rows \in [Pairs -> {"none", "pending", "accepted"}]
    /\ lock \in [Pairs -> Users \cup {NoUser}]

CountsOK ==
    /\ commits \in Nat /\ requests \in 0 .. MaxRequests
    /\ crossed \in BOOLEAN /\ disturbed \in BOOLEAN

HandlerOK ==
    /\ pc \in [Users -> Steps] /\ peer \in [Users -> Users \cup {NoUser}]
    /\ \A u \in Users : pc[u] \in Busy => peer[u] \in Users \ {u}
    /\ accepting \in [Users -> BOOLEAN]

PushOK ==
    /\ list \in [Users -> Lists] /\ news \in [Users -> Lists] /\ shown \in [Users -> Lists]
    /\ registered \subseteq Users
    /\ events \in [Users -> Seq({"friend_request", "friend_accepted"})]

\* The parts are the type invariant of the specification.
LEMMA FriendsTypeParts == TypeOK <=> TableOK /\ CountsOK /\ HandlerOK /\ PushOK
BY DEF TypeOK, TableOK, CountsOK, HandlerOK, PushOK, Busy, Steps

\* A row belongs to two users.
LEMMA PairsOfUsers ==
    /\ \A u \in Users : \A v \in Users \ {u} : <<u, v>> \in Pairs
    /\ \A p \in Pairs : p[1] \in Users /\ p[2] \in Users /\ p[1] # p[2] /\ p = <<p[1], p[2]>>
BY DEF Pairs

\* What get_friends returns is a list.
LEMMA GetFriendsType ==
    ASSUME CountsOK, NEW u \in Users PROVE ListRead(u) \subseteq Lists
<1>1. GetFriends(u) \in Lists
  BY DEF GetFriends, Lists, CountsOK
<1>2. [friends |-> {}, incoming |-> {}, at |-> commits, failed |-> TRUE] \in Lists
  BY DEF Lists, CountsOK
<1> QED
  BY <1>1, <1>2 DEF ListRead

\* A failing query is counted among the requests.
LEMMA CountedType ==
    ASSUME requests \in 0 .. MaxRequests, NEW l, Counted(l)
    PROVE  requests' \in 0 .. MaxRequests
BY FriendsAssumption DEF Counted

\* All of it holds before the first login.
LEMMA FriendsTypeInit == Init => TypeOK
<1> SUFFICES ASSUME Init PROVE TypeOK
  OBVIOUS
<1> USE DEF Init
<1>1. TableOK
  BY DEF TableOK
<1>2. CountsOK
  <2>1. commits = 1 /\ requests = 0 /\ crossed \in BOOLEAN /\ disturbed \in BOOLEAN
    OBVIOUS
  <2> HIDE DEF Init
  <2> QED
    BY <2>1, FriendsAssumption DEF CountsOK
<1>3. HandlerOK
  <2>1. pc \in [Users -> {"login"}]
    OBVIOUS
  <2> QED
    BY <2>1 DEF HandlerOK, Steps, Busy
<1>4. PushOK
  <2>1. NoList \in Lists
    BY DEF NoList, Lists
  <2> QED
    BY <2>1 DEF PushOK
<1> QED
  BY <1>1, <1>2, <1>3, <1>4, FriendsTypeParts

\* The tables keep their types.
LEMMA TableStep == TableOK /\ HandlerOK /\ [Next]_vars => TableOK'
<1> SUFFICES ASSUME TableOK, HandlerOK, [Next]_vars PROVE TableOK'
  OBVIOUS
<1> USE DEF TableOK, table, vars
<1>1. ASSUME NEW u \in Users, Work(u) PROVE TableOK'
  <2>1. CASE Insert(u)
    BY <2>1 DEF Insert
  <2>2. CASE Update(u)
    BY <2>2 DEF Update
  <2>3. CASE Upsert(u) \/ Abort(u)
    <3>1. Unlocked(u) \in [Pairs -> Users \cup {NoUser}]
      BY DEF Unlocked
    <3> QED
      BY <2>3, <3>1 DEF Upsert, Abort, BothAccepted
  <2>4. CASE Delete(u)
    BY <2>4 DEF Delete
  <2>5. CASE PublishRequest(u) \/ ReadList(u) \/ SendList(u) \/ PublishAccept(u) \/ Register(u)
    BY <2>5 DEF PublishRequest, ReadList, SendList, PublishAccept, Register
  <2> QED
    BY <1>1, <2>1, <2>2, <2>3, <2>4, <2>5 DEF Work
<1>2. ASSUME NEW u \in Users, HandleFriendEvent(u) \/ SendNews(u) PROVE TableOK'
  BY <1>2 DEF HandleFriendEvent, SendNews
<1>3. ASSUME NEW u \in Users, NEW v \in Users \ {u}, SendRequest(u, v) PROVE TableOK'
  BY <1>3 DEF SendRequest
<1>4. ASSUME NEW u \in Users, NEW v \in Users \ {u}, NEW a \in BOOLEAN, RespondToRequest(u, v, a)
      PROVE TableOK'
  BY <1>4 DEF RespondToRequest
<1>5. CASE UNCHANGED vars
  BY <1>5
<1> QED
  BY <1>1, <1>2, <1>3, <1>4, <1>5 DEF Next

\* The counters and the history flags keep their types.
LEMMA CountsStep == CountsOK /\ [Next]_vars => CountsOK'
<1> SUFFICES ASSUME CountsOK, [Next]_vars PROVE CountsOK'
  OBVIOUS
<1> USE FriendsAssumption DEF CountsOK, table, vars
<1>1. ASSUME NEW u \in Users, Work(u) PROVE CountsOK'
  <2>1. CASE Insert(u) \/ Update(u) \/ Upsert(u) \/ Abort(u)
    BY <2>1 DEF Insert, Update, Upsert, Abort
  <2>2. CASE Delete(u)
    BY <2>2 DEF Delete
  <2>3. CASE PublishRequest(u) \/ PublishAccept(u) \/ Register(u)
    BY <2>3 DEF PublishRequest, PublishAccept, Register, Publish
  <2>4. CASE SendList(u)
    BY <2>4 DEF SendList, Receive
  <2>5. CASE ReadList(u)
    <3>1. requests' \in 0 .. MaxRequests
      BY <2>5, CountedType DEF ReadList
    <3> QED
      BY <2>5, <3>1 DEF ReadList
  <2> QED
    BY <1>1, <2>1, <2>2, <2>3, <2>4, <2>5 DEF Work
<1>2. ASSUME NEW u \in Users, HandleFriendEvent(u) \/ SendNews(u) PROVE CountsOK'
  <2>1. requests' \in 0 .. MaxRequests
    BY <1>2, CountedType DEF HandleFriendEvent, SendNews
  <2> QED
    BY <1>2, <2>1 DEF HandleFriendEvent, SendNews, Receive
<1>3. ASSUME NEW u \in Users, NEW v \in Users \ {u}, SendRequest(u, v) PROVE CountsOK'
  BY <1>3 DEF SendRequest
<1>4. ASSUME NEW u \in Users, NEW v \in Users \ {u}, NEW a \in BOOLEAN, RespondToRequest(u, v, a)
      PROVE CountsOK'
  BY <1>4 DEF RespondToRequest
<1>5. CASE UNCHANGED vars
  BY <1>5
<1> QED
  BY <1>1, <1>2, <1>3, <1>4, <1>5 DEF Next

\* A handler that is busy has a peer that is another user.
LEMMA HandlerStep == HandlerOK /\ [Next]_vars => HandlerOK'
<1> SUFFICES ASSUME HandlerOK, [Next]_vars PROVE HandlerOK'
  OBVIOUS
<1> USE DEF HandlerOK, Steps, Busy, handler, vars
<1>1. ASSUME NEW u \in Users, Work(u) PROVE HandlerOK'
  <2>1. CASE Insert(u) \/ Update(u) \/ Upsert(u) \/ Delete(u)
    BY <2>1 DEF Insert, Update, Upsert, Delete, GoTo
  <2>2. CASE PublishRequest(u) \/ PublishAccept(u) \/ Register(u) \/ Abort(u)
    BY <2>2 DEF PublishRequest, PublishAccept, Register, Abort, GoTo
  <2>3. CASE ReadList(u)
    BY <2>3 DEF ReadList, GoTo
  <2>4. CASE SendList(u)
    BY <2>4 DEF SendList, GoTo, NextAfterList
  <2> QED
    BY <1>1, <2>1, <2>2, <2>3, <2>4 DEF Work
<1>2. ASSUME NEW u \in Users, HandleFriendEvent(u) \/ SendNews(u) PROVE HandlerOK'
  BY <1>2 DEF HandleFriendEvent, SendNews
<1>3. ASSUME NEW u \in Users, NEW v \in Users \ {u}, SendRequest(u, v) PROVE HandlerOK'
  BY <1>3 DEF SendRequest
<1>4. ASSUME NEW u \in Users, NEW v \in Users \ {u}, NEW a \in BOOLEAN, RespondToRequest(u, v, a)
      PROVE HandlerOK'
  BY <1>4 DEF RespondToRequest
<1>5. CASE UNCHANGED vars
  BY <1>5
<1> QED
  BY <1>1, <1>2, <1>3, <1>4, <1>5 DEF Next

\* Lists and events keep their types.
LEMMA PushStep == PushOK /\ CountsOK /\ HandlerOK /\ [Next]_vars => PushOK'
<1> SUFFICES ASSUME PushOK, CountsOK, HandlerOK, [Next]_vars PROVE PushOK'
  OBVIOUS
<1> USE DEF PushOK, push, handler, vars
<1>0. NoList \in Lists
  BY DEF NoList, Lists
<1>1. ASSUME NEW u \in Users, Work(u) PROVE PushOK'
  <2>1. CASE Insert(u) \/ Update(u) \/ Upsert(u) \/ Delete(u) \/ Abort(u)
    BY <2>1 DEF Insert, Update, Upsert, Delete, Abort
  <2>2. CASE PublishRequest(u) \/ PublishAccept(u)
    <3>1. peer[u] \in Users
      BY <2>2 DEF PublishRequest, PublishAccept, HandlerOK, Busy, Steps
    <3>2. \A type \in {"friend_request", "friend_accepted"} :
             Append(events[peer[u]], type) \in Seq({"friend_request", "friend_accepted"})
      BY <3>1
    <3>3. events' \in [Users -> Seq({"friend_request", "friend_accepted"})]
      BY <2>2, <3>2 DEF PublishRequest, PublishAccept, Publish
    <3> QED
      BY <2>2, <3>3 DEF PublishRequest, PublishAccept
  <2>3. CASE ReadList(u)
    BY <2>3, GetFriendsType DEF ReadList
  <2>4. CASE SendList(u)
    BY <1>0, <2>4 DEF SendList, Receive
  <2>5. CASE Register(u)
    BY <2>5 DEF Register
  <2> QED
    BY <1>1, <2>1, <2>2, <2>3, <2>4, <2>5 DEF Work
<1>2. ASSUME NEW u \in Users, HandleFriendEvent(u) PROVE PushOK'
  <2>1. Tail(events[u]) \in Seq({"friend_request", "friend_accepted"})
    BY <1>2 DEF HandleFriendEvent
  <2>2. events' \in [Users -> Seq({"friend_request", "friend_accepted"})]
    BY <1>2, <2>1 DEF HandleFriendEvent
  <2>3. news' \in [Users -> Lists]
    BY <1>2, GetFriendsType DEF HandleFriendEvent
  <2> QED
    BY <1>2, <2>2, <2>3 DEF HandleFriendEvent
<1>3. ASSUME NEW u \in Users, SendNews(u) PROVE PushOK'
  BY <1>0, <1>3 DEF SendNews, Receive
<1>4. ASSUME NEW u \in Users, NEW v \in Users \ {u}, SendRequest(u, v) PROVE PushOK'
  BY <1>4 DEF SendRequest
<1>5. ASSUME NEW u \in Users, NEW v \in Users \ {u}, NEW a \in BOOLEAN, RespondToRequest(u, v, a)
      PROVE PushOK'
  BY <1>5 DEF RespondToRequest
<1>6. CASE UNCHANGED vars
  BY <1>6
<1> QED
  BY <1>1, <1>2, <1>3, <1>4, <1>5, <1>6 DEF Next

\* Together the parts are inductive.
LEMMA FriendsTypeStep == TypeOK /\ [Next]_vars => TypeOK'
<1>1. (TableOK /\ CountsOK /\ HandlerOK /\ PushOK)' => TypeOK'
  BY DEF TypeOK, TableOK, CountsOK, HandlerOK, PushOK, Busy, Steps
<1> QED
  BY <1>1, TableStep, CountsStep, HandlerStep, PushStep, FriendsTypeParts

\* Handlers, tables, pushes and lists of friends keep to their types.
THEOREM FriendsTypeCorrect == Spec => []TypeOK
BY FriendsTypeInit, FriendsTypeStep, PTL DEF Spec

-----------------------------------------------------------------------------
(* Friendship is mutual *)

\* What the rows, the steps and the peers say to each other is kept by every
\* step: an insertion finds no row, so the row the other way round is not
\* accepted; an acceptance writes both; a deletion sets crossed or hits a
\* request.
LEMMA ClaimsStep == TypeOK /\ Claims /\ [Next]_vars => Claims'
<1> SUFFICES ASSUME TableOK, HandlerOK, Claims, [Next]_vars PROVE Claims'
  BY FriendsTypeParts
<1> USE PairsOfUsers DEF Claims, InsertIsNew, RequestKept, Mutual, TableOK, HandlerOK, Busy, Steps
<1>1. ASSUME NEW u \in Users, Work(u) PROVE Claims'
  <2>1. CASE Insert(u)
    <3> DEFINE p == <<u, peer[u]>>
    <3>1. peer[u] \in Users \ {u} /\ p \in Pairs /\ <<peer[u], u>> \in Pairs
      BY <2>1 DEF Insert
    <3>2. rows[p] = "none" /\ rows' = [rows EXCEPT ![p] = "pending"]
          /\ pc' = [pc EXCEPT ![u] = "publish_request"] /\ UNCHANGED <<peer, crossed>>
      BY <2>1 DEF Insert, GoTo
    <3>3. InsertIsNew'
      BY <3>1, <3>2
    <3>4. RequestKept'
      BY <3>1, <3>2
    <3>5. Mutual'
      BY <3>1, <3>2
    <3> QED
      BY <3>3, <3>4, <3>5
  <2>2. CASE Update(u) \/ Abort(u)
    BY <2>2 DEF Update, Abort, GoTo
  <2>3. CASE Upsert(u)
    <3>1. peer[u] \in Users \ {u} /\ <<u, peer[u]>> \in Pairs /\ <<peer[u], u>> \in Pairs
      BY <2>3 DEF Upsert
    <3>2. rows' = [rows EXCEPT ![<<peer[u], u>>] = "accepted", ![<<u, peer[u]>>] = "accepted"]
          /\ pc' = [pc EXCEPT ![u] = "list"] /\ UNCHANGED <<peer, crossed>>
          /\ rows[<<peer[u], u>>] # "none" /\ pc[u] = "upsert"
      BY <2>3 DEF Upsert, GoTo, BothAccepted
    <3>3. InsertIsNew'
      BY <3>1, <3>2
    <3>4. RequestKept'
      BY <3>1, <3>2
    <3>5. Mutual'
      <4> SUFFICES ASSUME ~crossed, NEW p \in Pairs, rows'[p] = "accepted"
                   PROVE rows'[<<p[2], p[1]>>] = "accepted"
        BY <3>2
      <4>1. CASE p \in {<<u, peer[u]>>, <<peer[u], u>>}
        <5>1. <<p[2], p[1]>> \in {<<u, peer[u]>>, <<peer[u], u>>}
          BY <4>1
        <5> QED
          BY <3>1, <3>2, <5>1
      <4>2. CASE p \notin {<<u, peer[u]>>, <<peer[u], u>>}
        <5>1. rows[p] = "accepted" /\ <<p[2], p[1]>> \in Pairs
          BY <3>1, <3>2, <4>2
        <5> QED
          BY <3>1, <3>2, <5>1
      <4> QED
        BY <4>1, <4>2
    <3> QED
      BY <3>3, <3>4, <3>5
  <2>4. CASE Delete(u)
    <3> DEFINE p == <<peer[u], u>>
    <3>1. peer[u] \in Users \ {u} /\ p \in Pairs /\ <<u, peer[u]>> \in Pairs
      BY <2>4 DEF Delete
    <3>2. rows' = [rows EXCEPT ![p] = "none"] /\ crossed' = (crossed \/ rows[p] = "accepted")
          /\ pc' = [pc EXCEPT ![u] = "list"] /\ UNCHANGED peer /\ pc[u] = "delete"
      BY <2>4 DEF Delete, GoTo
    <3>3. InsertIsNew'
      BY <3>1, <3>2
    <3>4. RequestKept'
      BY <3>1, <3>2
    <3>5. Mutual'
      BY <3>1, <3>2
    <3> QED
      BY <3>3, <3>4, <3>5
  <2>5. CASE PublishRequest(u) \/ PublishAccept(u) \/ Register(u)
    BY <2>5 DEF PublishRequest, PublishAccept, Register, GoTo, table
  <2>6. CASE ReadList(u)
    BY <2>6 DEF ReadList, GoTo, table
  <2>7. CASE SendList(u)
    BY <2>7 DEF SendList, GoTo, NextAfterList, table
  <2> QED
    BY <1>1, <2>1, <2>2, <2>3, <2>4, <2>5, <2>6, <2>7 DEF Work
<1>2. ASSUME NEW u \in Users, HandleFriendEvent(u) \/ SendNews(u) PROVE Claims'
  BY <1>2 DEF HandleFriendEvent, SendNews, table, handler
<1>3. ASSUME NEW u \in Users, NEW v \in Users \ {u}, SendRequest(u, v) PROVE Claims'
  BY <1>3 DEF SendRequest, table
<1>4. ASSUME NEW u \in Users, NEW v \in Users \ {u}, NEW a \in BOOLEAN, RespondToRequest(u, v, a)
      PROVE Claims'
  BY <1>4 DEF RespondToRequest, table
<1>5. CASE UNCHANGED vars
  BY <1>5 DEF vars, table, handler
<1> HIDE DEF Claims, TableOK, HandlerOK
<1> QED
  BY <1>1, <1>2, <1>3, <1>4, <1>5 DEF Next

\* There are no rows to begin with.
LEMMA ClaimsInit == Init => Claims
BY PairsOfUsers DEF Init, Claims, InsertIsNew, RequestKept, Mutual

\* Whatever requests and answers cross, and between however many users, a
\* friendship is a row each way unless a rejection has hit an acceptance; and
\* send_request never inserts a row that is there.
THEOREM FriendshipIsMutual == Spec => [](Mutual /\ InsertIsNew)
<1>1. Claims => Mutual /\ InsertIsNew
  BY DEF Claims
<1> QED
  BY <1>1, ClaimsInit, FriendsTypeInit, FriendsTypeStep, ClaimsStep, PTL DEF Spec

-----------------------------------------------------------------------------
(* What the clients are shown *)

ListsOf(u) == {shown[u], news[u], list[u]}

\* A list says what get_friends would return now, unless it comes of a failure.
Fresh(l, u) ==
    l.failed \/ (l.friends = GetFriends(u).friends /\ l.incoming = GetFriends(u).incoming)

\* u's list is still to be read: by its own handler, or because a friend_event
\* for u is published or will be.
Due(u) ==
    \/ pc[u] \in {"login", "list"}
    \/ events[u] # <<>>
    \/ \E v \in Users :
          /\ peer[v] = u
          /\ \/ pc[v] = "publish_request"
             \/ pc[v] \in {"list", "list_send", "publish_accept"} /\ accepting[v]

\* Of the lists for u that are shown, read by the subscription or read by the
\* handler none is later than l, and those of the same date are fresh.
Latest(l, u) == \A k \in ListsOf(u) : k.at <= l.at /\ (k.at = l.at => Fresh(k, u))

\* A list is dated by the commits it has seen.
Dated ==
    /\ commits > 0
    /\ \A u \in Users : \A l \in ListsOf(u) :
          /\ l.at <= commits
          /\ l.at = commits => Fresh(l, u)
          /\ l.at = 0 => l = NoList

\* The handler of an acceptance remembers it, and a list is read to be sent.
Answers ==
    \A u \in Users :
        /\ pc[u] \in {"update", "upsert"} => accepting[u]
        /\ pc[u] \notin {"login_send", "list_send"} => list[u] = NoList

Told(u) == Due(u) \/ \E l \in ListsOf(u) : Fresh(l, u) /\ Latest(l, u)

\* The inductive invariant behind FriendsShown: the latest of a user's lists
\* is fresh, or another one is on its way.
AllTold == disturbed \/ crossed \/ \A u \in Users : Told(u)

\* All of it holds before the first login: every list is due.
LEMMA ToldInit == Init => Dated /\ Answers /\ AllTold
<1> SUFFICES ASSUME Init PROVE Dated /\ Answers /\ AllTold
  OBVIOUS
<1>1. Dated
  BY PairsOfUsers DEF Init, Dated, ListsOf, Fresh, GetFriends, NoList
<1>2. Answers
  BY DEF Init, Answers
<1>3. AllTold
  BY DEF Init, AllTold, Told, Due
<1> QED
  BY <1>1, <1>2, <1>3

\* Handlers remember what they answer, and hold a list only to send it.
LEMMA AnswersStep == HandlerOK /\ PushOK /\ Answers /\ [Next]_vars => Answers'
<1> SUFFICES ASSUME HandlerOK, PushOK, Answers, [Next]_vars PROVE Answers'
  OBVIOUS
<1> USE DEF HandlerOK, PushOK, Steps, Busy, Answers
<1>1. ASSUME NEW u \in Users, Work(u) PROVE Answers'
  <2>1. CASE Insert(u) \/ Update(u) \/ Upsert(u) \/ Delete(u) \/ Abort(u)
    BY <2>1 DEF Insert, Update, Upsert, Delete, Abort, GoTo
  <2>2. CASE PublishRequest(u) \/ PublishAccept(u) \/ Register(u)
    BY <2>2 DEF PublishRequest, PublishAccept, Register, GoTo
  <2>3. CASE ReadList(u)
    BY <2>3 DEF ReadList, GoTo
  <2>4. CASE SendList(u)
    BY <2>4 DEF SendList, GoTo, NextAfterList
  <2> QED
    BY <1>1, <2>1, <2>2, <2>3, <2>4 DEF Work
<1>2. ASSUME NEW u \in Users, HandleFriendEvent(u) \/ SendNews(u) PROVE Answers'
  BY <1>2 DEF HandleFriendEvent, SendNews, handler
<1>3. ASSUME NEW u \in Users, NEW v \in Users \ {u}, SendRequest(u, v) PROVE Answers'
  BY <1>3 DEF SendRequest
<1>4. ASSUME NEW u \in Users, NEW v \in Users \ {u}, NEW a \in BOOLEAN, RespondToRequest(u, v, a)
      PROVE Answers'
  BY <1>4 DEF RespondToRequest
<1>5. CASE UNCHANGED vars
  BY <1>5 DEF vars, handler, push
<1> QED
  BY <1>1, <1>2, <1>3, <1>4, <1>5 DEF Next

SameFriends(u) ==
    /\ GetFriends(u)'.friends = GetFriends(u).friends
    /\ GetFriends(u)'.incoming = GetFriends(u).incoming

\* A user who has the same friends and the same lists is still told.
LEMMA ToldKept ==
    ASSUME NEW u, Told(u), UNCHANGED <<shown, news, list>>, SameFriends(u), Due(u) => Due(u)'
    PROVE Told(u)'
<1> SUFFICES ASSUME ~Due(u) PROVE Told(u)'
  BY DEF Told
<1>1. PICK l \in ListsOf(u) : Fresh(l, u) /\ Latest(l, u)
  BY DEF Told
<1>2. ListsOf(u)' = ListsOf(u)
  BY DEF ListsOf
<1>3. Fresh(l, u)' /\ Latest(l, u)'
  BY <1>1, <1>2 DEF Fresh, Latest, SameFriends
<1> QED
  BY <1>2, <1>3 DEF Told

\* A step that reads, sends and commits nothing, and takes no event from
\* anybody, leaves every list as fresh and every user as told as it was.
LEMMA NothingRead ==
    ASSUME Dated, AllTold, UNCHANGED <<rows, commits, crossed, shown, news, list>>,
           disturbed => disturbed',
           \A u \in Users : Due(u) => disturbed' \/ Due(u)'
    PROVE Dated' /\ AllTold'
<1>1. Dated'
  BY DEF Dated, ListsOf, Fresh, GetFriends
<1>2. AllTold'
  <2>1. \A u \in Users : SameFriends(u)
    BY DEF SameFriends, GetFriends
  <2> QED
    BY <2>1, ToldKept DEF AllTold
<1> QED
  BY <1>1, <1>2

\* A commit makes no list that was read before it the latest one.  Whoever it
\* changes something for is due another.
LEMMA Committed ==
    ASSUME TypeOK, Dated, AllTold, commits' = commits + 1,
           UNCHANGED <<shown, news, list, disturbed>>,
           crossed => crossed',
           \A u \in Users : crossed' \/ Due(u)' \/ ((Due(u) => Due(u)') /\ SameFriends(u))
    PROVE Dated' /\ AllTold'
<1>1. \A u \in Users : \A l \in ListsOf(u) : l.at \in Nat /\ l.at <= commits
  BY FriendsTypeParts DEF ListsOf, Dated, Lists, PushOK
<1>2. Dated'
  BY <1>1, FriendsTypeParts DEF Dated, ListsOf, CountsOK
<1>3. AllTold'
  BY ToldKept DEF AllTold, Told
<1> QED
  BY <1>2, <1>3

\* Whoever reads u's list now, u's handler or the thread of the subscription,
\* has the latest one.
LEMMA ReadNow ==
    ASSUME TypeOK, Dated, AllTold, NEW u \in Users,
           NEW g \in ListRead(u),
           \/ list' = [list EXCEPT ![u] = g] /\ UNCHANGED news
           \/ news' = [news EXCEPT ![u] = g] /\ UNCHANGED list,
           UNCHANGED <<rows, commits, crossed, shown, disturbed>>,
           \A w \in Users \ {u} : Due(w) => Due(w)'
    PROVE Dated' /\ AllTold'
<1> USE FriendsTypeParts DEF PushOK
<1>1. \A w \in Users : ListsOf(w)' \subseteq (IF w = u THEN ListsOf(w) \cup {g} ELSE ListsOf(w))
  BY DEF ListsOf
<1>2. g \in ListsOf(u)' /\ g.at = commits /\ Fresh(g, u)
  <2>1. g \in ListsOf(u)'
    BY DEF ListsOf
  <2>2. CASE g = GetFriends(u)
    BY <2>1, <2>2 DEF Fresh, GetFriends
  <2>3. CASE g = [friends |-> {}, incoming |-> {}, at |-> commits, failed |-> TRUE]
    BY <2>1, <2>3 DEF Fresh
  <2> QED
    BY <2>2, <2>3 DEF ListRead
<1>3. \A w \in Users : \A l : Fresh(l, w)' = Fresh(l, w)
  BY DEF Fresh, GetFriends
<1>4. g.at # 0
  BY <1>2 DEF Dated
<1>5. commits \in Nat
  BY DEF CountsOK
<1>6. Dated'
  BY <1>1, <1>2, <1>3, <1>4, <1>5 DEF Dated
<1>7. ASSUME ~disturbed, ~crossed, NEW w \in Users PROVE Told(w)'
  <2>1. CASE w = u
    BY <1>2, <1>3, <1>6, <2>1 DEF Told, Latest, Dated
  <2>2. CASE w # u
    <3>1. shown'[w] = shown[w] /\ news'[w] = news[w] /\ list'[w] = list[w]
      BY <2>2
    <3>2. ListsOf(w)' = ListsOf(w)
      BY <3>1 DEF ListsOf
    <3> QED
      BY <1>3, <1>7, <2>2, <3>2 DEF AllTold, Told, Latest
  <2> QED
    BY <2>1, <2>2
<1>8. AllTold'
  BY <1>7 DEF AllTold
<1> QED
  BY <1>6, <1>8

\* A list that is sent is not older than what its client shows, or an older
\* one has overtaken a newer one.
LEMMA Sent ==
    ASSUME TypeOK, Dated, AllTold, NEW u \in Users, NEW l \in ListsOf(u), Receive(u, l),
           \/ l = list[u] /\ list' = [list EXCEPT ![u] = NoList] /\ UNCHANGED news
           \/ l = news[u] /\ news' = [news EXCEPT ![u] = NoList] /\ UNCHANGED list,
           UNCHANGED <<rows, commits, crossed>>,
           \A w \in Users : Due(w) => Due(w)'
    PROVE Dated' /\ AllTold'
<1> USE FriendsTypeParts DEF PushOK
<1>1. \A w \in Users : \A k : Fresh(k, w)' = Fresh(k, w)
  BY DEF Fresh, GetFriends
<1>2. \A w \in Users : ListsOf(w)' \subseteq ListsOf(w) \cup {NoList}
  BY DEF ListsOf, Receive
<1>3. commits \in Nat /\ NoList.at = 0
  BY DEF CountsOK, NoList
<1>4. \A w \in Users : \A k \in ListsOf(w) : k.at \in Nat
  BY DEF ListsOf, Lists
<1>5. commits # 0
  BY DEF Dated
<1>6. Dated'
  BY <1>1, <1>2, <1>3, <1>5 DEF Dated
<1>7. ASSUME ~disturbed', ~crossed, NEW w \in Users PROVE Told(w)'
  <2>0. ~disturbed /\ Told(w)
    BY <1>7 DEF AllTold, Receive
  <2>1. CASE Due(w)
    BY <2>1 DEF Told
  <2>2. CASE ~Due(w) /\ w # u
    <3>1. shown'[w] = shown[w] /\ news'[w] = news[w] /\ list'[w] = list[w]
      BY <2>2 DEF Receive
    <3>2. ListsOf(w)' = ListsOf(w)
      BY <3>1 DEF ListsOf
    <3> QED
      BY <1>1, <2>0, <2>2, <3>2 DEF Told, Latest
  <2>3. CASE ~Due(w) /\ w = u
    <3>1. PICK k \in ListsOf(u) : Fresh(k, u) /\ Latest(k, u)
      BY <2>0, <2>3 DEF Told
    <3>2. l \in ListsOf(u)' /\ shown'[u] = l /\ shown[u].at <= l.at
      <4>1. ~(l.at < shown[u].at)
        BY <1>7 DEF Receive
      <4>2. l.at \in Nat /\ shown[u].at \in Nat
        BY <1>4 DEF ListsOf
      <4>3. shown'[u] = l /\ l \in ListsOf(u)'
        BY DEF Receive, ListsOf
      <4> QED
        BY <4>1, <4>2, <4>3
    <3>3. k \in ListsOf(u)' \/ k = shown[u] \/ k = l
      BY DEF ListsOf, Receive
    <3>4. PICK m \in ListsOf(u)' : m \in ListsOf(u) /\ Fresh(m, u) /\ Latest(m, u)
      BY <1>4, <3>1, <3>2, <3>3 DEF Latest, ListsOf
    <3>5. NoList.at <= m.at /\ (NoList.at = m.at => Fresh(NoList, u))
      BY <1>3, <1>4, <3>4 DEF Dated
    <3>6. Fresh(m, u)' /\ Latest(m, u)'
      BY <1>1, <1>2, <3>4, <3>5 DEF Latest
    <3> QED
      BY <2>3, <3>4, <3>6 DEF Told
  <2> QED
    BY <2>1, <2>2, <2>3
<1>8. AllTold'
  BY <1>7 DEF AllTold
<1> QED
  BY <1>6, <1>8

\* Whose row is written hears of it, and a rejection of a request that is not
\* accepted yet changes what its handler reads next.
LEMMA ToldStep ==
    TypeOK /\ Claims /\ Dated /\ Answers /\ AllTold /\ [Next]_vars => Dated' /\ AllTold'
<1> SUFFICES ASSUME TypeOK, Claims, Dated, Answers, AllTold, [Next]_vars
             PROVE Dated' /\ AllTold'
  OBVIOUS
<1>0. TableOK /\ CountsOK /\ HandlerOK /\ PushOK
  BY FriendsTypeParts
<1> USE DEF Due, HandlerOK, Busy, Steps
<1>1. ASSUME NEW u \in Users, Work(u) PROVE Dated' /\ AllTold'
  <2>1. CASE Insert(u)
    <3>1. /\ pc[u] = "insert" /\ rows' = [rows EXCEPT ![<<u, peer[u]>>] = "pending"]
          /\ pc' = [pc EXCEPT ![u] = "publish_request"]
          /\ UNCHANGED <<peer, events, accepting, shown, news, list, crossed, disturbed>>
          /\ commits' = commits + 1
      BY <2>1 DEF Insert, GoTo, push
    <3>2. rows[<<u, peer[u]>>] = "none"
      BY <3>1 DEF Claims, InsertIsNew
    <3>3. \A w \in Users : Due(w)' \/ ((Due(w) => Due(w)') /\ SameFriends(w))
      <4> SUFFICES ASSUME NEW w \in Users, w # peer[u] PROVE (Due(w) => Due(w)') /\ SameFriends(w)
        BY <1>0, <3>1
      <4>1. Due(w) => Due(w)'
        BY <1>0, <3>1
      <4>2. \A v \in Users \ {w} :
              rows'[<<v, w>>] = rows[<<v, w>>] /\ (rows'[<<w, v>>] = "accepted" <=> rows[<<w, v>>] = "accepted")
        BY <1>0, <3>1, <3>2, PairsOfUsers DEF TableOK
      <4>3. SameFriends(w)
        BY <4>2 DEF SameFriends, GetFriends
      <4> QED
        BY <4>1, <4>3
    <3> QED
      BY <3>1, <3>3, Committed
  <2>2. CASE Upsert(u)
    <3>1. /\ pc[u] = "upsert" /\ rows' = BothAccepted(u, peer[u])
          /\ pc' = [pc EXCEPT ![u] = "list"] /\ accepting[u]
          /\ UNCHANGED <<peer, events, accepting, shown, news, list, crossed, disturbed>>
          /\ commits' = commits + 1
      BY <2>2 DEF Upsert, GoTo, push, Answers
    <3>3. \A w \in Users : Due(w)' \/ ((Due(w) => Due(w)') /\ SameFriends(w))
      <4> SUFFICES ASSUME NEW w \in Users, w # peer[u], w # u
                   PROVE (Due(w) => Due(w)') /\ SameFriends(w)
        BY <1>0, <3>1
      <4>1. Due(w) => Due(w)'
        BY <1>0, <3>1
      <4>2. \A v \in Users \ {w} : rows'[<<v, w>>] = rows[<<v, w>>] /\ rows'[<<w, v>>] = rows[<<w, v>>]
        <5>1. \A p \in Pairs : p \notin {<<u, peer[u]>>, <<peer[u], u>>} => rows'[p] = rows[p]
          BY <1>0, <3>1 DEF TableOK, BothAccepted
        <5> QED
          BY <5>1, PairsOfUsers
      <4>3. SameFriends(w)
        BY <4>2 DEF SameFriends, GetFriends
      <4> QED
        BY <4>1, <4>3
    <3> QED
      BY <3>1, <3>3, Committed
  <2>3. CASE Delete(u)
    <3>1. /\ pc[u] = "delete" /\ rows' = [rows EXCEPT ![<<peer[u], u>>] = "none"]
          /\ pc' = [pc EXCEPT ![u] = "list"]
          /\ crossed' = (crossed \/ rows[<<peer[u], u>>] = "accepted")
          /\ UNCHANGED <<peer, events, accepting, shown, news, list, disturbed>>
          /\ commits' = commits + 1
      BY <2>3 DEF Delete, GoTo, push
    <3>2. crossed => crossed'
      BY <3>1
    <3>3. \A w \in Users : crossed' \/ Due(w)' \/ ((Due(w) => Due(w)') /\ SameFriends(w))
      <4> SUFFICES ASSUME NEW w \in Users, w # u, ~crossed'
                   PROVE (Due(w) => Due(w)') /\ SameFriends(w)
        BY <1>0, <3>1
      <4>1. Due(w) => Due(w)'
        BY <1>0, <3>1
      <4>2. rows[<<peer[u], u>>] # "accepted"
        BY <3>1
      <4>3. \A v \in Users \ {w} :
              rows'[<<v, w>>] = rows[<<v, w>>] /\ (rows'[<<w, v>>] = "accepted" <=> rows[<<w, v>>] = "accepted")
        BY <1>0, <3>1, <4>2, PairsOfUsers DEF TableOK
      <4>4. SameFriends(w)
        BY <4>3 DEF SameFriends, GetFriends
      <4> QED
        BY <4>1, <4>4
    <3> QED
      BY <3>1, <3>2, <3>3, Committed
  <2>4. CASE Update(u) \/ Abort(u) \/ Register(u)
    <3>1. /\ UNCHANGED <<rows, commits, crossed, shown, news, list, disturbed, events, accepting>>
          /\ \A w \in Users : Due(w) => Due(w)'
      BY <1>0, <2>4 DEF Update, Abort, Register, GoTo, table, push
    <3> QED
      BY <3>1, NothingRead
  <2>5. CASE PublishRequest(u) \/ PublishAccept(u)
    <3>1. /\ UNCHANGED <<rows, commits, crossed, shown, news, list, accepting>>
          /\ pc' = [pc EXCEPT ![u] = "idle"] /\ peer' = [peer EXCEPT ![u] = NoUser]
          /\ \/ disturbed'
             \/ \E type \in {"friend_request", "friend_accepted"} :
                  /\ events' = [events EXCEPT ![peer[u]] = Append(@, type)]
                  /\ UNCHANGED disturbed
      BY <2>5 DEF PublishRequest, PublishAccept, Publish, GoTo, table
    <3>2. peer[u] \in Users /\ pc[u] \in {"publish_request", "publish_accept"}
      BY <1>0, <2>5 DEF PublishRequest, PublishAccept
    <3>3. \A w \in Users : Due(w) => disturbed' \/ Due(w)'
      <4> SUFFICES ASSUME NEW w \in Users, Due(w), ~disturbed' PROVE Due(w)'
        OBVIOUS
      <4>1. PICK type \in {"friend_request", "friend_accepted"} :
              events' = [events EXCEPT ![peer[u]] = Append(@, type)]
        BY <3>1
      <4>2. events'[peer[u]] # <<>> /\ \A v \in Users : events[v] # <<>> => events'[v] # <<>>
        <5>1. events[peer[u]] \in Seq({"friend_request", "friend_accepted"})
          BY <1>0, <3>2 DEF PushOK
        <5>2. Append(events[peer[u]], type) # <<>>
          BY <5>1
        <5> QED
          BY <1>0, <3>2, <4>1, <5>2 DEF PushOK
      <4> QED
        BY <1>0, <3>1, <3>2, <4>2
    <3> QED
      BY <3>1, <3>3, NothingRead
  <2>6. CASE ReadList(u)
    <3>1. /\ \E l \in ListRead(u) : list' = [list EXCEPT ![u] = l]
          /\ UNCHANGED <<news, rows, commits, crossed, shown, disturbed>>
          /\ \A w \in Users \ {u} : Due(w) => Due(w)'
      BY <1>0, <2>6 DEF ReadList, GoTo, table, push
    <3> QED
      BY <3>1, ReadNow
  <2>7. CASE SendList(u)
    <3>1. /\ list[u] \in ListsOf(u) /\ Receive(u, list[u])
          /\ list' = [list EXCEPT ![u] = NoList]
          /\ UNCHANGED <<news, rows, commits, crossed>>
      BY <2>7 DEF SendList, ListsOf, table, push
    <3>2. \A w \in Users : Due(w) => Due(w)'
      BY <1>0, <2>7 DEF SendList, GoTo, NextAfterList, table, push
    <3> QED
      BY <3>1, <3>2, Sent
  <2> QED
    BY <1>1, <2>1, <2>2, <2>3, <2>4, <2>5, <2>6, <2>7 DEF Work
<1>2. ASSUME NEW u \in Users, HandleFriendEvent(u) PROVE Dated' /\ AllTold'
  <2>1. /\ UNCHANGED <<pc, peer, accepting, list, rows, commits, crossed, shown>>
        /\ events' = [events EXCEPT ![u] = Tail(@)]
    BY <1>2 DEF HandleFriendEvent, table, handler
  <2>2. \A w \in Users \ {u} : Due(w) => Due(w)'
    BY <1>0, <2>1 DEF PushOK
  <2>3. CASE u \in registered
    <3>1. (\E l \in ListRead(u) : news' = [news EXCEPT ![u] = l]) /\ UNCHANGED disturbed
      BY <1>2, <2>3 DEF HandleFriendEvent
    <3> QED
      BY <2>1, <2>2, <3>1, ReadNow
  <2>4. CASE u \notin registered
    <3>1. disturbed' = (disturbed \/ pc[u] # "login") /\ UNCHANGED news
      BY <1>2, <2>4 DEF HandleFriendEvent
    <3>2. disturbed => disturbed'
      BY <3>1
    <3>3. \A w \in Users : Due(w) => disturbed' \/ Due(w)'
      <4>1. disturbed' \/ pc'[u] = "login"
        BY <2>1, <3>1
      <4> QED
        BY <2>2, <4>1
    <3> QED
      BY <2>1, <3>1, <3>2, <3>3, NothingRead
  <2> QED
    BY <2>3, <2>4
<1>3. ASSUME NEW u \in Users, SendNews(u) PROVE Dated' /\ AllTold'
  <2>1. /\ news[u] \in ListsOf(u) /\ Receive(u, news[u])
        /\ news' = [news EXCEPT ![u] = NoList]
        /\ UNCHANGED <<list, rows, commits, crossed, pc, peer, accepting, events>>
    BY <1>3 DEF SendNews, ListsOf, table, handler
  <2>2. \A w \in Users : Due(w) => Due(w)'
    BY <2>1
  <2> QED
    BY <2>1, <2>2, Sent
<1>4. ASSUME NEW u \in Users, NEW v \in Users \ {u}, SendRequest(u, v) PROVE Dated' /\ AllTold'
  <2>1. /\ UNCHANGED <<rows, commits, crossed, shown, news, list, disturbed>>
        /\ \A w \in Users : Due(w) => Due(w)'
    BY <1>0, <1>4 DEF SendRequest, table, push
  <2> QED
    BY <2>1, NothingRead
<1>5. ASSUME NEW u \in Users, NEW v \in Users \ {u}, NEW a \in BOOLEAN, RespondToRequest(u, v, a)
      PROVE Dated' /\ AllTold'
  <2>1. /\ UNCHANGED <<rows, commits, crossed, shown, news, list, disturbed>>
        /\ \A w \in Users : Due(w) => Due(w)'
    BY <1>0, <1>5 DEF RespondToRequest, table, push
  <2> QED
    BY <2>1, NothingRead
<1>6. CASE UNCHANGED vars
  <2>1. UNCHANGED <<rows, commits, crossed, shown, news, list, disturbed, pc, peer, accepting, events>>
    BY <1>6 DEF vars, table, handler, push
  <2> QED
    BY <2>1, NothingRead
<1> QED
  BY <1>1, <1>2, <1>3, <1>4, <1>5, <1>6 DEF Next

\* When everything is handled, what is shown is the latest list.
LEMMA ToldWhenQuiet == TypeOK /\ Dated /\ Answers /\ AllTold => FriendsShown
<1> SUFFICES ASSUME TypeOK, Dated, Answers, AllTold, Quiet, ~disturbed, ~crossed, NEW u \in Users
             PROVE shown[u].failed \/ [shown[u] EXCEPT !.at = commits] = GetFriends(u)
  BY DEF FriendsShown
<1>1. news[u] = NoList /\ list[u] = NoList /\ ~Due(u)
  BY DEF Quiet, Answers, Due
<1>2. PICK l \in ListsOf(u) : Fresh(l, u) /\ Latest(l, u)
  BY <1>1 DEF AllTold, Told
<1>3. shown[u] \in Lists
  BY FriendsTypeParts DEF PushOK
<1>4. Fresh(shown[u], u)
  <2>1. shown[u] \in ListsOf(u) /\ l \in {shown[u], NoList}
    BY <1>1 DEF ListsOf
  <2>2. NoList.at = 0 /\ shown[u].at \in Nat
    BY <1>3 DEF NoList, Lists
  <2> QED
    BY <1>2, <2>1, <2>2 DEF Latest
<1>5. [shown[u] EXCEPT !.at = commits]
        = [friends |-> shown[u].friends, incoming |-> shown[u].incoming, at |-> commits,
           failed |-> shown[u].failed]
  BY <1>3 DEF Lists
<1>6. GetFriends(u)
        = [friends |-> GetFriends(u).friends, incoming |-> GetFriends(u).incoming, at |-> commits,
           failed |-> FALSE]
  BY DEF GetFriends
<1> QED
  BY <1>3, <1>4, <1>5, <1>6 DEF Fresh, Lists

\* When all is done every user, of however many, is shown the friends and the
\* requests the table has, unless a push got lost or came too early, lists
\* overtook each other, or a rejection hit an acceptance: whoever commits a
\* change reads or announces it after the commit.
THEOREM FriendsAreShown == Spec => []FriendsShown
<1>1. Answers /\ TypeOK /\ [Next]_vars => Answers'
  BY AnswersStep, FriendsTypeParts
<1> QED
  BY <1>1, FriendsTypeInit, FriendsTypeStep, ClaimsInit, ClaimsStep, ToldInit, ToldStep,
     ToldWhenQuiet, PTL DEF Spec
=============================================================================
