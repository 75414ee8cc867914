------------------------------ MODULE Friends -------------------------------
(***************************************************************************)
(* Friend requests: FriendService on the table friendships                 *)
(* (server/services/friend_service.py), the handlers that call it          *)
(* (server/client_handler.py) and the Redis channel friend_events by which *)
(* the other user's server is told (server/main.py).                       *)
(*                                                                         *)
(* The handlers run their transactions side by side, at PostgreSQL's       *)
(* default isolation: a statement sees what is committed when it starts, a *)
(* written row is locked until the commit, a statement that needs a locked *)
(* row waits and then looks at it again, and one of two transactions that  *)
(* wait for each other is aborted.  A list of friends is read by one       *)
(* thread, of the handler or of the subscription, and sent a moment later. *)
(***************************************************************************)
EXTENDS Naturals, Sequences, FiniteSets

CONSTANTS
    Users,
    NoUser,
    MaxRequests     \* bound: friend requests, responses to them, failing lists

ASSUME FriendsAssumption == NoUser \notin Users /\ MaxRequests \in Nat

VARIABLES
    rows,       \* friendships as committed: the status of <<user_id, friend_id>>
    lock,       \* the transaction that has written a row and not committed
    pc, peer,   \* a handler: what is next, and the other user
    accepting,  \* whether it answers with accept
    list,       \* the list it has read and not sent
    registered, \* ChatServer._clients
    events,     \* by recipient: what friend_events still has to deliver
    news,       \* the list the subscription's thread has read for a user
    shown,      \* the list a client has received last
    requests,
    commits,    \* history: the number of commits, and one
    crossed,    \* history: a rejection has deleted an accepted row
    disturbed   \* history: an event or a newer list did not get through

table == <<rows, lock, commits, crossed>>
handler == <<pc, peer, accepting, list>>
push == <<registered, events, news>>
vars == <<table, handler, push, shown, requests, disturbed>>

Pairs == {p \in Users \X Users : p[1] # p[2]}
NoList == [friends |-> {}, incoming |-> {}, at |-> 0, failed |-> FALSE]
Steps == {"login", "login_send", "register", "idle", "insert", "update", "upsert", "delete",
          "publish_request", "list", "list_send", "publish_accept"}

\* A list says which commits it has seen and whether a query behind it failed,
\* which the program's lists do not.
Lists == [friends : SUBSET Users, incoming : SUBSET Users, at : Nat, failed : BOOLEAN]

TypeOK ==
    /\ rows \in [Pairs -> {"none", "pending", "accepted"}]
    /\ lock \in [Pairs -> Users \cup {NoUser}]
    /\ pc \in [Users -> Steps] /\ peer \in [Users -> Users \cup {NoUser}]
    /\ \A u \in Users : pc[u] \notin {"login", "login_send", "register", "idle"} => peer[u] \in Users \ {u}
    /\ accepting \in [Users -> BOOLEAN]
    /\ list \in [Users -> Lists] /\ news \in [Users -> Lists] /\ shown \in [Users -> Lists]
    /\ registered \subseteq Users
    /\ events \in [Users -> Seq({"friend_request", "friend_accepted"})]
    /\ commits \in Nat /\ requests \in 0 .. MaxRequests
    /\ crossed \in BOOLEAN /\ disturbed \in BOOLEAN

Init ==
    /\ rows = [p \in Pairs |-> "none"]
    /\ lock = [p \in Pairs |-> NoUser]
    /\ pc = [u \in Users |-> "login"] /\ peer = [u \in Users |-> NoUser]
    /\ accepting = [u \in Users |-> FALSE]
    /\ list = [u \in Users |-> NoList]
    /\ registered = {}
    /\ events = [u \in Users |-> <<>>] /\ news = [u \in Users |-> NoList]
    /\ shown = [u \in Users |-> NoList]
    /\ requests = 0 /\ commits = 1 /\ crossed = FALSE /\ disturbed = FALSE

GoTo(u, step) ==
    /\ pc' = [pc EXCEPT ![u] = step]
    /\ peer' = IF step = "idle" THEN [peer EXCEPT ![u] = NoUser] ELSE peer

Free(u, p) == lock[p] \in {NoUser, u}

\* get_friends: those who are accepted, and the requests that came in
GetFriends(u) ==
    [friends |-> {v \in Users \ {u} : rows[<<u, v>>] = "accepted"},
     incoming |-> {v \in Users \ {u} : rows[<<v, u>>] = "pending"},
     at |-> commits, failed |-> FALSE]

\* What it returns: any exception is logged and the list returned as far as it
\* is, empty or without the incoming requests.  (Which of the two is left out.)
ListRead(u) ==
    {GetFriends(u), [friends |-> {}, incoming |-> {}, at |-> commits, failed |-> TRUE]}

Counted(l) ==
    IF l.failed THEN requests < MaxRequests /\ requests' = requests + 1
                ELSE UNCHANGED requests

-----------------------------------------------------------------------------
(* Mutants of the definitions below, for testing the properties *)

\* ON CONFLICT DO NOTHING
BothUnlessThere(u, v) ==
    [rows EXCEPT ![<<v, u>>] = "accepted",
                 ![<<u, v>>] = IF @ = "none" THEN "accepted" ELSE @]

\* Nobody is told that a request was accepted.
NextAfterListSilent(u) == "idle"

\* The transactions wait for each other.
NoVictim(u) == FALSE

-----------------------------------------------------------------------------
(* FriendService.send_request *)

\* There is no row yet; a second request is refused.
SendRequest(u, v) ==
    /\ pc[u] = "idle"
    /\ requests < MaxRequests
    /\ requests' = requests + 1
    /\ rows[<<u, v>>] = "none"
    /\ pc' = [pc EXCEPT ![u] = "insert"]
    /\ peer' = [peer EXCEPT ![u] = v]
    /\ UNCHANGED <<table, accepting, list, push, shown, disturbed>>

\* INSERT and commit.  (Nobody else makes this row, see InsertIsNew, so the
\* primary key does not refuse it.)
Insert(u) ==
    LET p == <<u, peer[u]>> IN
    /\ pc[u] = "insert"
    /\ Free(u, p)
    /\ rows' = [rows EXCEPT ![p] = "pending"]
    /\ commits' = commits + 1
    /\ GoTo(u, "publish_request")
    /\ UNCHANGED <<lock, crossed, accepting, list, push, shown, requests, disturbed>>

-----------------------------------------------------------------------------
(* FriendService.respond_to_request *)

\* SELECT: there is a pending request of v.
RespondToRequest(u, v, accept) ==
    /\ pc[u] = "idle"
    /\ requests < MaxRequests
    /\ requests' = requests + 1
    /\ rows[<<v, u>>] = "pending"
    /\ accepting' = [accepting EXCEPT ![u] = accept]
    /\ pc' = [pc EXCEPT ![u] = IF accept THEN "update" ELSE "delete"]
    /\ peer' = [peer EXCEPT ![u] = v]
    /\ UNCHANGED <<table, list, push, shown, disturbed>>

\* UPDATE of the row of the request, which is locked ...
Update(u) ==
    LET p == <<peer[u], u>> IN
    /\ pc[u] = "update"
    /\ Free(u, p)
    /\ lock' = [lock EXCEPT ![p] = u]
    /\ GoTo(u, "upsert")
    /\ UNCHANGED <<rows, commits, crossed, accepting, list, push, shown, requests, disturbed>>

\* ... the row the other way round is there or is inserted, and the commit.
BothAccepted(u, v) == [rows EXCEPT ![<<v, u>>] = "accepted", ![<<u, v>>] = "accepted"]

Unlocked(u) == [p \in Pairs |-> IF lock[p] = u THEN NoUser ELSE lock[p]]

Upsert(u) ==
    /\ pc[u] = "upsert"
    /\ Free(u, <<u, peer[u]>>)
    /\ rows' = BothAccepted(u, peer[u])
    /\ lock' = Unlocked(u)
    /\ commits' = commits + 1
    /\ GoTo(u, "list")
    /\ UNCHANGED <<crossed, accepting, list, push, shown, requests, disturbed>>

\* DELETE, whatever the status is by now, and commit.
Delete(u) ==
    LET p == <<peer[u], u>> IN
    /\ pc[u] = "delete"
    /\ Free(u, p)
    /\ rows' = [rows EXCEPT ![p] = "none"]
    /\ crossed' = (crossed \/ rows[p] = "accepted")
    /\ commits' = commits + 1
    /\ GoTo(u, "list")
    /\ UNCHANGED <<lock, accepting, list, push, shown, requests, disturbed>>

\* u is the victim PostgreSQL chooses of two that wait for each other.
Victim(u) == lock[<<u, peer[u]>>] = peer[u] /\ lock[<<peer[u], u>>] = u

Abort(u) ==
    /\ pc[u] = "upsert"
    /\ Victim(u)
    /\ lock' = Unlocked(u)
    /\ GoTo(u, "idle")
    /\ UNCHANGED <<rows, commits, crossed, accepting, list, push, shown, requests, disturbed>>

-----------------------------------------------------------------------------
(* The handlers *)

\* publish_friend_event, for the user v; if it fails that is only logged.
Publish(v, type) ==
    \/ events' = [events EXCEPT ![v] = Append(@, type)] /\ UNCHANGED disturbed
    \/ disturbed' = TRUE /\ UNCHANGED events

PublishRequest(u) ==
    /\ pc[u] = "publish_request"
    /\ Publish(peer[u], "friend_request")
    /\ GoTo(u, "idle")
    /\ UNCHANGED <<table, accepting, list, registered, news, shown, requests>>

\* _send_friend_list: the list is read ...
ReadList(u) ==
    /\ pc[u] \in {"login", "list"}
    /\ \E l \in ListRead(u) : Counted(l) /\ list' = [list EXCEPT ![u] = l]
    /\ GoTo(u, IF pc[u] = "login" THEN "login_send" ELSE "list_send")
    /\ UNCHANGED <<table, accepting, push, shown, disturbed>>

NextAfterList(u) == IF accepting[u] THEN "publish_accept" ELSE "idle"

Receive(u, l) ==
    /\ shown' = [shown EXCEPT ![u] = l]
    /\ disturbed' = (disturbed \/ l.at < shown[u].at)

\* ... and sent.
SendList(u) ==
    /\ pc[u] \in {"login_send", "list_send"}
    /\ Receive(u, list[u])
    /\ list' = [list EXCEPT ![u] = NoList]
    /\ GoTo(u, IF pc[u] = "login_send" THEN "register" ELSE NextAfterList(u))
    /\ UNCHANGED <<table, accepting, push, requests>>

PublishAccept(u) ==
    /\ pc[u] = "publish_accept"
    /\ Publish(peer[u], "friend_accepted")
    /\ GoTo(u, "idle")
    /\ UNCHANGED <<table, accepting, list, registered, news, shown, requests>>

\* After _do_auth has sent the list the user is registered.
Register(u) ==
    /\ pc[u] = "register"
    /\ registered' = registered \cup {u}
    /\ GoTo(u, "idle")
    /\ UNCHANGED <<table, accepting, list, events, news, shown, requests, disturbed>>

-----------------------------------------------------------------------------
(* _handle_friend_event, in the thread of the subscription on u's server *)

\* The recipient, if it is registered, gets its list anew.
HandleFriendEvent(u) ==
    /\ events[u] # <<>>
    /\ news[u] = NoList
    /\ events' = [events EXCEPT ![u] = Tail(@)]
    /\ \/ /\ u \in registered
          /\ \E l \in ListRead(u) : Counted(l) /\ news' = [news EXCEPT ![u] = l]
          /\ UNCHANGED disturbed
       \/ /\ u \notin registered
          /\ disturbed' = (disturbed \/ pc[u] # "login")
          /\ UNCHANGED <<news, requests>>
    /\ UNCHANGED <<table, handler, registered, shown>>

SendNews(u) ==
    /\ news[u] # NoList
    /\ Receive(u, news[u])
    /\ news' = [news EXCEPT ![u] = NoList]
    /\ UNCHANGED <<table, handler, registered, events, requests>>

-----------------------------------------------------------------------------
Work(u) ==
    \/ Insert(u) \/ Update(u) \/ Upsert(u) \/ Delete(u) \/ Abort(u)
    \/ PublishRequest(u) \/ ReadList(u) \/ SendList(u) \/ PublishAccept(u) \/ Register(u)

Next ==
    \E u \in Users :
        \/ \E v \in Users \ {u} :
              SendRequest(u, v) \/ \E accept \in BOOLEAN : RespondToRequest(u, v, accept)
        \/ Work(u)
        \/ HandleFriendEvent(u) \/ SendNews(u)

\* Handler threads run.
Spec == Init /\ [][Next]_vars /\ \A u \in Users : WF_vars(Work(u))

-----------------------------------------------------------------------------
\* A friendship is a row each way, whatever requests and answers cross; only
\* the rejection of a request that is being accepted the other way round can
\* leave one of the two.
Mutual ==
    crossed \/ \A p \in Pairs : rows[p] = "accepted" => rows[<<p[2], p[1]>>] = "accepted"

\* The row send_request has looked for is still missing when it inserts it,
\* whoever writes rows in between: the INSERT meets no primary key.
InsertIsNew == \A u \in Users : pc[u] = "insert" => rows[<<u, peer[u]>>] = "none"

Quiet ==
    \A u \in Users : pc[u] = "idle" /\ events[u] = <<>> /\ news[u] = NoList

\* When all is done both users see the friends and requests they have, unless
\* an event was lost or came before the registration, an older list overtook
\* a newer one, or a rejection crossed; and except a user whose latest list is
\* what was left of a query that failed.
FriendsShown ==
    Quiet /\ ~disturbed /\ ~crossed =>
        \A u \in Users : \/ shown[u].failed
                        \/ [shown[u] EXCEPT !.at = commits] = GetFriends(u)

\* Every request is answered: two users who accept each other's requests lock
\* each other's row, and get over it.
RequestsEnd == \A u \in Users : pc[u] # "idle" ~> pc[u] = "idle"
=============================================================================
