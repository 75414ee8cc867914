---------------------------- MODULE RoomRouting -----------------------------
(***************************************************************************)
(* How the clients of one regular room find its chat server: the pin       *)
(* "room:<code>" in Redis, the Router and HealthChecker of the load        *)
(* balancer (loadbalancer/router.py, health_checker.py), the check and the *)
(* registration in RoomManager.join_room, its removal when the room is     *)
(* destroyed (server/room_manager.py), and the client's two ways to a      *)
(* server: asking the load balancer (client/ui/main_window.py) and         *)
(* reconnecting by itself (client/network/connection.py).  Clients come at *)
(* the same time, and a check of a live server may fail.                   *)
(*                                                                         *)
(* Rooms do not interact here, so one is modelled.  DM rooms are never     *)
(* pinned and are not.  The load the Router compares is left out: any      *)
(* server that is up may be the least loaded.                              *)
(***************************************************************************)
EXTENDS Naturals

CONSTANTS
    Servers, Clients,
    NoServer,      \* None
    MaxStale       \* bound: lost connections of a client pending at a server

ASSUME RoutingAssumption ==
    /\ NoServer \notin Servers
    /\ MaxStale \in Nat

VARIABLES
    alive,    \* the server processes that run
    seenUp,   \* ServerInfo.is_up of the load balancer
    pin,      \* the Redis key "room:<code>"
    seats,    \* room["clients"] on each server; {}: no such room there
    stale,    \* lost connections a server has not noticed, by client
    way,      \* how far a client has come on its way into the room
    conn,     \* the server it is connected to
    home,     \* _reconnect_host; NoServer: not _reconnect_enabled
    known,    \* the clients with the room in _reconnect_room_codes
    target,   \* the load balancer's answer
    astray    \* history: whether a client was sent elsewhere while the room
              \* had clients, or was already decided for elsewhere when
              \* another client entered

server == <<alive, seenUp, seats>>
client == <<conn, home, known, target>>
routingVars == <<server, pin, stale, way, client, astray>>

\* Between asking the load balancer, or reconnecting, and being let in
OnTheWay == {"assign", "answered", "routed", "checked"}

RoutingTypeOK ==
    /\ alive \in [Servers -> BOOLEAN]
    /\ seenUp \in [Servers -> BOOLEAN]
    /\ pin \in Servers \cup {NoServer}
    /\ seats \in [Servers -> SUBSET Clients]
    /\ stale \in [Servers -> [Clients -> 0 .. MaxStale]]
    /\ way \in [Clients -> {"idle", "in"} \cup OnTheWay]
    /\ conn \in [Clients -> Servers \cup {NoServer}]
    /\ home \in [Clients -> Servers \cup {NoServer}]
    /\ known \in SUBSET Clients
    /\ target \in [Clients -> Servers \cup {NoServer}]
    /\ astray \in BOOLEAN
    /\ \A c \in Clients :
          /\ way[c] \in {"assign", "answered"} => target[c] \in Servers
          /\ way[c] \in {"routed", "checked", "in"} => conn[c] \in Servers

\* Every client has logged in, at some server.  No server has been checked, or
\* all have.
RoutingInit ==
    /\ alive = [sv \in Servers |-> TRUE]
    /\ seenUp \in {[sv \in Servers |-> b] : b \in BOOLEAN}
    /\ pin = NoServer
    /\ seats = [sv \in Servers |-> {}]
    /\ stale = [sv \in Servers |-> [c \in Clients |-> 0]]
    /\ way = [c \in Clients |-> "idle"]
    /\ conn \in [Clients -> Servers]
    /\ home = conn
    /\ known = {}
    /\ target = [c \in Clients |-> NoServer]
    /\ astray = FALSE

ClientGoes(c, place) == way' = [way EXCEPT ![c] = place]

\* The server that c is bound for by what it, or the load balancer for it, has
\* read of the pin, when the reading is not acted upon yet
Decided(c) ==
    IF way[c] = "assign" THEN {target[c]}
    ELSE IF way[c] = "checked" THEN {conn[c]} ELSE {}

-----------------------------------------------------------------------------
(* Mutants of the definitions below, for testing the properties *)

\* The server takes any room as its own.
JoinCheckAnyway(c) ==
    /\ way[c] = "routed"
    /\ ClientGoes(c, "checked")
    /\ UNCHANGED <<server, pin, stale, client, astray>>

\* The pin is deleted with every client that goes.
UnseatUnpins(sv, c) ==
    /\ seats' = [seats EXCEPT ![sv] = @ \ {c}]
    /\ pin' = IF c \in seats[sv] THEN NoServer ELSE pin

-----------------------------------------------------------------------------
(* The load balancer *)

\* request_server and Router._resolve.  The pin is followed if its server is
\* up; otherwise a server is picked, to be pinned in the next step.  With no
\* server up the client gets an error.
Lookup(c) ==
    /\ way[c] = "idle"
    /\ LET UpServers == {sv \in Servers : seenUp[sv]} IN
       \/ /\ pin \in UpServers
          /\ target' = [target EXCEPT ![c] = pin]
          /\ ClientGoes(c, "answered")
          /\ UNCHANGED astray
       \/ /\ pin \notin UpServers
          /\ \E sv \in UpServers : target' = [target EXCEPT ![c] = sv]
          /\ ClientGoes(c, "assign")
          /\ astray' = (astray \/ (pin \in Servers /\ seats[pin] # {}))
    /\ UNCHANGED <<server, pin, stale, conn, home, known>>

\* Router._set_room_server, whatever the pin is by now
Assign(c) ==
    /\ way[c] = "assign"
    /\ pin' = target[c]
    /\ ClientGoes(c, "answered")
    /\ UNCHANGED <<server, stale, client, astray>>

\* HealthChecker._check_one, every few seconds.  A live server may fail it too,
\* by answering late.
CheckHealth(sv) ==
    /\ \E ok \in {alive[sv], FALSE} : seenUp' = [seenUp EXCEPT ![sv] = ok]
    /\ UNCHANGED <<alive, seats, pin, stale, way, client, astray>>

-----------------------------------------------------------------------------
(* The client *)

\* The server of c's connection is left to find out that it is gone.
Abandon(c) ==
    stale' = [sv \in Servers |->
                 [stale[sv] EXCEPT ![c] = IF sv = conn[c] THEN @ + 1 ELSE @]]

MayAbandon(c) == conn[c] \in Servers => stale[conn[c]][c] < MaxStale

\* _JoinRoomWorker: the JOIN_ROOM goes over the connection there is if it is
\* the right one; otherwise the client moves, by ConnectionManager.disconnect
\* (which also ends _reconnect_enabled, for good) and connect.
Connect(c) ==
    /\ way[c] = "answered"
    /\ \/ /\ conn[c] = target[c]
          /\ ClientGoes(c, "routed")
          /\ UNCHANGED <<stale, conn, home>>
       \/ /\ conn[c] # target[c]
          /\ MayAbandon(c)
          /\ Abandon(c)
          /\ home' = [home EXCEPT ![c] = NoServer]
          /\ \/ /\ alive[target[c]]
                /\ conn' = [conn EXCEPT ![c] = target[c]]
                /\ ClientGoes(c, "routed")
             \/ /\ ~alive[target[c]]
                /\ conn' = [conn EXCEPT ![c] = NoServer]
                /\ ClientGoes(c, "idle")
    /\ UNCHANGED <<server, pin, known, target, astray>>

\* A new room, or an invitation accepted: JOIN_ROOM over the present connection,
\* without the load balancer
JoinDirectly(c) ==
    /\ way[c] = "idle"
    /\ conn[c] \in Servers
    /\ ClientGoes(c, "routed")
    /\ UNCHANGED <<server, pin, stale, client, astray>>

\* The connection is lost.  (One lost while the server handles a JOIN_ROOM is
\* one lost right after that.)
Drop(c) ==
    /\ way[c] \in {"idle", "in"}
    /\ conn[c] \in Servers
    /\ MayAbandon(c)
    /\ Abandon(c)
    /\ conn' = [conn EXCEPT ![c] = NoServer]
    /\ ClientGoes(c, "idle")
    /\ UNCHANGED <<server, pin, home, known, target, astray>>

\* _reconnect_loop: back to the server of the login, past the load balancer,
\* and into the rooms of _reconnect_room_codes
Reconnect(c) ==
    /\ way[c] = "idle"
    /\ conn[c] = NoServer
    /\ home[c] \in {sv \in Servers : alive[sv]}
    /\ conn' = [conn EXCEPT ![c] = home[c]]
    /\ ClientGoes(c, IF c \in known THEN "routed" ELSE "idle")
    /\ UNCHANGED <<server, pin, stale, home, known, target, astray>>

\* ... until _MAX_RECONNECT_ATTEMPTS have failed.
GiveUp(c) ==
    /\ way[c] = "idle"
    /\ conn[c] = NoServer
    /\ home[c] \in Servers
    /\ home' = [home EXCEPT ![c] = NoServer]
    /\ UNCHANGED <<server, pin, stale, way, conn, known, target, astray>>

\* The program is started again: request_server without a room, then
\* enable_reconnect with the server it names.
Login(c) ==
    /\ way[c] = "idle"
    /\ conn[c] = NoServer
    /\ \E sv \in Servers :
          /\ seenUp[sv]
          /\ alive[sv]
          /\ conn' = [conn EXCEPT ![c] = sv]
          /\ home' = [home EXCEPT ![c] = sv]
    /\ known' = known \ {c}
    /\ UNCHANGED <<server, pin, stale, way, target, astray>>

-----------------------------------------------------------------------------
(* The chat servers *)

\* join_room asks Redis where the room is.  A client at the wrong server gets
\* error 307 and is left to try again.
JoinCheck(c) ==
    /\ way[c] = "routed"
    /\ ClientGoes(c, IF pin \in {NoServer, conn[c]} THEN "checked" ELSE "idle")
    /\ UNCHANGED <<server, pin, stale, client, astray>>

\* ... and lets the client in, in a critical section of its own.  A room that
\* is not there is created and pinned.  ROOM_STATE makes the client remember
\* the room.
JoinEnter(c) ==
    /\ way[c] = "checked"
    /\ pin' = IF seats[conn[c]] = {} THEN conn[c] ELSE pin
    /\ seats' = [seats EXCEPT ![conn[c]] = @ \cup {c}]
    /\ known' = known \cup {c}
    /\ ClientGoes(c, "in")
    /\ astray' = (astray \/ \E d \in Clients \ {c} : Decided(d) \ {conn[c]} # {})
    /\ UNCHANGED <<alive, seenUp, stale, conn, home, target>>

\* leave_room and remove_client_from_all_rooms: the last client's room is
\* destroyed and the pin deleted, whatever it says.
Unseat(sv, c) ==
    /\ seats' = [seats EXCEPT ![sv] = @ \ {c}]
    /\ pin' = IF seats[sv] = {c} THEN NoServer ELSE pin

\* The client leaves; it does not take the room off _reconnect_room_codes.
Leave(c) ==
    /\ way[c] = "in"
    /\ Unseat(conn[c], c)
    /\ ClientGoes(c, "idle")
    /\ UNCHANGED <<alive, seenUp, stale, client, astray>>

\* The server notices a lost connection: _cleanup takes the user out of the
\* room, also if the user has joined again.
Cleanup(sv, c) ==
    /\ stale[sv][c] > 0
    /\ stale' = [stale EXCEPT ![sv][c] = @ - 1]
    /\ Unseat(sv, c)
    /\ ClientGoes(c, IF way[c] = "in" /\ conn[c] = sv THEN "idle" ELSE way[c])
    /\ UNCHANGED <<alive, seenUp, client, astray>>

\* A server dies with its rooms and its connections; their pins stay.
Crash(sv) ==
    /\ alive[sv]
    /\ alive' = [alive EXCEPT ![sv] = FALSE]
    /\ seats' = [seats EXCEPT ![sv] = {}]
    /\ stale' = [stale EXCEPT ![sv] = [c \in Clients |-> 0]]
    /\ way' = [c \in Clients |->
                 IF conn[c] = sv /\ way[c] \in {"routed", "checked", "in"}
                 THEN "idle" ELSE way[c]]
    /\ conn' = [c \in Clients |-> IF conn[c] = sv THEN NoServer ELSE conn[c]]
    /\ UNCHANGED <<seenUp, pin, home, known, target, astray>>

\* ... and is started again, which the load balancer learns at its next check.
Restart(sv) ==
    /\ ~alive[sv]
    /\ alive' = [alive EXCEPT ![sv] = TRUE]
    /\ UNCHANGED <<seenUp, seats, pin, stale, way, client, astray>>

-----------------------------------------------------------------------------
RoutingNext ==
    \/ \E c \in Clients :
          \/ Lookup(c) \/ Assign(c) \/ Connect(c) \/ JoinDirectly(c)
          \/ Drop(c) \/ Reconnect(c) \/ GiveUp(c) \/ Login(c)
          \/ JoinCheck(c) \/ JoinEnter(c) \/ Leave(c)
    \/ \E sv \in Servers :
          \/ CheckHealth(sv) \/ Crash(sv) \/ Restart(sv)
          \/ \E c \in Clients : Cleanup(sv, c)

RoutingSpec == RoutingInit /\ [][RoutingNext]_routingVars

-----------------------------------------------------------------------------
\* docs/ARCHITECTURE.md: "Same-room clients must share the same server".  Over
\* crashes, restarts, lost connections and clients that come together, there
\* are two ways in which they do not: the load balancer turns a client away from
\* the server of a room that has clients, which it holds for down, or a client
\* is let in while another one's reading of the pin sends it elsewhere.
OneServer ==
    ~astray => \A s1, s2 \in Servers : seats[s1] # {} /\ seats[s2] # {} => s1 = s2

\* Nor is a room with clients without its pin, but for these two: neither the
\* last client of an earlier incarnation nor the cleanup of a lost connection
\* deletes a pin that newcomers still need, and no server has the pin but not
\* the room while another has the room.
PinNamesRoom ==
    ~astray => \A sv \in Servers : seats[sv] # {} => pin = sv

-----------------------------------------------------------------------------
(* What the documentation promises and the code does not keep *)

\* docs/ARCHITECTURE.md: "Same-room clients must share the same server"
AlwaysOneServer ==
    \A s1, s2 \in Servers : seats[s1] # {} /\ seats[s2] # {} => s1 = s2
=============================================================================
