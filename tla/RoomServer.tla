----------------------------- MODULE RoomServer -----------------------------
(***************************************************************************)
(* One chat server: the registry of connected clients (server/main.py),    *)
(* the RoomManager (server/room_manager.py), the per-room ScreenRelayState *)
(* and CameraState (server/features), and the ClientHandler threads        *)
(* (server/client_handler.py) that work on them.                           *)
(*                                                                         *)
(* Every connection is a thread.  A step is what a thread does between two *)
(* places where another thread can get in: the locks of the RoomManager,   *)
(* of the room's state objects and of the client registry are taken and    *)
(* released call by call, never over a whole handler, so a handler that    *)
(* makes several calls takes several steps.  Looking a state object up and *)
(* calling it is one step: the object can only be replaced in between by a *)
(* room that was destroyed, and then the call has no visible effect.       *)
(*                                                                         *)
(* Packets sent to clients carry no server state and are left out, except  *)
(* for the answer to JOIN_ROOM.  Requests that are refused before they     *)
(* change anything (400/403/404/409/410, a redirect, a failing database)   *)
(* are steps that change nothing.                                          *)
(***************************************************************************)
EXTENDS FiniteSets

CONSTANTS
    Users,       \* user ids
    Sessions,    \* ClientHandler threads
    UserOf,      \* the user each connection logs in as
    Rooms,       \* room codes
    DmRooms,     \* those that start with "DM-"
    NoUser,      \* None, where a user id, a handler or a room code may be
    NoSession,
    NoRoom,
    RedisFails   \* TRUE: Redis calls of the client registry may raise

ASSUME ConstantsAssumption ==
    /\ UserOf \in [Sessions -> Users]
    /\ DmRooms \subseteq Rooms
    /\ NoUser \notin Users
    /\ NoSession \notin Sessions
    /\ NoRoom \notin Rooms
    /\ RedisFails \in BOOLEAN

VARIABLES
    \* ClientHandler
    pc,            \* where the thread is
    running,       \* _running, and the socket still open
    currentRooms,  \* _current_rooms
    room,          \* the room of the packet, or of the cleanup loop's turn
    target,        \* target_user_id of the REMOTE_GRANT in hand
    todo,          \* rooms the cleanup loop has still to visit
    unanswered,    \* rooms joined by a JOIN_ROOM that got no answer at all
    \* RoomManager._rooms
    open,          \* its keys
    clients,       \* room["clients"]: user id -> handler
    screen,        \* room["screen"]: ScreenRelayState._share
    camera,        \* room["camera"]: CameraState._active
    audio,         \* room["audio"]: participants of the mixer
    \* ChatServer and Redis
    registered,    \* _clients: user id -> handler
    onlineUsers    \* the Redis set "online_users"

handlerVars == <<currentRooms, room, target, todo, unanswered>>
roomVars == <<open, clients, screen, camera, audio>>
registryVars == <<registered, onlineUsers>>
vars == <<pc, running, handlerVars, roomVars, registryVars>>

-----------------------------------------------------------------------------
(* Types *)

Cleaning == {"cleanup", "next_room", "cleanup_clear", "cleanup_camera",
             "unregister", "offline"}
Leaving == {"leave_clear", "leave_camera", "leave_room"}
Step == {"gone", "auth", "register", "announce", "read", "joined", "describe",
         "grant"} \cup Leaving \cup Cleaning

\* ... of these the ones in the middle of work on one room
InHandler == {"joined", "describe", "grant", "cleanup_clear", "cleanup_camera"}
             \cup Leaving

ShareInfo == [sharer: Users \cup {NoUser}, controller: Users \cup {NoUser}]
Share(u, c) == [sharer |-> u, controller |-> c]
NoShare == Share(NoUser, NoUser)

TypeOK ==
    /\ pc \in [Sessions -> Step]
    /\ running \in [Sessions -> BOOLEAN]
    /\ currentRooms \in [Sessions -> SUBSET Rooms]
    /\ room \in [Sessions -> Rooms \cup {NoRoom}]
    /\ \A s \in Sessions : pc[s] \in InHandler => room[s] \in Rooms
    /\ target \in [Sessions -> Users \cup {NoUser}]
    /\ todo \in [Sessions -> SUBSET Rooms]
    /\ unanswered \in [Sessions -> SUBSET Rooms]
    /\ open \in SUBSET Rooms
    /\ clients \in [Rooms -> [Users -> Sessions \cup {NoSession}]]
    /\ screen \in [Rooms -> ShareInfo]
    /\ camera \in [Rooms -> SUBSET Users]
    /\ audio \in [Rooms -> SUBSET Users]
    /\ registered \in [Users -> Sessions \cup {NoSession}]
    /\ onlineUsers \in SUBSET Users

Init ==
    /\ pc = [s \in Sessions |-> "gone"]
    /\ running = [s \in Sessions |-> FALSE]
    /\ currentRooms = [s \in Sessions |-> {}]
    /\ room = [s \in Sessions |-> NoRoom]
    /\ target = [s \in Sessions |-> NoUser]
    /\ todo = [s \in Sessions |-> {}]
    /\ unanswered = [s \in Sessions |-> {}]
    /\ open = {}
    /\ clients = [r \in Rooms |-> [u \in Users |-> NoSession]]
    /\ screen = [r \in Rooms |-> NoShare]
    /\ camera = [r \in Rooms |-> {}]
    /\ audio = [r \in Rooms |-> {}]
    /\ registered = [u \in Users |-> NoSession]
    /\ onlineUsers = {}

-----------------------------------------------------------------------------
(* Helpers *)

\* The thread goes on at step.
GoTo(s, step) == pc' = [pc EXCEPT ![s] = step]

\* The handler of room r goes on at step.
Handle(s, r, step) ==
    /\ GoTo(s, step)
    /\ room' = [room EXCEPT ![s] = r]

\* The handler is done: back to read_packet in _main_loop.  The test of
\* _running is part of Drop, which is enabled there whatever the socket does.
Return(s) == Handle(s, NoRoom, "read")

\* A packet for room r has been read.  (A thread that is kicked with a packet
\* in its hands is taken not to have read it.)
Receives(s) == pc[s] = "read" /\ running[s]

\* _resolve_screen_room and its copies in the other handlers: the sender is
\* in the room by its own account, and the room is active here.
InRoom(s, r) ==
    /\ Receives(s)
    /\ r \in currentRooms[s]
    /\ r \in open

IsMember(r, u) == clients[r][u] # NoSession

\* ScreenRelayState.stop_share / stop_if_sharer
StopShare(r, u) ==
    IF screen[r].sharer = u THEN [screen EXCEPT ![r] = NoShare] ELSE screen

\* ScreenRelayState.set_controller
SetController(r, u, c) ==
    IF screen[r].sharer = u THEN [screen EXCEPT ![r] = Share(u, c)] ELSE screen

\* ScreenRelayState.clear_controller_if
ClearControllerIf(r, u) ==
    IF screen[r].sharer # NoUser /\ screen[r].controller = u
    THEN [screen EXCEPT ![r] = Share(@.sharer, NoUser)]
    ELSE screen

\* The critical section of RoomManager.join_room: the handler takes the
\* user's entry whoever had it before, and a missing room is created.
TakeSeat(s, r) ==
    /\ open' = open \cup {r}
    /\ clients' = [clients EXCEPT ![r][UserOf[s]] = s]
    /\ UNCHANGED <<screen, camera, audio>>

\* Mutant of Emptied: the room is tested before the user is popped.
EmptiedEarly(R, u) == {r \in R : \A v \in Users : ~IsMember(r, v)}

\* The critical section of leave_room, and one turn of the loop in
\* remove_client_from_all_rooms for each room of R: the user leaves the mixer,
\* the cameras and the clients, and a room left empty is destroyed together
\* with its state objects.
Emptied(R, u) == {r \in R : \A v \in Users \ {u} : ~IsMember(r, v)}

RemoveUser(u, R) ==
    /\ open' = open \ Emptied(R, u)
    /\ clients' = [r \in Rooms |->
                      IF r \in R THEN [clients[r] EXCEPT ![u] = NoSession]
                                 ELSE clients[r]]
    /\ screen' = [r \in Rooms |->
                      IF r \in Emptied(R, u) THEN NoShare ELSE screen[r]]
    /\ camera' = [r \in Rooms |->
                      IF r \in Emptied(R, u) THEN {}
                      ELSE IF r \in R THEN camera[r] \ {u} ELSE camera[r]]
    /\ audio' = [r \in Rooms |->
                      IF r \in Emptied(R, u) THEN {}
                      ELSE IF r \in R THEN audio[r] \ {u} ELSE audio[r]]

-----------------------------------------------------------------------------
(* Mutants of the actions below, for testing the properties *)

\* The room is not discarded from _current_rooms.
LeaveCameraKeeps(s) ==
    /\ pc[s] = "leave_camera"
    /\ camera' = [camera EXCEPT ![room[s]] = @ \ {UserOf[s]}]
    /\ GoTo(s, "leave_room")
    /\ UNCHANGED <<running, handlerVars, open, clients, screen, audio, registryVars>>

\* The lazily joined room is not added to _current_rooms.
LazyJoinForgets(s, r) ==
    /\ Receives(s)
    /\ r \in DmRooms
    /\ ~IsMember(r, UserOf[s])
    /\ TakeSeat(s, r)
    /\ UNCHANGED <<pc, running, handlerVars, registryVars>>

\* start_share replaces whatever share there is.
ScreenStartAnyway(s, r) ==
    /\ InRoom(s, r)
    /\ screen' = [screen EXCEPT ![r] = Share(UserOf[s], NoUser)]
    /\ UNCHANGED <<pc, running, handlerVars, open, clients, camera, audio, registryVars>>

\* The handler does not ask whether the sender is in the room.
CameraStartAnyone(s, r) ==
    /\ Receives(s)
    /\ r \in open
    /\ camera' = [camera EXCEPT ![r] = @ \cup {UserOf[s]}]
    /\ UNCHANGED <<pc, running, handlerVars, open, clients, screen, audio, registryVars>>

\* The cleanup loop finds _current_rooms already cleared.
CleanupBeginEmpty(s) ==
    /\ pc[s] = "cleanup"
    /\ GoTo(s, "next_room")
    /\ running' = [running EXCEPT ![s] = FALSE]
    /\ UNCHANGED <<handlerVars, roomVars, registryVars>>

\* DM rooms are left out of remove_client_from_all_rooms.
CleanupRemoveRegular(s) ==
    /\ pc[s] = "next_room"
    /\ todo[s] = {}
    /\ RemoveUser(UserOf[s], {r \in open \ DmRooms : IsMember(r, UserOf[s])})
    /\ GoTo(s, "unregister")
    /\ UNCHANGED <<running, handlerVars, registryVars>>

\* SREM is forgotten.
UnregisterOnlineForgets(s) ==
    /\ pc[s] = "offline"
    /\ GoTo(s, "gone")
    /\ currentRooms' = [currentRooms EXCEPT ![s] = {}]
    /\ unanswered' = [unanswered EXCEPT ![s] = {}]
    /\ UNCHANGED <<running, room, target, todo, roomVars, registryVars>>

-----------------------------------------------------------------------------
(* Connecting *)

\* The Acceptor starts a handler thread for a new connection.  Thread names
\* are used again once a thread has ended.
Accept(s) ==
    /\ pc[s] = "gone"
    /\ GoTo(s, "auth")
    /\ running' = [running EXCEPT ![s] = TRUE]
    /\ currentRooms' = [currentRooms EXCEPT ![s] = {}]
    /\ unanswered' = [unanswered EXCEPT ![s] = {}]
    /\ UNCHANGED <<room, target, todo, roomVars, registryVars>>

\* _do_auth succeeds: user_id is set, the thread is not registered yet.
Authenticate(s) ==
    /\ pc[s] = "auth"
    /\ GoTo(s, "register")
    /\ UNCHANGED <<running, handlerVars, roomVars, registryVars>>

\* A health query, a failed handshake or a failed login: user_id is still
\* None, so _cleanup only closes the socket.
Reject(s) ==
    /\ pc[s] = "auth"
    /\ GoTo(s, "gone")
    /\ running' = [running EXCEPT ![s] = FALSE]
    /\ UNCHANGED <<handlerVars, roomVars, registryVars>>

\* ChatServer.register_client under _clients_lock: an older session of the
\* same user is told to stop (its thread is not waited for).
RegisterClient(s) ==
    LET old == registered[UserOf[s]] IN
    /\ pc[s] = "register"
    /\ GoTo(s, "announce")
    /\ running' = IF old \in Sessions \ {s}
                  THEN [running EXCEPT ![old] = FALSE] ELSE running
    /\ registered' = [registered EXCEPT ![UserOf[s]] = s]
    /\ UNCHANGED <<handlerVars, roomVars, onlineUsers>>

\* The rest of register_client: SADD online_users, then the main loop.
\* An exception of the Redis client ends the thread instead.
RegisterOnline(s) ==
    /\ pc[s] = "announce"
    /\ \/ /\ GoTo(s, "read")
          /\ onlineUsers' = onlineUsers \cup {UserOf[s]}
       \/ /\ RedisFails
          /\ GoTo(s, "cleanup")
          /\ UNCHANGED onlineUsers
    /\ UNCHANGED <<running, handlerVars, roomVars, registered>>

-----------------------------------------------------------------------------
(* Packet handlers *)

\* _handle_join_room: RoomManager.join_room lets the user in.
JoinRoom(s, r) ==
    /\ Receives(s)
    /\ TakeSeat(s, r)
    /\ Handle(s, r, "joined")
    /\ UNCHANGED <<running, currentRooms, target, todo, unanswered, registryVars>>

\* The handler notes the room and asks screen.is_sharing().  With no share
\* to describe it goes on to answer ROOM_STATE.
JoinNoted(s) ==
    LET r == room[s] IN
    /\ pc[s] = "joined"
    /\ currentRooms' = [currentRooms EXCEPT ![s] = @ \cup {r}]
    /\ IF r \in open /\ screen[r].sharer # NoUser
       THEN GoTo(s, "describe") /\ UNCHANGED room
       ELSE Return(s)
    /\ UNCHANGED <<running, target, todo, unanswered, roomVars, registryVars>>

\* screen.get_state() describes the share in ROOM_STATE.  When it returns
\* None the attribute access raises, _dispatch logs it, and the client gets
\* neither ROOM_STATE nor MESSAGE_HISTORY nor WHITEBOARD_SYNC nor an ERROR.
JoinDescribed(s) ==
    LET r == room[s] IN
    /\ pc[s] = "describe"
    /\ unanswered' = IF screen[r].sharer = NoUser
                     THEN [unanswered EXCEPT ![s] = @ \cup {r}] ELSE unanswered
    /\ Return(s)
    /\ UNCHANGED <<running, currentRooms, target, todo, roomVars, registryVars>>

\* _handle_chat_message for a DM room the sender is not in: a lazy join.
\* Any other chat message leaves this state alone.
LazyJoin(s, r) ==
    /\ Receives(s)
    /\ r \in DmRooms
    /\ ~IsMember(r, UserOf[s])
    /\ TakeSeat(s, r)
    /\ currentRooms' = [currentRooms EXCEPT ![s] = @ \cup {r}]
    /\ UNCHANGED <<pc, running, room, target, todo, unanswered, registryVars>>

\* _handle_leave_room begins: stop_if_sharer.  Nothing asks whether the
\* sender is in the room.
LeaveStop(s, r) ==
    /\ Receives(s)
    /\ screen' = StopShare(r, UserOf[s])
    /\ Handle(s, r, IF screen[r].sharer = UserOf[s]
                    THEN "leave_camera" ELSE "leave_clear")
    /\ UNCHANGED <<running, currentRooms, target, todo, unanswered,
                   open, clients, camera, audio, registryVars>>

\* ... clear_controller_if, when the user was not the sharer
LeaveClear(s) ==
    /\ pc[s] = "leave_clear"
    /\ screen' = ClearControllerIf(room[s], UserOf[s])
    /\ GoTo(s, "leave_camera")
    /\ UNCHANGED <<running, handlerVars, open, clients, camera, audio, registryVars>>

\* ... stop_camera, and the room is forgotten
LeaveCamera(s) ==
    /\ pc[s] = "leave_camera"
    /\ camera' = [camera EXCEPT ![room[s]] = @ \ {UserOf[s]}]
    /\ currentRooms' = [currentRooms EXCEPT ![s] = @ \ {room[s]}]
    /\ GoTo(s, "leave_room")
    /\ UNCHANGED <<running, room, target, todo, unanswered,
                   open, clients, screen, audio, registryVars>>

\* ... RoomManager.leave_room
LeaveRoom(s) ==
    /\ pc[s] = "leave_room"
    /\ RemoveUser(UserOf[s], {room[s]} \cap open)
    /\ Return(s)
    /\ unanswered' = [unanswered EXCEPT ![s] = @ \ {room[s]}]
    /\ UNCHANGED <<running, currentRooms, target, todo, registryVars>>

\* _handle_screen_start: start_share succeeds.
ScreenStart(s, r) ==
    /\ InRoom(s, r)
    /\ screen[r].sharer = NoUser
    /\ screen' = [screen EXCEPT ![r] = Share(UserOf[s], NoUser)]
    /\ UNCHANGED <<pc, running, handlerVars, open, clients, camera, audio, registryVars>>

\* _handle_screen_stop
ScreenStop(s, r) ==
    /\ InRoom(s, r)
    /\ screen' = StopShare(r, UserOf[s])
    /\ UNCHANGED <<pc, running, handlerVars, open, clients, camera, audio, registryVars>>

\* _handle_remote_grant with granted = true, up to the lookup of the target
\* among the room's clients
RemoteGrant(s, r, t) ==
    /\ InRoom(s, r)
    /\ screen[r].sharer = UserOf[s]
    /\ IsMember(r, t)
    /\ Handle(s, r, "grant")
    /\ target' = [target EXCEPT ![s] = t]
    /\ UNCHANGED <<running, currentRooms, todo, unanswered, roomVars, registryVars>>

\* ... and set_controller, which asks again who the sharer is, and not
\* whether the target is still there
RemoteGrantSet(s) ==
    /\ pc[s] = "grant"
    /\ screen' = SetController(room[s], UserOf[s], target[s])
    /\ target' = [target EXCEPT ![s] = NoUser]
    /\ Return(s)
    /\ UNCHANGED <<running, currentRooms, todo, unanswered,
                   open, clients, camera, audio, registryVars>>

\* _handle_remote_grant with granted = false: deny or revoke
RemoteRevoke(s, r) ==
    /\ InRoom(s, r)
    /\ screen' = SetController(r, UserOf[s], NoUser)
    /\ UNCHANGED <<pc, running, handlerVars, open, clients, camera, audio, registryVars>>

\* _handle_camera_start
CameraStart(s, r) ==
    /\ InRoom(s, r)
    /\ camera' = [camera EXCEPT ![r] = @ \cup {UserOf[s]}]
    /\ UNCHANGED <<pc, running, handlerVars, open, clients, screen, audio, registryVars>>

\* _handle_camera_stop
CameraStop(s, r) ==
    /\ InRoom(s, r)
    /\ camera' = [camera EXCEPT ![r] = @ \ {UserOf[s]}]
    /\ UNCHANGED <<pc, running, handlerVars, open, clients, screen, audio, registryVars>>

\* _handle_audio_chunk: the first chunk makes the sender a participant of
\* the room's mixer.
AudioChunk(s, r) ==
    /\ InRoom(s, r)
    /\ audio' = [audio EXCEPT ![r] = @ \cup {UserOf[s]}]
    /\ UNCHANGED <<pc, running, handlerVars, open, clients, screen, camera, registryVars>>

-----------------------------------------------------------------------------
(* Disconnecting *)

\* read_packet fails or times out, or _running was reset: the loop ends.
Drop(s) ==
    /\ pc[s] = "read"
    /\ GoTo(s, "cleanup")
    /\ UNCHANGED <<running, handlerVars, roomVars, registryVars>>

\* _cleanup takes its list of rooms.
CleanupBegin(s) ==
    /\ pc[s] = "cleanup"
    /\ GoTo(s, "next_room")
    /\ running' = [running EXCEPT ![s] = FALSE]
    /\ todo' = [todo EXCEPT ![s] = currentRooms[s]]
    /\ UNCHANGED <<currentRooms, room, target, unanswered, roomVars, registryVars>>

\* One turn of its loop begins: stop_if_sharer.
CleanupStop(s, r) ==
    /\ pc[s] = "next_room"
    /\ r \in todo[s]
    /\ todo' = [todo EXCEPT ![s] = @ \ {r}]
    /\ screen' = StopShare(r, UserOf[s])
    /\ Handle(s, r, IF screen[r].sharer = UserOf[s]
                    THEN "cleanup_camera" ELSE "cleanup_clear")
    /\ UNCHANGED <<running, currentRooms, target, unanswered,
                   open, clients, camera, audio, registryVars>>

\* ... elif clear_controller_if
CleanupClear(s) ==
    /\ pc[s] = "cleanup_clear"
    /\ screen' = ClearControllerIf(room[s], UserOf[s])
    /\ GoTo(s, "cleanup_camera")
    /\ UNCHANGED <<running, handlerVars, open, clients, camera, audio, registryVars>>

\* ... stop_camera
CleanupCamera(s) ==
    /\ pc[s] = "cleanup_camera"
    /\ camera' = [camera EXCEPT ![room[s]] = @ \ {UserOf[s]}]
    /\ Handle(s, NoRoom, "next_room")
    /\ UNCHANGED <<running, currentRooms, target, todo, unanswered,
                   open, clients, screen, audio, registryVars>>

\* remove_client_from_all_rooms(user_id), whichever handler holds the entries
CleanupRemove(s) ==
    /\ pc[s] = "next_room"
    /\ todo[s] = {}
    /\ RemoveUser(UserOf[s], {r \in open : IsMember(r, UserOf[s])})
    /\ GoTo(s, "unregister")
    /\ UNCHANGED <<running, handlerVars, registryVars>>

\* ChatServer.unregister_client under _clients_lock
UnregisterClient(s) ==
    /\ pc[s] = "unregister"
    /\ registered' = [registered EXCEPT ![UserOf[s]] = NoSession]
    /\ GoTo(s, "offline")
    /\ UNCHANGED <<running, handlerVars, roomVars, onlineUsers>>

\* ... and SREM online_users; the thread ends either way.
UnregisterOnline(s) ==
    /\ pc[s] = "offline"
    /\ \/ onlineUsers' = onlineUsers \ {UserOf[s]}
       \/ RedisFails /\ UNCHANGED onlineUsers
    /\ GoTo(s, "gone")
    /\ currentRooms' = [currentRooms EXCEPT ![s] = {}]
    /\ unanswered' = [unanswered EXCEPT ![s] = {}]
    /\ UNCHANGED <<running, room, target, todo, roomVars, registered>>

-----------------------------------------------------------------------------
\* What a thread does by itself once a packet or a lost connection started it
ThreadStep(s) ==
    \/ RegisterClient(s) \/ RegisterOnline(s)
    \/ JoinNoted(s) \/ JoinDescribed(s)
    \/ LeaveClear(s) \/ LeaveCamera(s) \/ LeaveRoom(s)
    \/ RemoteGrantSet(s)
    \/ CleanupBegin(s) \/ (\E r \in Rooms : CleanupStop(s, r))
    \/ CleanupClear(s) \/ CleanupCamera(s) \/ CleanupRemove(s)
    \/ UnregisterClient(s) \/ UnregisterOnline(s)

\* What the client and the network do
PacketStep(s, r) ==
    \/ JoinRoom(s, r) \/ LazyJoin(s, r) \/ LeaveStop(s, r)
    \/ ScreenStart(s, r) \/ ScreenStop(s, r)
    \/ (\E t \in Users : RemoteGrant(s, r, t)) \/ RemoteRevoke(s, r)
    \/ CameraStart(s, r) \/ CameraStop(s, r) \/ AudioChunk(s, r)

Next ==
    \E s \in Sessions :
        \/ Accept(s) \/ Authenticate(s) \/ Reject(s) \/ Drop(s)
        \/ ThreadStep(s)
        \/ \E r \in Rooms : PacketStep(s, r)

Spec == Init /\ [][Next]_vars

-----------------------------------------------------------------------------
(* Properties of every run *)

\* The threads whose _cleanup has taken their user out of all rooms, or that
\* have not come as far as the main loop.
NotServing == {"gone", "auth", "register", "announce", "unregister", "offline"}

\* No broadcast, push or grant can reach for a handler whose thread is over:
\* room["clients"] and ChatServer._clients only hold threads of the right user
\* that have yet to pass through their own cleanup, however logins, kicks,
\* joins and cleanups of the same user interleave.
NoDeadHandler ==
    \A s \in Sessions :
        /\ \A r \in Rooms, u \in Users :
              clients[r][u] = s => UserOf[s] = u /\ pc[s] \notin NotServing
        /\ \A u \in Users :
              registered[u] = s => /\ UserOf[s] = u
                                   /\ pc[s] \notin {"gone", "auth", "register", "offline"}

\* RoomManager keeps a room exactly as long as somebody is in it: a room that
\* lost its last client would keep its mixer, whiteboard and pin forever, and
\* one destroyed with a client inside would cut that client off.
RoomsAreOccupied ==
    \A r \in Rooms : r \in open <=> \E u \in Users : IsMember(r, u)

\* A handler between two packets knows every room it is entered in: _cleanup
\* and the permission checks only look at _current_rooms.
NoForgottenRoom ==
    \A s \in Sessions, r \in Rooms :
        pc[s] = "read" /\ clients[r][UserOf[s]] = s => r \in currentRooms[s]

\* A share is never taken over from its sharer, and neither a new share nor
\* an ended one carries a grant along.
NoTakeover ==
    [][\A r \in Rooms :
          screen'[r].sharer # screen[r].sharer =>
              /\ NoUser \in {screen[r].sharer, screen'[r].sharer}
              /\ screen'[r].controller = NoUser]_screen

-----------------------------------------------------------------------------
(* Properties of a server on which no user has two sessions at a time *)

SingleSession ==
    \A s1, s2 \in Sessions : UserOf[s1] = UserOf[s2] => s1 = s2

\* The share, every active camera and every audio participant of a room belong
\* to users who are in it: cleanup and leave take them away in the right order.
OwnersAreMembers ==
    \A r \in Rooms, u \in Users :
        \/ screen[r].sharer = u
        \/ u \in camera[r]
        \/ u \in audio[r]
        => IsMember(r, u)

\* Between two packets a handler's own list of rooms, which is what its
\* permission checks go by, is exactly where the RoomManager has it.
RoomsAgree ==
    \A s \in Sessions :
        pc[s] = "read" =>
            currentRooms[s] = {r \in Rooms : clients[r][UserOf[s]] = s}

\* With Redis up, the set of online users follows the connections: a user
\* being served is in it, a user without a thread is not.
PresenceExact ==
    \A s \in Sessions :
        /\ pc[s] = "read" => UserOf[s] \in onlineUsers
        /\ pc[s] = "gone" => UserOf[s] \notin onlineUsers

\* The server implements Floor: seen through room["clients"] and the sharer of
\* ScreenRelayState, every step of every thread is one of Floor's or none.
RoomFloor == INSTANCE Floor
    WITH members <- [r \in Rooms |-> {u \in Users : IsMember(r, u)}],
         holder <- [r \in Rooms |-> screen[r].sharer]
ImplementsFloor == RoomFloor!Spec

-----------------------------------------------------------------------------
(* What the documentation promises and the code does not keep *)

\* server/features/screen_relay.py: "so a controller who drops off does not
\* keep an orphaned grant".
NoOrphanedGrant ==
    \A r \in Rooms, u \in Users : screen[r].controller = u => IsMember(r, u)

\* docs/FEATURE_LOGIC.md on JOIN_ROOM: the server "adds the user to the room's
\* active client map, [...] returns ROOM_STATE".
JoinIsAnswered == \A s \in Sessions : unanswered[s] = {}

\* docs/ARCHITECTURE.md on reconnecting: the client "re-handshakes,
\* re-authenticates, and rejoins rooms"; a session that has rejoined a room
\* and not left it is in it.
RejoinLasts ==
    \A s \in Sessions, r \in Rooms :
        pc[s] = "read" /\ running[s] /\ r \in currentRooms[s] =>
            clients[r][UserOf[s]] = s
=============================================================================
