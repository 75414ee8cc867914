# Quickonnect in TLA+

A model of the parts of Quickonnect that run concurrently: the chat server with
its rooms, audio, whiteboards, friends and messages, the routing of clients to
servers, and the client's connection, chat panel, canvas and view of a shared
screen. The modules are model-checked with TLC and the main invariants are
proved with TLAPS.

## The system

| Component | State | Operations | Talks to |
|---|---|---|---|
| `ClientHandler` (one thread per connection) | `_running`, `_current_rooms`, the packet in hand | handshake, auth, 20 packet handlers, `_cleanup` | `ChatServer`, `RoomManager`, the state objects of a room, other handlers' `send` |
| `ChatServer` | `_clients`, the Redis set `online_users` | `register_client`, `unregister_client`, pub/sub listeners | Redis, handlers |
| `RoomManager` | `_rooms`: clients and state objects by room; the Redis keys `room:<code>` | `join_room`, `leave_room`, `remove_client_from_all_rooms` | Redis, PostgreSQL |
| `ScreenRelayState`, `CameraState` | the share with its controller; the active cameras | start, stop, grant, revoke, clear | called under the handlers |
| `WhiteboardState` | event cache, numbers, undo set, id history, snapshot; two tables | `add_event`, reads, `render_png`, snapshot thread | PostgreSQL |
| `AudioMixerState`, `STTManager`, `SubtitleBroadcaster` | jitter buffers, speaker buffers, threads, a pool | feed, mix, transcribe, broadcast | `RoomManager` for the list of clients |
| Load balancer | `ServerInfo` per server, the pins in Redis | `_resolve`, `_check_one` | Redis, chat servers |
| Client `ConnectionManager` | socket, flags, threads, the codes of joined rooms | `connect`, `disconnect`, `_handle_disconnect`, `_reconnect_loop` | load balancer, chat server, the window's signals |
| Client widgets and engines | the client's view of chat, share, canvas; undo stacks; capture engine, executor | packet handlers, buttons, dialogs | `ConnectionManager` |
| `FriendService`, `MessageService` | the tables `friendships` and `messages` | request, respond, list; store, history | PostgreSQL, Redis channels |

What is hard about it:

* Locks are held for one call, never for one handler. A handler that looks
  something up and then acts on it acts on what may have changed
  (`_handle_remote_grant`, `_handle_join_room`, `WHITEBOARD_SYNC`).
* A user who reconnects has two handler threads for a while, and almost
  everything on the server is keyed by user id, not by handler.
* A room's server is decided by a Redis key that load balancer threads and chat
  servers read, write and delete without any coordination.
* The snapshot thread of a whiteboard renders and writes without the lock, and
  outlives the room; so do the threads and the pool of the room's audio.
* `leave_room` waits for the mixer thread while it holds the lock that thread
  needs.
* The flags of `ConnectionManager` are shared by receiver, senders, reconnect
  loops and the window without a lock.
* A client acts on its own before the server has confirmed (engine, undo and
  redo stacks, consent), and broadcasts of different threads reach it in any
  order.
* The two rows of a friendship are written by transactions of two handlers.
* Redis and PostgreSQL may fail in the middle of an operation.

`PROJECT.json` lists these hazards line by line with the property that is about
each of them.

## Modules

| Module | Models | Extended by |
|---|---|---|
| `RoomServer` | `client_handler.py` (rooms, share, control, cameras, cleanup), `room_manager.py`, `main.py` (registry), `screen_relay.py`, `camera_state.py` | `MCRoomServer`, `RoomServerProofs` |
| `Floor` | abstract: who is in a room and who has its floor | instantiated by `RoomServer` and `ShareViewProofs` |
| `DrawEvents` | the undo rule of `whiteboard.py` | `Whiteboard`, `BoardView`, `DrawEventsProofs` |
| `Whiteboard` | `whiteboard.py`, its tables, and the handlers that read it | `MCWhiteboard`, `WhiteboardProofs` |
| `RoomRouting` | `router.py`, `health_checker.py`, the pin handling of `room_manager.py`, where the client connects to | `MCRoomRouting`, `ConnectionProofs` |
| `Connection` | `client/network/connection.py`, the move and the banner of `main_window.py` | `ConnectionProofs` |
| `RoomAudio` | `audio_mixer.py`, `stt_worker.py`, `subtitle.py`, `_handle_audio_chunk`, the audio part of `room_manager.py` | `RoomServerProofs` |
| `BoardView` | `whiteboard_widget.py`, `whiteboard_engine.py`, `_handle_draw_event` | `MCBoardView`, `BoardViewProofs` |
| `ShareView` | `screen_share_widget.py`, `remote_control.py`, start and stop of `screen_engine.py`, the server's share and control handlers | `MCShareView`, `ShareViewProofs` |
| `Chat` | `chat_widget.py`, `message_service.py`, `_handle_chat_message`, history of a join, the channel `dm_messages` | `MCChat`, `ChatProofs` |
| `Friends` | `friend_service.py`, its handlers, the channel `friend_events` | `FriendsProofs` |

`RoomServer` and `RoomAudio`, and `Connection` and `RoomRouting`, are extended by one
proof module each, so they have no name in common.

Definitions listed under "Mutants" are deliberately wrong variants. They are
used to test the properties and appear in no specification.

Variables marked "history" exist only for the properties: they record whether
something has happened (a packet overtook another, a rejection hit an accepted
row, a window was cleared), are never read by a guard, and so change no behaviour.
Where the code breaks what it means to keep, the property names the case by such a
variable (`astray`, `split`, `silent`, `blind`, `unseen`, `unechoed`, `crossed`, ...)
and claims that there is no other; the case itself is under "Limits of the code".

### RoomServer

A session is a handler thread; `pc` says between which two calls it is. A step
is what the thread does in one critical section together with the local work
around it. `_handle_join_room` is `JoinRoom`, `JoinNoted`, `JoinDescribed`;
`_handle_leave_room` is `LeaveStop`, `LeaveClear`, `LeaveCamera`, `LeaveRoom`;
`_handle_remote_grant` is `RemoteGrant`, `RemoteGrantSet` or `RemoteRevoke`;
`_cleanup` is the `Cleanup...` steps and `Unregister...`. The remaining handlers
touch one object once and are one step. `clients[r][u]` is the entry
`room["clients"][u]`; `screen[r]` is the `ScreenRelayState`, with `NoShare` for
`None`. A room that is not in `open` has no state objects, which is the same as
having empty ones. Packets to clients are left to `ShareView`, `BoardView` and
`Chat`; the table `room_participants`, which nothing reads, is left out. Two
simplifications: a packet that was read just before the session was displaced is
taken to be dropped by the loop's test of `_running`, although the code handles it
(as it handles one that comes just before), and `register_client` and
`unregister_client` reach Redis with both of their calls or with none, although
`SADD` may succeed and `PUBLISH` raise (main.py:99-117).

### Whiteboard

One room. `uid` is an event's place in the order of acceptance; it exists only
in the model and tells apart two events that got one number, after a failed load or
from two servers.
A picture is the set of uids painted into it. `OpenRoom` is the constructor with
`load_from_db`; `AddEvent` is `add_event`, which holds the lock over its insert
and, for a repeated `client_event_id`, only returns a number; the snapshot thread
is `SnapshotBegin` to `SnapshotPrune`; `late` holds the writes that snapshot
threads of earlier lives of the room may still make. The server looks at an event's
type only, so a client's payload may be one that `render_png` raises on (`Broken`):
then the round ends before it saves or prunes, and an export gets an error. A DM
room is not pinned, so a second server may have its board open at the same time,
with a `WhiteboardState` of its own over the same rows (`OpenElsewhere`,
`AddElsewhere`, `SaveElsewhere`); a round of its snapshot thread is one step. A
client that is being served is taken to be in the room (`CloseRoom` waits for a
reader).

### RoomRouting

One regular room (DM rooms are not pinned). `pin` is the Redis key. A client is
`idle`, at the load balancer (`assign`), holding its answer (`answered`), at the
door of a server (`routed`, `checked`) or `in`. `conn` is its connection, `home`
the server it reconnects to by itself: that is where it logged in, and
`disconnect()`, which every move to another server calls, ends it for good. A room
is entered through the load balancer, by a reconnect, or, with a new code or an
invitation, over the connection there is (`JoinDirectly`). A server that crashes or
restarts is seen down or up at the next health check, which a live server may also
fail; no server has been checked in the beginning, or all have.
`stale` counts connections a server has not noticed are gone; noticing one is a
`Cleanup`, which takes the user out of the room whatever connection the seat
belongs to. A lookup by a client that is reconnecting is taken to stop the
reconnecting at once. Redis is taken to answer here. `astray` records the two ways
in which a room comes to be on two servers.

### Connection

Receivers, one sender (all senders hold `_send_lock` while a failure is handled) and
any number of reconnect loops, since nothing but an unlocked test keeps two from
starting. `Check`, `Off`, `Fork`, `StartLoop` are `_handle_disconnect` line by line;
`LoopTop` to `LoopFail` are `_reconnect_loop`, whose handshake and login each ask
(`LoopHello`, `LoopLogin`) and then wait for the answer with no timeout
(`LoopHandshake`, `LoopAuth`); `MoveStarts`, `MoveDials`, `MoveEnds` are
`_JoinRoomWorker`; `Close` is logging out or closing the window. A receiver reads
from the socket there is when it starts to read, which need not be the one it was
started for. `told` is the last signal the window got.

### RoomAudio

A handler feeds a frame in the steps between which the code gives up the locks:
finding the pipeline, the buffer, the lazy start of the mixer, the speech
recogniser. A mixer thread pulls frames, asks for the clients under the
RoomManager's lock, sends. `leave` is the thread that holds that lock in
`leave_room`; its `join(timeout=2)` of the mixer thread ends with the thread or
without. A room that is opened again has a new pipeline, its next life, and what
is left of an old one finds the room's clients by its code.

### BoardView

A window's inbox is handled in the order the packets were sent to it; every
server thread sends a broadcast to one user after the other. `step` is what the
thread does: accept, read the list of active events for an undo, send. Undo and
redo move numbers between the two stacks at once and learn the number of the undo
event when its broadcast comes back. A user may join again, reconnect, or start
the program anew, and may turn the window to another room and back (`here`): both
turns clear the canvas and the stacks, neither sends a `JOIN_ROOM`, and packets of
this room are dropped in between. Leaving the room and entering it again is a turn
away and a join: broadcasts are then dropped instead of not sent. `SelectRoom` is
also the window's part of a `ROOM_STATE`, whenever that comes.

### ShareView

Windows, engines, executors and consent dialogs of a room's users against the
handlers' steps. A grant is three of them, and its packet stays in `out` during the
first: the target is looked up (`FindTarget`), gets the control (`SetController`),
and its name is read for the news (`ReadName`), where the handler fails if it has
left in between. A leave gives up the share or the control, reads the state, tells
the others one by one, and gives up the seat last. A question for consent blocks the
window's buttons but not its packets. Each packet carries the number of the change it
reports, a history value the program does not have, so that the properties can say
which users were told things out of order. `starts` counts the shares a user has
tried to start, and `share` says which of them is the present one, so that a yes
(`said`) and an executed input can be compared. `hasty` is who started a share while
`Behind`: with the end of a share or of the user's stay under way, with somebody else
sharing, or without a seat in the room or any word of what happens there. Message
boxes other than the question are taken to be answered at once.

### Chat

Panels, handlers, the table and the Redis channel. A DM reaches its recipient by
the room, by a push of the same server or by Redis; a client may change servers,
lose its connection and come back, also before its server has noticed the loss. The
handler it left is overtaken then: it stands in the rooms (`stale`) and the registry
(`lapsed`) of its server until its cleanup (`old`), which goes by the user's name and
takes the newer handler out as well if that is on the same server (`cut`). An
overtaken handler is taken to be done with its packet before the client is back
(the first reconnect waits a second). `view` is the panel's dictionary with its
order, because `load_history` falls back to the first room. Packets and rooms of
the panel have sets of messages: which order the messages of one room have does
not matter to the properties. `session` numbers a user's connections. A DM room is
that of two users (`Pair`); that user names with hyphens may give two pairs one
room code is left out. A join enters the room and sends the `ROOM_STATE` in one step.

### Friends

The transactions of `send_request` and `respond_to_request` statement by
statement, with PostgreSQL (external) as its defaults make it behave: committed
reads, row locks until commit, and a victim among transactions that wait for
each other. The list of friends is read, then sent, by the handler or by the
subscription's thread. `get_friends` catches every failure and returns what it has
(`ListRead`); such a list is marked `failed`, and counts as a request so that there
are finitely many. Its two SELECTs are one step.

## Runs

| Run | Instance | Checks |
|---|---|---|
| `single` | 3 users, one session each, 1 DM room (which also has the lazy join) | `OwnersAreMembers`, `RoomsAgree`, `PresenceExact`, `NoTakeover`, `ImplementsFloor` |
| `reconnect` | 2 users, one with 2 connections, Redis failing | `NoDeadHandler`, `RoomsAreOccupied`, `NoForgottenRoom` |
| `whiteboard` | 4 events, the third of which cannot be rendered, no ids, working database, one server, fair snapshot thread | `Recoverable`, `SeqsAreDense`, `ExportComplete`, `UndoIsErasure`, `CacheIsPruned` |
| `whiteboard_faults` | 3 events, the second of which cannot be rendered, 2 ids, id history of 1, failing database, second server | `TypeOK`, `NoLostDraw`, `AcceptedOnce` |
| `routing` | 2 servers, 2 clients, 2 unnoticed connections each, not beyond `astray` | `OneServer`, `PinNamesRoom` |
| `board` | 2 users, 3 requests, 1 rejoin or look at another room | `TypeOK`, `InOrderView`, `RedoAimsAtLastUndo` |
| `connection` | 2 sockets that get through, 2 attempts, 2 loops | `FlagMeansLoop`, `WindowKnows`, `LossIsNoticed`, `LoopsEnd` |
| `audio` | 2 users, 2 frames, 2 lives, 3 joins, 2 mixer threads, buffers and chunks of 1 frame, 1 worker | `TypeOK`, `HeardOnce`, `FewLateSubtitles`, `LeaveCompletes`, `AudioEnds` |
| `chat` | 2 users, 2 servers, a DM and a regular room, 2 messages, 2 clicks, 1 loss, history of 1 | `LiveOnce`, `SenderSees`, `JoinedSeeAll` |
| `friends` | 2 users, 5 requests, answers and failed reads | `Mutual`, `FriendsShown`, `RequestsEnd` |
| `share` | 2 users, 5 inputs (clicks, remote events, failures of an engine), needless rejoins first | `ViewsAgree`, `EngineServes`, `ConsentNeeded` |
| `share_engine` (violated) | 2 users, 3 inputs | `SharerCaptures` |

Bounds. In `RoomServer`, `Whiteboard`'s readers and `RoomRouting` threads and
connections are used over and over, so the number of users, sessions and rooms bounds
concurrency and not the length of a behaviour. Rooms do not interact except in
`remove_client_from_all_rooms`, which the proofs cover for any number. `reconnect`
does not go on from states with a camera or a microphone (`Quiet`), which none of its
properties mention. `MaxEvents` bounds the events ever accepted: an undo of an undo
of a drawing next to another drawing, before and after a snapshot, takes four.
`HistoryLimit` is 1000 in the code and 1 here, so that ids are forgotten. `MaxStale`
is 2, so that the cleanup of one lost connection can meet a rejoin after another.
`Straight` only cuts off states of which `OneServer` and `PinNamesRoom` say nothing.
Event 3 of four is `Broken` in `whiteboard`, so that there are rounds of the snapshot
thread that fail and, with an undo of it, recover. Three requests on a board are a
drawing, its undo and its redo, or a second user's drawing between two of one user.
(Two requests with two moves, a turn to another room and a rejoin, hold as well: 1.4
million states.) Two sockets and two loops let an old receiver meet a new connection
and two threads start a loop for one failure (three sockets with one attempt hold as
well). Two lives of a room, with the threads of the first still at work, are what
late subtitles and restarted mixers need. Two messages and a history of one put a
message beyond the history; one loss and two clicks let a user leave, lose the
connection and return, to the server it left or the other one. (Three servers, one of
which a user comes back to while a message still waits in its channel, with one and
two clicks hold as well.) Five requests let both users ask, one accept while the
other rejects, and ask again. Five inputs are a share, a request for control and two
more that cross its answer, or a share, its end and a failure of the engine around a
second share. (Six inputs were explored as far as 9.5 million states, without a
violation.)

Two action constraints in `MCShareView` keep `share` short. `WindowsFirst` loses
nothing: when the inputs are used up, a window with a packet and no other event to
come takes the packet before anything else happens. Nobody else reads what it
changes, `ViewsAgree` and `EngineServes` say nothing about its user until it has no
packet left, and yeses and executed inputs are only ever added, the yeses not before
it has taken the packet; so other orders lead to the same verdicts. `RejoinsFirst` is
a bound: a user who is in the room and sees it joins it again with the first input or
not at all. Its `JOIN_ROOM` may be read at any time, so its `ROOM_STATE` still meets
whatever the other user does; joins of users who left, chose another room or came back
by way of the list are not bounded. Without both constraints the run has 7.5 million
distinct states and holds as well; the theorems of `ShareViewProofs` need neither.
`chat` uses that the two users of its DM are interchangeable.

`CHECK_DEADLOCK FALSE` stands where the users stop because their clicks, requests,
frames or sockets are used up.

Fairness. `whiteboard` assumes that the snapshot thread is scheduled and that its
60 s sleep ends; nothing is assumed about clients, whose payloads may make every
round fail. `connection` assumes that threads run, and nothing of reads, which may
block for ever, since the sockets have no timeout once they are connected: it is the
heartbeats whose sending fails in the end on a broken connection (`SendFails`). A
loop that waits for a server's answer is not assumed to get one, and `LoopsEnd` and
`LossIsNoticed` except loops that wait for ever. `audio` assumes that threads run
and that a mixer thread gets the RoomManager's lock in the end, although it may be
taken again and again (strong fairness of `MixerSend`; each holder gives it up
after 2 s at most). `friends` assumes that handler threads run and that PostgreSQL
chooses a victim.

Each property of a passing run has a mutant in `PROJECT.json`, a plausible bug in
the code under which TLC finds the property violated.

### What `share_engine` shows

A user who clicks Share, Stop and Share again before the first `SCREEN_STOP` has
come back is the sharer for the server and for everybody else, with an engine that
this `SCREEN_STOP` has stopped: `on_screen_stop` looks at who shares, not at which
share has ended. `EngineServes` is the same property for users who are not
`hasty`: who have never started a share while they were `Behind`. Only the first
disjuncts of `Behind` are about this race; the others are races of the same kind,
met with four and five inputs, in which the end of another user's share or of a
stay in the room comes back after a start. One of them, that the user's own handler
is in the middle of a leave (`pc[u] \in Leave`), takes nine clicks, more than any run
has: such a user starts a share, misses the start of another user's because the leave
takes the seat away just then, and gets the stop of it, which ends the user's engine.
The attempt to prove `EngineServes` met it, and `Behind` has that disjunct since.

## Limits of the code

Places where the code does not do what a document, a comment or a reader expects,
met while modelling. Those with a name are definitions at the end of the module,
under "What the documentation promises and the code does not keep"; adding the
name as an INVARIANT to the configuration makes TLC show the behaviour.

Server:

* `NoOrphanedGrant` (`RoomServerSingle.cfg`): the target of a grant leaves between
  the lookup (`client_handler.py:667`) and `set_controller`; the grant stays,
  against `screen_relay.py:93`. One that leaves between the two lookups of its name
  (693-695) makes the handler fail: the grant stays and nobody is told (`silent` in
  `ShareView`), so windows and server disagree until the next change of the share.
* `JoinIsAnswered` (`RoomServerSingle.cfg`): the share ends between `is_sharing`
  and `get_state` (`client_handler.py:287`); the handler fails and the joiner is in
  the room and never answered, against `FEATURE_LOGIC.md:37`.
* `RejoinLasts` (`RoomServerReconnect.cfg`): the cleanup of a displaced session
  throws the new session out of the room it has rejoined (`room_manager.py:181`),
  against `ARCHITECTURE.md:337`. It also takes the user off `online_users`, so
  `PresenceExact` is claimed for one session per user only.
* `SyncComplete` (`Whiteboard.cfg`): the snapshot thread prunes between the two
  reads of a sync (`client_handler.py:314`); the joiner misses drawings, against
  `FEATURE_LOGIC.md:224`.
* `AlwaysOneServer` (`RoomRouting.cfg`, without its CONSTRAINT): two clients opening
  a room together end up on two servers (`router.py:84`, `room_manager.py:101`), against
  `ARCHITECTURE.md:36`. So do two that come after each other when a health check of
  the room's live server failed, or when that server was restarted, its client is
  back by itself, and the next check is still to come.
* `OneNumberEach` (`Whiteboard.cfg` with `Elsewhere = TRUE`): a DM room is pinned to
  no server; two that have its board open number their events on their own, over a
  table without a unique key, against `RESEARCH.md:299`. The later snapshot of one
  hides what was drawn on the other from the next load (`split` in `Recoverable`).
* One event whose payload `render_png` raises on ends every round of the snapshot
  thread (`whiteboard.py:257` to 280): the cache is never pruned again, unless the
  event is undone, against `phase_4.md:60`, which promises flat memory usage; and no export works.
  `CacheIsPruned` excepts it (`Paintable`).
* `get_friends` answers a failure with an empty or half list, which is sent and shown
  like any other until the next one (`friend_service.py:107`).
* An undo of a drawing that is already in the snapshot is accepted and has no
  effect; `UndoIsErasure` is about events still in the cache.
* Ids are neither stored nor remembered beyond the last 1000: an event repeated
  later than that, or after the room was opened again, is drawn twice.
  `AcceptedOnce` says how much later.
* A displaced session that still feeds audio may restart the mixer of a destroyed
  room; `remove_speaker` of the recogniser is never called.
* `LiveOnce` is about one connection. A DM is published to the channels of all other
  servers, and a handler is looked up when a server gets to it (`main.py:257`): a
  user who changes servers at that moment is sent it on both connections.
* A rejection that crosses the acceptance of the same pair leaves a one-sided
  friendship (`crossed`). A list of friends that was read earlier may arrive later,
  and an event between the login's list and the registration is missed
  (`disturbed`).
* A handler that its client has overtaken counts as a delivery: a DM is not published
  if one stands in the room (`client_handler.py:466`) or in the registry, and its
  cleanup takes the newer handler of the user out of rooms and registry. The client
  misses messages until it joins again (`unseen`, `cut` in `JoinedSeeAll`), and a
  sender may not see its own (`unechoed` in `SenderSees`). In a regular room nobody
  checks that the sender is in it: who is not, sees nothing of what it sends.

Client:

* `DisconnectLasts` (`Connection.cfg`): a reconnect loop that sleeps through
  `disconnect()` connects all the same.
* A reconnect loop that gets through to a server which never answers waits for ever
  (`connection.py:249` takes the timeout away before the handshake), and the window
  shows "reconnecting" for as long.
* `UniqueIds` (`BoardView.cfg`): the counter behind `client_event_id` starts anew
  with the program, and the server takes the new events for repeated ones.
* `replace_events` takes the snapshot off the canvas; a broadcast that overtakes
  the sync of a join is cleared by it. A board whose room is chosen again from the
  list is empty until the next sync (`screen_share_widget.py:260`; `blind` in
  `BoardView`), though later events are drawn on it.
* `HistoryInItsRoom` (`Chat.cfg`): `MESSAGE_HISTORY` names no room and
  `load_history` falls back to the first one. Rooms that were left stay in
  `_room_codes` and are rejoined after a reconnect; a late message re-opens a room
  that was left; a pushed DM changes the current room; a rejoin puts the history in
  front of itself again.
* The loser of a race to share keeps its engine, and its button answers "already
  sharing", until it changes rooms. A `SCREEN_STOP` of somebody else's share stops
  the executor. The late signal of a failed engine ends the view of a newer share.
  A room chosen again from the list sends no `JOIN_ROOM`, so its view stays empty
  until the next packet (`blind`), against the comment at
  `screen_share_widget.py:264`. A share started over itself hides its controller
  (`repeated`). A controller that rejoins captures no input; one that gives up
  control says so to nobody (`released`); denying a request revokes whoever has
  control.

## Proofs

For all users, sessions, rooms, servers, clients, sockets, ids and bounds:

* `RoomServerProofs`. `TypeCorrect`, `RoomsStayOccupied`, `HandlersAreLive`,
  `NoRoomForgotten` and `SharesAreNotTakenOver` hold however many sessions a user
  has. That a room is never left by its last client without
  being destroyed needs no more than the type invariant; that no dead handler
  stays behind needs `SeatInv`, which follows a thread from its login to the
  step that removes its user: an entry names a thread that is serving, and a
  thread past its removal has none. `SeatKnown`, `SeatHeld` and `SeatTaken` say
  what a thread in the middle of a join, a leave or a cleanup knows of its seats.
  `OwnersStayMembers`, `RoomsAlwaysAgree`, `FloorImplemented` and
  `PresenceStaysExact` assume one session per user (`SingleSession`; `RejoinLasts`
  shows why), and rest on `OneInv`: with nobody else to take its entries away, a
  thread's rooms are exactly its entries, except in the named places of a handler.
  `PresenceStaysExact` also assumes that Redis works.
* `WhiteboardProofs`. `BoardTypeCorrect`, `EventsAcceptedOnce`, `NoDrawLost` and
  `ExportsAreComplete` hold whatever the database does. `HistoryInv` says that
  the id history is the end of the sequence of all accepted ids, and all of it
  while it is not full. `BoardInv` relates the picture in the hands
  of the snapshot thread to the cache: it has every untargeted drawing up to
  `upTo` that the old snapshot does not have. `ExportInv` follows a reader.
  `UndoErasesDrawing` compares what the recursive traversal of the cache skips with
  and without the undo: were there a number on which the two differ, other than the
  one undone, there would be a last one, and above it they agree. That an undo aims
  below itself (`Ordered`) is all it needs.
  `AlwaysRecoverable` and `SeqsStayDense` assume a database that works, end where a
  second server opens the board (`split`, which lasts: `SplitLasts`), and rest
  on `RowsInv` (the rows are the numbers from 1 on, and every picture that is
  stored, about to be stored or still to be stored by a thread of an earlier
  life covers the rows up to its number) and `CacheInv`.
* `DrawEventsProofs` holds the lemmas about the traversal of `get_active_events`
  that the two whiteboard modules share: it can be computed from the last number
  down, a new drawing adds itself, an undo takes the event it aims at away, and
  pruning the events up to a number leaves the later ones as active as they were.
* `BoardViewProofs`. `BoardViewTypeCorrect` needs to know how the numbers fit
  together: an event on its way is not numbered yet (`Counted`), and what is on a
  user's stacks is older than the user's broadcasts still to come (`OwnOrder`), so
  the answer that arrives cannot be on a stack already. `RedoAimsTrue` rests on
  `Redoable`: an undone drawing has the number of its last undo, or a later undo
  of it is on its way and will be answered after everything the user has now.
  `ViewsInOrder` rests on three parts: `Numbered` (what a user was not sent is owed to
  the user by some handler), `ListShows` (a list that is sent shows the board as of
  its number, and stays true of it while later events come) and `View` (so does the
  canvas, taken together with the inbox, unless an older broadcast is still owed).
  A window that has looked elsewhere is `blind` until a sync, whose list starts `View`
  again (`SeenSynced`, with `Sighted` for those it does not concern).
* `ConnectionProofs`, in its last part, which is about `RoomRouting`: `RoutingTypeCorrect`.
  `RoomOnOneServer` and `RoomKeepsPin` assume nothing of clients, crashes or health
  checks and rest on `RouteInv`, which holds until a client goes `astray`: a room with
  clients is on the server that its pin names, and while there is a room nobody is bound for
  another server, by an assignment still to be written or by a check of `join_room`
  already passed (`Found`).
* `ConnectionProofs`. `ConnectionTypeCorrect` needs that a loop beyond its top has
  attempts left. `FlagHolds` is inductive with the types: whoever sets
  `_reconnecting` starts a loop, and every loop resets it at its end.
  `WindowHolds` rests on `Attended`: whoever set `_running` to False, a thread in
  `_handle_disconnect` or a loop, is still before the step in which the window is
  told or the connection is back.
* `RoomServerProofs`, in its last part, which is about `RoomAudio`:
  `AudioTypeCorrect`; `LateSubtitlesAreFew` by `Remains`: the recogniser of a
  pipeline that has ended is stopped, so that the chunks its workers have in hand and
  those they delivered late are no more than the workers; and `FramesAreHeardOnce` by
  `Once`: a frame is in one place, in a buffer, in the hands of one mixer thread, or
  out, and there once.
* `ShareViewProofs`. `NoInputWithoutConsent` rests on `ConsentInv`: a grant under
  way, in the packets of a client or in force at the server, is one the sharer has
  said yes to, in a share not older than the last `SCREEN_START` sent before it and
  not older than the present one; and so is every input under way. The other
  theorems share `ShareInv`, which says what a handler at each of its steps has to
  send and to whom, and that announcements of starts and stops under way are in the
  order of the changes (`InOrder`).
  `EnginesServe` needs `EngineOK`, about each user that `EngineServes` does not
  except: without an engine the user is no sharer, or the end of the share is already
  said (`Stopping`); with one, nothing under way takes the user out (`Staying`), and
  every `SCREEN_STOP` under way to a user with a share finds the window showing
  somebody else as the sharer, so it leaves the engine alone (`Unharmed`).
  `ViewsAlwaysAgree` needs `KnownInv`, once for the sharer and once for the
  controller: there is a last change such that whatever is under way and no older
  tells the truth (`Truthful`), and everyone in the room knows of it or is going to
  be told (`Informed`): by the last packet of the inbox that is about it, by a
  handler's (`Due`), unless an older packet will overtake it (`Doomed`), or the
  user is ahead of the server (`Local`). Neither is inductive without the other
  users' packets, which is why both speak of sequences and not of their first items.
  `ShareViewTypeCorrect` needs that nobody is sent a request of their own (`PacketFor`).
  `FloorIsKept` maps the share to the floor of a room that everybody has entered:
  every step of the windows leaves it alone, and every step of a handler is one of
  `Floor`'s or a stutter, also when a leave gives up share and seat in two steps.
* `ChatProofs`. `ChatTypeCorrect`. `MessagesComeOnce` rests on `Storing` (what a
  handler has stored was sent to nobody, and is in no channel) and `Sending` (what
  waits in the channel of a user's server was not sent to this connection of the
  user). `SendersSeeTheirs` rests on `Echoing`: the sender of a message is in the
  room when the handler looks for whom to send to, unless the message is `unechoed`.
  `JoinedMissNothing` rests on
  three more: `Places` (who has joined a room is among its clients, unless an
  overtaken handler has cut the user off), `Filed` (a history follows the `ROOM_STATE`
  of its room, so it is filed elsewhere only as `misfiled` says) and `Covering`: a
  message of a room that a client has joined is in the panel, in a packet that will
  put it there, in the channel of its server, promised by a handler, or `unseen`.
* `FriendsProofs`. `FriendsTypeCorrect`, and `FriendshipIsMutual` by `Claims`: what
  a handler has read of its peer's row stays true until it writes, because only
  the recipient of a request answers it, so an insertion finds no row
  (`InsertIsNew`), an acceptance writes both rows, and a deletion hits a pending
  request or counts as crossed. `FriendsAreShown`: the latest, by the commits it
  saw, of a user's lists (shown, on the way, or just read) is up to date, or an
  event that will bring a newer one is on its way from the commit on (`Told`, `Due`).

All safety properties of the passing runs, the refinement of `Floor` among them,
are stated by these theorems. Only model-checked is liveness (`CacheIsPruned`,
`LossIsNoticed`, `LoopsEnd`, `LeaveCompletes`, `AudioEnds`, `RequestsEnd`): fairness
and ENABLED are out of the prover's reach. A type invariant that no configuration names
(as in `Chat`, `Friends`, `ShareView`) is proved and left out of the runs to keep
them short; add it to one to check it. `EngineOK` and `KnownInv` were model-checked
before they were proved, with two users and three or four inputs, and by simulation
with two and three users and thirty inputs; `FloorIsKept` with two users and four.

## Not modelled, and the plan

* That a displaced session ends needs fair threads in `RoomServer` with two
  sessions of a user, too large for a liveness check.
* The threads and the frame queue inside `ScreenCaptureEngine`: frames of an old
  room may be sent under the next room's code (`screen_engine.py:199`).
* Client cameras: the same scheme as the screen without a floor or a controller.
* Client audio: playback and capture threads around sound hardware.
* Authentication: passwords and tokens are library calls on one row.
* Packet framing and ciphers: byte strings and library calls; the models begin
  with whole packets in order.
* Invitations, key exchange, status broadcasts and the search for users keep no
  state that another step reads.
* Layout, devices, speech recognition and translation models, scripts.
