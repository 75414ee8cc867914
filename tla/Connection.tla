----------------------------- MODULE Connection -----------------------------
(***************************************************************************)
(* The client's ConnectionManager (client/network/connection.py) and the   *)
(* window that uses it (client/ui/main_window.py): receiver threads, the   *)
(* threads that send, the reconnect loops and the user interface share     *)
(* _sock, _running, _reconnect_enabled and _reconnecting without a lock.   *)
(*                                                                         *)
(* A socket is a number, in the order they are made; the session key goes  *)
(* with the socket.  What is sent and received is left out.  Senders       *)
(* (window, heartbeats, capture engines, the rejoin of a reconnect loop)   *)
(* hold _send_lock while a failed send is handled, so one of them stands   *)
(* for all.                                                                *)
(***************************************************************************)
EXTENDS Naturals, FiniteSets

CONSTANTS
    MaxSockets,    \* bound: sockets that get through to a server
    MaxAttempts,   \* _MAX_RECONNECT_ATTEMPTS
    MaxLoops       \* bound: reconnect loops at the same time

ASSUME ConnectionAssumption ==
    /\ MaxSockets \in Nat \ {0}
    /\ MaxAttempts \in Nat \ {0}
    /\ MaxLoops \in Nat \ {0}

VARIABLES
    running, enabled, reconnecting,   \* _running, _reconnect_enabled, _reconnecting
    sock,      \* _sock; 0: None
    made,      \* sockets that got through so far
    up,        \* the sockets that work
    told,      \* what the window was last told
    ui,        \* the window: "open", "moving" to a server, "dialled", "closed"
    pc,        \* what a thread does
    where,     \* the socket a receiver or a loop is blocked in
    attempt    \* the attempt a reconnect loop is in

flags == <<running, enabled, reconnecting>>
net == <<sock, made, up>>
vars == <<flags, net, told, ui, pc, where, attempt>>

Sockets == 1 .. MaxSockets
Receivers == {<<"receiver", n>> : n \in Sockets}
Receiver(n) == <<"receiver", n>>
Sender == <<"sender", 0>>
LoopThreads == {<<"loop", n>> : n \in 1 .. MaxLoops}
Threads == Receivers \cup {Sender} \cup LoopThreads

Handling == {"check", "off", "fork", "set"}      \* in _handle_disconnect
InLoop == {"top", "sleep", "dialled", "hello", "keyed", "auth", "rejoin", "failed"}
Readers == Receivers \cup LoopThreads

TypeOK ==
    /\ running \in BOOLEAN /\ enabled \in BOOLEAN /\ reconnecting \in BOOLEAN
    /\ sock \in 0 .. made
    /\ made \in 0 .. MaxSockets
    /\ up \in SUBSET (1 .. made)
    /\ told \in {"online", "reconnecting", "lost", "off"}
    /\ ui \in {"open", "moving", "dialled", "closed"}
    /\ pc \in [Threads -> {"none", "loop", "reading"} \cup Handling \cup InLoop]
    /\ \A t \in LoopThreads : pc[t] \in {"none"} \cup InLoop
    /\ \A t \in Receivers \cup {Sender} : pc[t] \notin InLoop
    /\ where \in [Readers -> 0 .. MaxSockets]
    /\ attempt \in [LoopThreads -> 0 .. MaxAttempts + 1]

\* The user has logged in; enable_reconnect has been called.
Init ==
    /\ running = TRUE /\ enabled = TRUE /\ reconnecting = FALSE
    /\ sock = 1 /\ made = 1 /\ up = {1}
    /\ told = "online" /\ ui = "open"
    /\ pc = [t \in Threads |-> IF t = Receiver(1) THEN "loop" ELSE "none"]
    /\ where = [r \in Readers |-> 0]
    /\ attempt = [t \in LoopThreads |-> 0]

\* The thread to start among T: the first that is not in use
Idle(T) == {t \in T : pc[t] = "none" /\ \A s \in T : pc[s] = "none" => t[2] <= s[2]}

GoTo(t, place) == pc' = [pc EXCEPT ![t] = place]

\* A window that has shown "Lost connection" is closed and stays so.
Tell(what) == told' = IF told = "lost" THEN told ELSE what

\* _sock.close() and _sock = None
CloseSock ==
    /\ up' = up \ {sock}
    /\ sock' = 0
    /\ UNCHANGED made

\* A new socket that gets through to its server
NewSock ==
    /\ made < MaxSockets
    /\ made' = made + 1
    /\ sock' = made'
    /\ up' = up \cup {made'}

\* ... and one that does not; _sock is a new socket all the same.
DeadSock ==
    /\ sock' = 0
    /\ UNCHANGED <<made, up>>

-----------------------------------------------------------------------------
(* Mutants of the definitions below, for testing the properties *)

\* The success path of the loop leaves _reconnecting set.
LoopDoneForgets(t) ==
    /\ pc[t] = "rejoin"
    /\ Tell("online")
    /\ GoTo(t, "none")
    /\ UNCHANGED <<flags, net, ui, where, attempt>>

\* A loop that finds reconnection disabled just ends.
LoopEndSilent(t) ==
    /\ pc[t] = "top"
    /\ attempt[t] > MaxAttempts \/ ~enabled
    /\ reconnecting' = FALSE
    /\ enabled' = FALSE
    /\ GoTo(t, "none")
    /\ UNCHANGED <<running, net, told, ui, where, attempt>>

\* A failed attempt is not counted.
LoopFailForever(t) ==
    /\ pc[t] = "failed"
    /\ CloseSock
    /\ running' = FALSE
    /\ GoTo(t, "top")
    /\ UNCHANGED <<enabled, reconnecting, told, ui, where, attempt>>

\* _handle_disconnect returns as well when there is nothing to reconnect.
CheckEnabled(t) ==
    /\ pc[t] = "check"
    /\ GoTo(t, IF running /\ enabled THEN "off" ELSE "none")
    /\ UNCHANGED <<flags, net, told, ui, where, attempt>>

-----------------------------------------------------------------------------
(* The network and the threads that use the connection *)

\* A connection breaks: the network, or the server ends it.
Break(n) ==
    /\ n \in up
    /\ up' = up \ {n}
    /\ UNCHANGED <<flags, sock, made, told, ui, pc, where, attempt>>

\* _receiver_loop reads from the socket there is now.  None raises, like a
\* broken one.
ReceiverLoop(n) ==
    LET t == Receiver(n) IN
    /\ pc[t] = "loop"
    /\ GoTo(t, IF running THEN "reading" ELSE "none")
    /\ where' = [where EXCEPT ![t] = IF running THEN sock ELSE 0]
    /\ UNCHANGED <<flags, net, told, ui, attempt>>

\* A packet arrives.  On a socket that was closed in the meantime read_packet
\* may still return what had come before.
Receive(n) ==
    LET t == Receiver(n) IN
    /\ pc[t] = "reading"
    /\ where[t] # 0
    /\ GoTo(t, "loop")
    /\ where' = [where EXCEPT ![t] = 0]
    /\ UNCHANGED <<flags, net, told, ui, attempt>>

\* read_packet raises.
ReceiveFails(n) ==
    LET t == Receiver(n) IN
    /\ pc[t] = "reading"
    /\ where[t] \notin up
    /\ GoTo(t, "check")
    /\ where' = [where EXCEPT ![t] = 0]
    /\ UNCHANGED <<flags, net, told, ui, attempt>>

\* send raises.
SendFails ==
    /\ pc[Sender] = "none"
    /\ running
    /\ sock # 0
    /\ sock \notin up
    /\ GoTo(Sender, "check")
    /\ UNCHANGED <<flags, net, told, ui, where, attempt>>

-----------------------------------------------------------------------------
(* _handle_disconnect, by a receiver or the sender *)

\* if not self._running: return
Check(t) ==
    /\ pc[t] = "check"
    /\ GoTo(t, IF running THEN "off" ELSE "none")
    /\ UNCHANGED <<flags, net, told, ui, where, attempt>>

Off(t) ==
    /\ pc[t] = "off"
    /\ running' = FALSE
    /\ CloseSock
    /\ GoTo(t, "fork")
    /\ UNCHANGED <<enabled, reconnecting, told, ui, where, attempt>>

\* if self._reconnect_enabled and not self._reconnecting; if not, the user is
\* told.
Fork(t) ==
    /\ pc[t] = "fork"
    /\ \/ /\ enabled /\ ~reconnecting
          /\ GoTo(t, "set")
          /\ UNCHANGED told
       \/ /\ ~enabled \/ reconnecting
          /\ GoTo(t, "none")
          /\ Tell("lost")
    /\ UNCHANGED <<flags, net, ui, where, attempt>>

\* The loop is started.
StartLoop(t) ==
    /\ pc[t] = "set"
    /\ reconnecting' = TRUE
    /\ \E l \in Idle(LoopThreads) :
          /\ pc' = [pc EXCEPT ![t] = "none", ![l] = "top"]
          /\ attempt' = [attempt EXCEPT ![l] = 1]
    /\ UNCHANGED <<running, enabled, net, told, ui, where>>

-----------------------------------------------------------------------------
(* _reconnect_loop *)

\* The next attempt is announced; then the thread sleeps.
LoopTop(t) ==
    /\ pc[t] = "top"
    /\ attempt[t] <= MaxAttempts
    /\ enabled
    /\ Tell("reconnecting")
    /\ GoTo(t, "sleep")
    /\ UNCHANGED <<flags, net, ui, where, attempt>>

\* The attempts are used up, or reconnection was disabled.
LoopEnd(t) ==
    /\ pc[t] = "top"
    /\ attempt[t] > MaxAttempts \/ ~enabled
    /\ reconnecting' = FALSE
    /\ enabled' = FALSE
    /\ Tell("lost")
    /\ attempt' = [attempt EXCEPT ![t] = 0]
    /\ GoTo(t, "none")
    /\ UNCHANGED <<running, net, ui, where>>

\* The loop wakes up and connects, whatever has happened meanwhile.
LoopDial(t) ==
    /\ pc[t] = "sleep"
    /\ \/ NewSock /\ GoTo(t, "dialled")
       \/ DeadSock /\ GoTo(t, "failed")
    /\ UNCHANGED <<flags, told, ui, where, attempt>>

\* A question over the socket there is now, if it still takes one, and the
\* thread is blocked until an answer comes: _sock.settimeout(None) was called
\* when the socket got through.
Ask(t, place) ==
    \/ /\ sock \in up
       /\ where' = [where EXCEPT ![t] = sock]
       /\ GoTo(t, place)
    \/ /\ sock \notin up
       /\ GoTo(t, "failed")
       /\ UNCHANGED where

\* CLIENT_HELLO
LoopHello(t) ==
    /\ pc[t] = "dialled"
    /\ Ask(t, "hello")
    /\ UNCHANGED <<flags, net, told, ui, attempt>>

\* The handshake ends, or fails.  (On a socket that was closed meanwhile an
\* answer may still be read, if it had come before.)
LoopHandshake(t) ==
    /\ pc[t] = "hello"
    /\ where' = [where EXCEPT ![t] = 0]
    /\ \/ running' = TRUE /\ GoTo(t, "keyed")
       \/ GoTo(t, "failed") /\ UNCHANGED running
    /\ UNCHANGED <<enabled, reconnecting, net, told, ui, attempt>>

\* _do_reconnect_auth asks ...
LoopLogin(t) ==
    /\ pc[t] = "keyed"
    /\ Ask(t, "auth")
    /\ UNCHANGED <<flags, net, told, ui, attempt>>

\* ... and has the answer.  A new receiver is started.
LoopAuth(t) ==
    /\ pc[t] = "auth"
    /\ where' = [where EXCEPT ![t] = 0]
    /\ \/ \E r \in Idle(Receivers) :
             pc' = [pc EXCEPT ![t] = "rejoin", ![r] = "loop"]
       \/ GoTo(t, "failed")
    /\ UNCHANGED <<flags, net, told, ui, attempt>>

\* _do_rejoin_rooms has sent what it could; the loop reports success.
LoopDone(t) ==
    /\ pc[t] = "rejoin"
    /\ reconnecting' = FALSE
    /\ Tell("online")
    /\ attempt' = [attempt EXCEPT ![t] = 0]
    /\ GoTo(t, "none")
    /\ UNCHANGED <<running, enabled, net, ui, where>>

\* except: the socket there is now is closed.
LoopFail(t) ==
    /\ pc[t] = "failed"
    /\ CloseSock
    /\ running' = FALSE
    /\ attempt' = [attempt EXCEPT ![t] = @ + 1]
    /\ GoTo(t, "top")
    /\ UNCHANGED <<enabled, reconnecting, told, ui, where>>

-----------------------------------------------------------------------------
(* The window *)

Disconnect ==
    /\ enabled' = FALSE
    /\ running' = FALSE
    /\ CloseSock
    /\ UNCHANGED reconnecting

\* _JoinRoomWorker moves to the server of another room: disconnect ...
MoveStarts ==
    /\ ui = "open"
    /\ told # "lost"
    /\ Disconnect
    /\ ui' = "moving"
    /\ Tell("off")
    /\ UNCHANGED <<pc, where, attempt>>

\* ... connect ...
MoveDials ==
    /\ ui = "moving"
    /\ \/ /\ NewSock
          /\ ui' = "dialled"
          /\ UNCHANGED flags
       \/ /\ DeadSock
          /\ enabled' = FALSE
          /\ running' = FALSE
          /\ UNCHANGED <<reconnecting, ui>>
    /\ UNCHANGED <<told, pc, where, attempt>>

\* ... and, after the handshake, a receiver of its own.  If any of this fails
\* there is another disconnect, and the user may try again.
MoveEnds ==
    /\ ui = "dialled"
    /\ \/ /\ sock \in up
          /\ running' = TRUE
          /\ \E r \in Idle(Receivers) : GoTo(r, "loop")
          /\ ui' = "open"
          /\ Tell("online")
          /\ UNCHANGED <<enabled, reconnecting, net>>
       \/ /\ Disconnect
          /\ ui' = "moving"
          /\ UNCHANGED <<pc, told>>
    /\ UNCHANGED <<where, attempt>>

\* _on_logout, or closing after a lost connection
Close ==
    /\ ui \in {"open", "moving"}
    /\ IF told # "lost" \/ (running /\ sock # 0) THEN Disconnect ELSE UNCHANGED <<flags, net>>
    /\ Tell("off")
    /\ ui' = "closed"
    /\ UNCHANGED <<pc, where, attempt>>

-----------------------------------------------------------------------------
Thread(t) ==
    \/ Check(t) \/ Off(t) \/ Fork(t) \/ StartLoop(t)

Loop(t) ==
    \/ LoopTop(t) \/ LoopEnd(t) \/ LoopDial(t) \/ LoopHello(t) \/ LoopHandshake(t)
    \/ LoopLogin(t) \/ LoopAuth(t) \/ LoopDone(t) \/ LoopFail(t)

Next ==
    \/ \E n \in Sockets : Break(n) \/ ReceiverLoop(n) \/ Receive(n) \/ ReceiveFails(n)
    \/ SendFails
    \/ \E t \in Receivers \cup {Sender} : Thread(t)
    \/ \E t \in LoopThreads : Loop(t)
    \/ MoveStarts \/ MoveDials \/ MoveEnds \/ Close

\* Blocked until a server answers, which it need not
Waits(t) == pc[t] \in {"hello", "auth"}

\* Threads run.  Nothing is assumed of reads: they may block for ever, also in
\* a socket that is closed.  It is the heartbeats that fail in the end.
Fairness ==
    /\ \A n \in Sockets : WF_vars(ReceiverLoop(n))
    /\ WF_vars(SendFails)
    /\ \A t \in Receivers \cup {Sender} : WF_vars(Thread(t))
    /\ \A t \in LoopThreads : WF_vars(~Waits(t) /\ Loop(t))

Spec == Init /\ [][Next]_vars /\ Fairness

-----------------------------------------------------------------------------
Alive(t) == pc[t] # "none"
LoopAlive == \E t \in LoopThreads : Alive(t)
HandlerAlive == \E t \in Receivers \cup {Sender} : pc[t] \in Handling

\* _reconnecting is never left set without a loop that will reset it, however
\* many loops the race in _handle_disconnect has started: a later loss is not
\* taken for one that is being dealt with.
FlagMeansLoop == reconnecting => LoopAlive

\* A window that was last told all is well has a connection, unless a thread
\* is about to tell it otherwise.  That goes for a second failure while a loop
\* rejoins, two threads that notice one failure, an old receiver that takes
\* the new connection down, and a loop that is overtaken by a move to another
\* server.
WindowKnows ==
    ui = "open" /\ told = "online" /\ ~LoopAlive /\ ~HandlerAlive => running

\* A broken connection is replaced, or the user hears of it, unless a loop waits
\* for ever for a server's answer (two loops may have been started for one
\* failure: then one may say that all is well and the other bring it down).
LossIsNoticed ==
    (ui = "open" /\ told = "online" /\ sock \notin up)
        ~> (\/ ui # "open" \/ told # "online" \/ sock \in up
            \/ \E t \in LoopThreads : []Waits(t))

\* Every reconnect loop comes to its end, by success or by giving up, unless
\* a server that it got through to never answers it.
LoopsEnd == \A t \in LoopThreads : Alive(t) ~> (~Alive(t) \/ []Waits(t))

-----------------------------------------------------------------------------
(* What the documentation promises and the code does not keep *)

\* client/network/connection.py on disconnect: "Intentional disconnect -
\* disables auto-reconnect."
DisconnectLasts == ui = "closed" /\ ~LoopAlive => ~running
=============================================================================
