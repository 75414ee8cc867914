-------------------------- MODULE ConnectionProofs --------------------------
(***************************************************************************)
(* Proofs about Connection: its types, that _reconnecting never outlives   *)
(* the reconnect loops, and that the window is not left believing in a     *)
(* connection that nobody looks after; and, in the last part, about where  *)
(* the connections of several clients end up (RoomRouting).                *)
(***************************************************************************)
EXTENDS Connection, RoomRouting, TLAPS

\* The threads that may call _handle_disconnect
Callers == Receivers \cup {Sender}

\* A loop is neither a receiver nor the sender.
LEMMA ThreadsDiffer ==
    /\ \A t \in Callers, l \in LoopThreads : t # l
    /\ Callers \subseteq Threads /\ LoopThreads \subseteq Threads
    /\ \A n \in Sockets : Receiver(n) \in Receivers
    /\ Receivers \subseteq Callers /\ Sender \in Callers
    /\ \A T : Idle(T) \subseteq T
BY DEF Callers, Receivers, Sender, LoopThreads, Threads, Receiver, Idle

-----------------------------------------------------------------------------
(* Types, in three parts *)

FlagsOK ==
    /\ running \in BOOLEAN /\ enabled \in BOOLEAN /\ reconnecting \in BOOLEAN
    /\ told \in {"online", "reconnecting", "lost", "off"}
    /\ ui \in {"open", "moving", "dialled", "closed"}

NetOK ==
    /\ sock \in 0 .. made
    /\ made \in 0 .. MaxSockets
    /\ up \in SUBSET (1 .. made)

PcOK ==
    /\ pc \in [Threads -> {"none", "loop", "reading"} \cup Handling \cup InLoop]
    /\ \A t \in LoopThreads : pc[t] \in {"none"} \cup InLoop
    /\ \A t \in Callers : pc[t] \notin InLoop

WhereOK == where \in [Readers -> 0 .. MaxSockets]

\* A loop beyond its top has attempts left: what bounds the counter.
AttemptOK ==
    /\ attempt \in [LoopThreads -> 0 .. MaxAttempts + 1]
    /\ \A t \in LoopThreads : pc[t] \in InLoop \ {"top"} => attempt[t] <= MaxAttempts

\* TypeOK and what makes it inductive
TypeInv == FlagsOK /\ NetOK /\ PcOK /\ WhereOK /\ AttemptOK

\* The parts give the type invariant of the specification.
LEMMA TypeParts == TypeInv => TypeOK
BY DEF TypeInv, TypeOK, FlagsOK, NetOK, PcOK, WhereOK, AttemptOK, Callers

\* They hold after login.
LEMMA TypeInit == Init => TypeInv
<1> SUFFICES ASSUME Init PROVE TypeInv
  OBVIOUS
<1> USE ConnectionAssumption DEF Init
<1>1. FlagsOK /\ NetOK
  <2>1. 1 \in 0 .. MaxSockets /\ 1 \in 0 .. 1 /\ {1} \subseteq 1 .. 1
    OBVIOUS
  <2> QED
    BY <2>1 DEF FlagsOK, NetOK
<1>2. PcOK
  <2>1. pc \in [Threads -> {"none", "loop"}]
    BY Zenon
  <2>2. \A t \in LoopThreads : pc[t] = "none"
    <3>1. Receiver(1) \in Receivers
      BY DEF Receiver, Receivers, Sockets
    <3> QED
      BY <3>1, ThreadsDiffer
  <2> QED
    BY <2>1, <2>2, ThreadsDiffer DEF PcOK, InLoop, Handling
<1>3. WhereOK
  BY DEF WhereOK
<1>4. AttemptOK
  BY <1>2 DEF AttemptOK
<1> QED
  BY <1>1, <1>2, <1>3, <1>4 DEF TypeInv

\* The flags, what the window was told and where it is keep their types.
LEMMA FlagsStep == FlagsOK /\ [Next]_vars => FlagsOK'
<1> SUFFICES ASSUME FlagsOK, [Next]_vars PROVE FlagsOK'
  OBVIOUS
<1> USE DEF FlagsOK, flags, net, vars, Tell, GoTo
<1>0. CASE UNCHANGED vars
  BY <1>0
<1>1. ASSUME NEW n \in Sockets, Break(n) \/ ReceiverLoop(n) \/ Receive(n) \/ ReceiveFails(n)
      PROVE FlagsOK'
  BY <1>1 DEF Break, ReceiverLoop, Receive, ReceiveFails
<1>2. CASE SendFails
  BY <1>2 DEF SendFails
<1>3. ASSUME NEW t \in Callers, Thread(t) PROVE FlagsOK'
  BY <1>3 DEF Thread, Check, Off, Fork, StartLoop
<1>4. ASSUME NEW t \in LoopThreads, Loop(t) PROVE FlagsOK'
  <2>1. CASE LoopTop(t) \/ LoopEnd(t) \/ LoopDial(t) \/ LoopHandshake(t)
    BY <2>1 DEF LoopTop, LoopEnd, LoopDial, LoopHandshake
  <2>2. CASE LoopHello(t) \/ LoopLogin(t) \/ LoopAuth(t) \/ LoopDone(t) \/ LoopFail(t)
    BY <2>2 DEF LoopHello, LoopLogin, LoopAuth, LoopDone, LoopFail
  <2> QED
    BY <1>4, <2>1, <2>2 DEF Loop
<1>5. CASE MoveStarts \/ MoveDials \/ MoveEnds
  BY <1>5 DEF MoveStarts, MoveDials, MoveEnds, Disconnect
<1>6. CASE Close
  BY <1>6 DEF Close, Disconnect
<1> QED
  BY <1>0, <1>1, <1>2, <1>3, <1>4, <1>5, <1>6 DEF Next, Callers

\* What can happen to the sockets
NetMove ==
    \/ UNCHANGED net
    \/ CloseSock
    \/ NewSock
    \/ DeadSock
    \/ \E n \in up : up' = up \ {n} /\ UNCHANGED <<sock, made>>

\* Every step moves the sockets in one of these ways.
LEMMA NetMoves == [Next]_vars => NetMove
<1> USE DEF NetMove, net, flags, vars
<1>1. ASSUME NEW n \in Sockets, Break(n) \/ ReceiverLoop(n) \/ Receive(n) \/ ReceiveFails(n)
      PROVE NetMove
  BY <1>1 DEF Break, ReceiverLoop, Receive, ReceiveFails
<1>2. ASSUME NEW t \in Callers, Thread(t) PROVE NetMove
  BY <1>2 DEF Thread, Check, Off, Fork, StartLoop
<1>3. ASSUME NEW t \in LoopThreads, Loop(t) PROVE NetMove
  BY <1>3 DEF Loop, LoopTop, LoopEnd, LoopDial, LoopHello, LoopHandshake, LoopLogin, LoopAuth,
             LoopDone, LoopFail
<1>4. CASE SendFails \/ MoveStarts \/ MoveDials \/ MoveEnds \/ Close
  BY <1>4 DEF SendFails, MoveStarts, MoveDials, MoveEnds, Close, Disconnect
<1>5. CASE UNCHANGED vars
  BY <1>5
<1> QED
  BY <1>1, <1>2, <1>3, <1>4, <1>5 DEF Next, Callers

\* The sockets keep their types: none is used before it is made.
LEMMA NetStep == NetOK /\ [Next]_vars => NetOK'
<1> SUFFICES ASSUME NetOK, NetMove PROVE NetOK'
  BY NetMoves
<1> USE ConnectionAssumption DEF NetOK
<1>1. CASE UNCHANGED net
  BY <1>1 DEF net
<1>2. CASE CloseSock
  BY <1>2 DEF CloseSock
<1>3. CASE NewSock
  <2>1. made' \in 0 .. MaxSockets /\ sock' \in 0 .. made' /\ 1 .. made \subseteq 1 .. made'
    BY <1>3 DEF NewSock
  <2>2. up' \subseteq 1 .. made'
    BY <1>3, <2>1 DEF NewSock
  <2> QED
    BY <2>1, <2>2
<1>4. CASE DeadSock
  BY <1>4 DEF DeadSock
<1>5. CASE \E n \in up : up' = up \ {n} /\ UNCHANGED <<sock, made>>
  BY <1>5
<1> QED
  BY <1>1, <1>2, <1>3, <1>4, <1>5 DEF NetMove

Places == {"none", "loop", "reading"} \cup Handling

\* What can happen to the threads: a caller of _handle_disconnect goes on, a
\* loop goes on, and either may start a thread of the other kind.
ThreadsMove ==
    \/ UNCHANGED <<pc, where, attempt>>
    \/ \E t \in Callers, place \in Places : GoTo(t, place) /\ UNCHANGED attempt
    \/ \E t \in LoopThreads, place \in {"none"} \cup InLoop : GoTo(t, place)
    \/ \E t \in Callers, l \in LoopThreads :
          pc' = [pc EXCEPT ![t] = "none", ![l] = "top"] /\ UNCHANGED where
    \/ \E t \in LoopThreads, r \in Receivers :
          pc' = [pc EXCEPT ![t] = "rejoin", ![r] = "loop"] /\ UNCHANGED attempt

\* Every step moves the threads in one of these ways.
LEMMA ThreadsMoves == [Next]_vars => ThreadsMove
<1> USE ThreadsDiffer DEF Places, Handling, InLoop, net, flags, vars
<1>1. ASSUME NEW n \in Sockets, Break(n) \/ ReceiverLoop(n) \/ Receive(n) \/ ReceiveFails(n)
      PROVE ThreadsMove
  <2>1. CASE Break(n)
    BY <2>1 DEF Break, ThreadsMove
  <2>2. CASE ReceiverLoop(n) \/ Receive(n) \/ ReceiveFails(n)
    <3>1. Receiver(n) \in Callers
      OBVIOUS
    <3>2. UNCHANGED attempt /\ \E place \in Places : GoTo(Receiver(n), place)
      BY <2>2 DEF ReceiverLoop, Receive, ReceiveFails
    <3> QED
      BY <3>1, <3>2 DEF ThreadsMove
  <2> QED
    BY <1>1, <2>1, <2>2
<1>2. CASE SendFails
  BY <1>2 DEF SendFails, ThreadsMove
<1>3. ASSUME NEW t \in Callers, Thread(t) PROVE ThreadsMove
  <2>1. CASE Check(t) \/ Off(t) \/ Fork(t)
    <3>1. UNCHANGED attempt /\ \E place \in Places : GoTo(t, place)
      BY <2>1 DEF Check, Off, Fork
    <3> QED
      BY <3>1 DEF ThreadsMove
  <2>2. CASE StartLoop(t)
    BY <2>2 DEF StartLoop, ThreadsMove
  <2> QED
    BY <1>3, <2>1, <2>2 DEF Thread
<1>4. ASSUME NEW t \in LoopThreads, Loop(t) PROVE ThreadsMove
  <2>1. CASE LoopAuth(t)
    BY <2>1 DEF LoopAuth, ThreadsMove
  <2>2. CASE ~LoopAuth(t)
    <3>1. \E place \in {"none"} \cup InLoop : GoTo(t, place)
      BY <1>4, <2>2 DEF Loop, LoopTop, LoopEnd, LoopDial, LoopHello, LoopHandshake, LoopLogin,
             LoopDone, LoopFail, Ask
    <3> QED
      BY <3>1 DEF ThreadsMove
  <2> QED
    BY <2>1, <2>2
<1>5. CASE MoveStarts \/ MoveDials \/ Close \/ UNCHANGED vars
  BY <1>5 DEF MoveStarts, MoveDials, Close, ThreadsMove
<1>6. CASE MoveEnds
  BY <1>6 DEF MoveEnds, ThreadsMove
<1> QED
  BY <1>1, <1>2, <1>3, <1>4, <1>5, <1>6 DEF Next, Callers

\* Loops stay in _reconnect_loop, and nobody else gets there.
LEMMA PcStep == PcOK /\ [Next]_vars => PcOK'
<1> SUFFICES ASSUME PcOK, ThreadsMove PROVE PcOK'
  BY ThreadsMoves
<1> USE ThreadsDiffer DEF PcOK, GoTo, Places, Handling, InLoop
<1>1. CASE UNCHANGED <<pc, where, attempt>>
  BY <1>1
<1>2. CASE \E t \in Callers, place \in Places : GoTo(t, place) /\ UNCHANGED attempt
  BY <1>2
<1>3. CASE \E t \in LoopThreads, place \in {"none"} \cup InLoop : GoTo(t, place)
  BY <1>3
<1>4. CASE \E t \in Callers, l \in LoopThreads :
              pc' = [pc EXCEPT ![t] = "none", ![l] = "top"] /\ UNCHANGED where
  BY <1>4
<1>5. CASE \E t \in LoopThreads, r \in Receivers :
              pc' = [pc EXCEPT ![t] = "rejoin", ![r] = "loop"] /\ UNCHANGED attempt
  BY <1>5
<1> QED
  BY <1>1, <1>2, <1>3, <1>4, <1>5 DEF ThreadsMove

\* A receiver or a loop reads from a socket that was made, or from None.
LEMMA WhereStep == WhereOK /\ NetOK /\ [Next]_vars => WhereOK'
<1> SUFFICES ASSUME WhereOK, NetOK, [Next]_vars PROVE WhereOK'
  OBVIOUS
<1> USE DEF WhereOK, net, flags, vars
<1>1. ASSUME NEW n \in Sockets, Break(n) \/ ReceiverLoop(n) \/ Receive(n) \/ ReceiveFails(n)
      PROVE WhereOK'
  <2>1. 0 \in 0 .. MaxSockets /\ sock \in 0 .. MaxSockets
    BY ConnectionAssumption DEF NetOK
  <2> QED
    BY <1>1, <2>1 DEF Break, ReceiverLoop, Receive, ReceiveFails
<1>2. ASSUME NEW t \in Callers, Thread(t) PROVE WhereOK'
  BY <1>2 DEF Thread, Check, Off, Fork, StartLoop
<1>3. ASSUME NEW t \in LoopThreads, Loop(t) PROVE WhereOK'
  <2>1. 0 \in 0 .. MaxSockets /\ sock \in 0 .. MaxSockets
    BY ConnectionAssumption DEF NetOK
  <2> QED
    BY <1>3, <2>1 DEF Loop, LoopTop, LoopEnd, LoopDial, LoopHello, LoopHandshake, LoopLogin,
           LoopAuth, LoopDone, LoopFail, Ask
<1>4. CASE SendFails \/ MoveStarts \/ MoveDials \/ MoveEnds \/ Close \/ UNCHANGED vars
  BY <1>4 DEF SendFails, MoveStarts, MoveDials, MoveEnds, Close
<1> QED
  BY <1>1, <1>2, <1>3, <1>4 DEF Next, Callers

\* Only a loop that has just failed counts on, and it had attempts left.
LEMMA AttemptStep == AttemptOK /\ PcOK /\ [Next]_vars => AttemptOK'
<1> SUFFICES ASSUME AttemptOK, PcOK, [Next]_vars PROVE AttemptOK'
  OBVIOUS
<1> USE ConnectionAssumption, ThreadsDiffer DEF AttemptOK, PcOK, GoTo, InLoop, Handling
<1>1. ASSUME NEW n \in Sockets, Break(n) \/ ReceiverLoop(n) \/ Receive(n) \/ ReceiveFails(n)
      PROVE AttemptOK'
  BY <1>1 DEF Break, ReceiverLoop, Receive, ReceiveFails
<1>2. CASE SendFails
  BY <1>2 DEF SendFails
<1>3. ASSUME NEW t \in Callers, Thread(t) PROVE AttemptOK'
  <2>1. CASE Check(t) \/ Off(t) \/ Fork(t)
    BY <2>1 DEF Check, Off, Fork
  <2>2. CASE StartLoop(t)
    BY <2>2 DEF StartLoop
  <2> QED
    BY <1>3, <2>1, <2>2 DEF Thread
<1>4. ASSUME NEW t \in LoopThreads, Loop(t) PROVE AttemptOK'
  <2>1. CASE LoopTop(t) \/ LoopDial(t) \/ LoopHello(t) \/ LoopHandshake(t) \/ LoopLogin(t)
    BY <2>1 DEF LoopTop, LoopDial, LoopHello, LoopHandshake, LoopLogin, Ask
  <2>2. CASE LoopEnd(t) \/ LoopDone(t)
    BY <2>2 DEF LoopEnd, LoopDone
  <2>3. CASE LoopAuth(t)
    BY <2>3 DEF LoopAuth
  <2>4. CASE LoopFail(t)
    BY <2>4 DEF LoopFail
  <2> QED
    BY <1>4, <2>1, <2>2, <2>3, <2>4 DEF Loop
<1>5. CASE MoveStarts \/ MoveDials \/ Close \/ UNCHANGED vars
  BY <1>5 DEF MoveStarts, MoveDials, Close, vars
<1>6. CASE MoveEnds
  BY <1>6 DEF MoveEnds
<1> QED
  BY <1>1, <1>2, <1>3, <1>4, <1>5, <1>6 DEF Next, Callers

\* All parts together are inductive.
LEMMA TypeStep == TypeInv /\ [Next]_vars => TypeInv'
BY FlagsStep, NetStep, PcStep, WhereStep, AttemptStep DEF TypeInv

\* The threads of a ConnectionManager keep to their types: a loop never counts
\* beyond one attempt more than _MAX_RECONNECT_ATTEMPTS.
THEOREM ConnectionTypeCorrect == Spec => []TypeOK
<1>1. Spec => []TypeInv
  BY TypeInit, TypeStep, PTL DEF Spec
<1> QED
  BY <1>1, TypeParts, PTL

-----------------------------------------------------------------------------
(* The flag and the window *)

\* A loop that ends resets the flag; who sets it starts a loop.
LEMMA FlagStep == TypeInv /\ FlagMeansLoop /\ [Next]_vars => FlagMeansLoop'
<1> SUFFICES ASSUME PcOK, FlagsOK, FlagMeansLoop, [Next]_vars PROVE FlagMeansLoop'
  BY DEF TypeInv
<1> USE ThreadsDiffer DEF PcOK, FlagsOK, FlagMeansLoop, LoopAlive, Alive, GoTo, net, flags, vars
<1>1. ASSUME NEW n \in Sockets, Break(n) \/ ReceiverLoop(n) \/ Receive(n) \/ ReceiveFails(n)
      PROVE FlagMeansLoop'
  BY <1>1 DEF Break, ReceiverLoop, Receive, ReceiveFails
<1>2. CASE SendFails
  BY <1>2 DEF SendFails
<1>3. ASSUME NEW t \in Callers, Thread(t) PROVE FlagMeansLoop'
  <2>1. CASE Check(t) \/ Off(t) \/ Fork(t)
    BY <2>1 DEF Check, Off, Fork
  <2>2. CASE StartLoop(t)
    BY <2>2 DEF StartLoop
  <2> QED
    BY <1>3, <2>1, <2>2 DEF Thread
<1>4. ASSUME NEW t \in LoopThreads, Loop(t) PROVE FlagMeansLoop'
  <2>1. CASE LoopEnd(t) \/ LoopDone(t)
    BY <2>1 DEF LoopEnd, LoopDone
  <2>2. CASE \/ LoopTop(t) \/ LoopDial(t) \/ LoopHello(t) \/ LoopHandshake(t)
             \/ LoopLogin(t) \/ LoopFail(t)
    BY <2>2 DEF LoopTop, LoopDial, LoopHello, LoopHandshake, LoopLogin, LoopFail, Ask
  <2>3. CASE LoopAuth(t)
    BY <2>3 DEF LoopAuth
  <2> QED
    BY <1>4, <2>1, <2>2, <2>3 DEF Loop
<1>5. CASE MoveStarts \/ MoveDials \/ Close \/ UNCHANGED vars
  BY <1>5 DEF MoveStarts, MoveDials, Close, Disconnect
<1>6. CASE MoveEnds
  BY <1>6 DEF MoveEnds, Disconnect
<1> QED
  BY <1>1, <1>2, <1>3, <1>4, <1>5, <1>6 DEF Next, Callers

\* _reconnecting is set only while a reconnect loop runs that resets it, for
\* any number of sockets and loops.
THEOREM FlagHolds == Spec => []FlagMeansLoop
<1>1. Init => FlagMeansLoop
  BY DEF Init, FlagMeansLoop
<1> QED
  BY <1>1, TypeInit, TypeStep, FlagStep, PTL DEF Spec

\* Whoever has taken the connection down, _handle_disconnect or a loop, is
\* still at work on it: what makes WindowKnows inductive.
Attended ==
    ui = "open" /\ told # "lost" /\ ~running =>
        \/ \E t \in Callers : pc[t] \in {"off", "fork", "set"}
        \/ \E t \in LoopThreads : pc[t] \in {"top", "sleep", "dialled", "hello", "failed"}

\* Whoever sets _running to False stays at work until the window is told.
LEMMA AttendedStep == TypeInv /\ Attended /\ [Next]_vars => Attended'
<1> SUFFICES ASSUME PcOK, FlagsOK, Attended, [Next]_vars PROVE Attended'
  BY DEF TypeInv
<1> USE ThreadsDiffer DEF PcOK, FlagsOK, Attended, GoTo, Tell, net, flags, vars
<1>1. ASSUME NEW n \in Sockets, Break(n) \/ ReceiverLoop(n) \/ Receive(n) \/ ReceiveFails(n)
      PROVE Attended'
  <2>1. CASE Break(n)
    BY <2>1 DEF Break
  <2>2. CASE ReceiverLoop(n)
    BY <2>2 DEF ReceiverLoop
  <2>3. CASE Receive(n) \/ ReceiveFails(n)
    BY <2>3 DEF Receive, ReceiveFails
  <2> QED
    BY <1>1, <2>1, <2>2, <2>3
<1>2. CASE SendFails
  BY <1>2 DEF SendFails
<1>3. ASSUME NEW t \in Callers, Thread(t) PROVE Attended'
  <2>1. CASE Check(t)
    BY <2>1 DEF Check
  <2>2. CASE Off(t)
    BY <2>2 DEF Off
  <2>3. CASE Fork(t)
    BY <2>3 DEF Fork
  <2>4. CASE StartLoop(t)
    BY <2>4 DEF StartLoop
  <2> QED
    BY <1>3, <2>1, <2>2, <2>3, <2>4 DEF Thread
<1>4. ASSUME NEW t \in LoopThreads, Loop(t) PROVE Attended'
  <2>1. CASE LoopTop(t)
    BY <2>1 DEF LoopTop
  <2>2. CASE LoopEnd(t)
    BY <2>2 DEF LoopEnd
  <2>3. CASE LoopDial(t)
    BY <2>3 DEF LoopDial
  <2>4. CASE LoopHandshake(t)
    BY <2>4 DEF LoopHandshake
  <2>5. CASE LoopAuth(t)
    <3>1. \A r \in Idle(Receivers) : pc[r] = "none"
      BY DEF Idle
    <3>2. CASE GoTo(t, "failed")
      BY <2>5, <3>2 DEF LoopAuth
    <3>3. ASSUME NEW r \in Idle(Receivers), pc' = [pc EXCEPT ![t] = "rejoin", ![r] = "loop"]
          PROVE Attended'
      BY <2>5, <3>1, <3>3 DEF LoopAuth
    <3> QED
      BY <2>5, <3>2, <3>3 DEF LoopAuth
  <2>6. CASE LoopDone(t)
    BY <2>6 DEF LoopDone
  <2>7. CASE LoopFail(t)
    BY <2>7 DEF LoopFail
  <2>8. CASE LoopHello(t) \/ LoopLogin(t)
    BY <2>8 DEF LoopHello, LoopLogin, Ask
  <2> QED
    BY <1>4, <2>1, <2>2, <2>3, <2>4, <2>5, <2>6, <2>7, <2>8 DEF Loop
<1>5. CASE MoveStarts \/ MoveDials \/ Close \/ UNCHANGED vars
  BY <1>5 DEF MoveStarts, MoveDials, Close, Disconnect
<1>6. CASE MoveEnds
  BY <1>6 DEF MoveEnds
<1> QED
  BY <1>1, <1>2, <1>3, <1>4, <1>5, <1>6 DEF Next, Callers

\* A window that was last told all is well has a connection or a thread that
\* is about to say otherwise, for any number of sockets, loops and attempts.
THEOREM WindowHolds == Spec => []WindowKnows
<1>1. Init => Attended
  BY DEF Init, Attended
<1>2. Attended => WindowKnows
  BY DEF Attended, WindowKnows, LoopAlive, Alive, HandlerAlive, Handling, Callers
<1> QED
  BY <1>1, <1>2, TypeInit, TypeStep, AttendedStep, PTL DEF Spec

-----------------------------------------------------------------------------
(* Where the connections end up: proofs about RoomRouting, for any servers   *)
(* and clients.                                                              *)

\* The state stays well-typed; in particular a client in the room, or at its
\* door, has a connection (Connect, Drop, Cleanup and Crash agree on that).
THEOREM RoutingTypeCorrect == RoutingSpec => []RoutingTypeOK
<1>1. RoutingInit => RoutingTypeOK
  <2> SUFFICES ASSUME RoutingInit PROVE RoutingTypeOK
    OBVIOUS
  <2>1. seenUp \in [Servers -> BOOLEAN]
    <3>1. PICK b \in BOOLEAN : seenUp = [sv \in Servers |-> b]
      BY RoutingAssumption DEF RoutingInit
    <3> QED
      BY <3>1
  <2>2. stale \in [Servers -> [Clients -> 0 .. MaxStale]]
    BY RoutingAssumption DEF RoutingInit
  <2> QED
    BY <2>1, <2>2 DEF RoutingInit, RoutingTypeOK, OnTheWay
<1>2. RoutingTypeOK /\ [RoutingNext]_routingVars => RoutingTypeOK'
  <2> SUFFICES ASSUME RoutingTypeOK, [RoutingNext]_routingVars PROVE RoutingTypeOK'
    OBVIOUS
  <2> USE RoutingAssumption DEF RoutingTypeOK, OnTheWay, ClientGoes, server, client
  <2>1. ASSUME NEW c \in Clients, Lookup(c) PROVE RoutingTypeOK'
    <3>0. astray' \in BOOLEAN
      BY <2>1 DEF Lookup
    <3>1. PICK sv \in Servers : target' = [target EXCEPT ![c] = sv]
      BY <2>1 DEF Lookup
    <3>2. way' = [way EXCEPT ![c] = "answered"] \/ way' = [way EXCEPT ![c] = "assign"]
      BY <2>1 DEF Lookup
    <3>3. UNCHANGED <<alive, seenUp, seats, pin, stale, conn, home, known>>
      BY <2>1 DEF Lookup
    <3> QED
      BY <3>0, <3>1, <3>2, <3>3
  <2>2. ASSUME NEW c \in Clients, Assign(c) PROVE RoutingTypeOK'
    BY <2>2 DEF Assign
  <2>3. ASSUME NEW c \in Clients, MayAbandon(c), Abandon(c)
        PROVE stale' \in [Servers -> [Clients -> 0 .. MaxStale]]
    <3>1. ASSUME NEW sv \in Servers
          PROVE [stale[sv] EXCEPT ![c] = IF sv = conn[c] THEN @ + 1 ELSE @]
                   \in [Clients -> 0 .. MaxStale]
      BY <2>3 DEF MayAbandon
    <3> QED
      BY <2>3, <3>1 DEF Abandon
  <2>4. ASSUME NEW c \in Clients, Connect(c) PROVE RoutingTypeOK'
    <3>1. CASE conn[c] = target[c]
      BY <2>4, <3>1 DEF Connect
    <3>2. CASE conn[c] # target[c]
      <4>1. stale' \in [Servers -> [Clients -> 0 .. MaxStale]]
        BY <2>3, <2>4, <3>2 DEF Connect
      <4>2. /\ home' = [home EXCEPT ![c] = NoServer]
            /\ UNCHANGED <<alive, seenUp, seats, pin, known, target, astray>>
        BY <2>4, <3>2 DEF Connect
      <4>3. \/ /\ conn' = [conn EXCEPT ![c] = target[c]]
               /\ way' = [way EXCEPT ![c] = "routed"]
            \/ /\ conn' = [conn EXCEPT ![c] = NoServer]
               /\ way' = [way EXCEPT ![c] = "idle"]
        BY <2>4, <3>2 DEF Connect
      <4>4. target[c] \in Servers
        BY <2>4 DEF Connect
      <4>5. CASE /\ conn' = [conn EXCEPT ![c] = target[c]]
                 /\ way' = [way EXCEPT ![c] = "routed"]
        BY <4>1, <4>2, <4>4, <4>5
      <4>6. CASE /\ conn' = [conn EXCEPT ![c] = NoServer]
                 /\ way' = [way EXCEPT ![c] = "idle"]
        BY <4>1, <4>2, <4>6
      <4> QED
        BY <4>3, <4>5, <4>6
    <3> QED
      BY <3>1, <3>2
  <2>5. ASSUME NEW c \in Clients, Drop(c) PROVE RoutingTypeOK'
    <3>1. stale' \in [Servers -> [Clients -> 0 .. MaxStale]]
      BY <2>3, <2>5 DEF Drop
    <3> QED
      BY <2>5, <3>1 DEF Drop
  <2>6. ASSUME NEW c \in Clients, Reconnect(c) PROVE RoutingTypeOK'
    BY <2>6 DEF Reconnect
  <2>7. ASSUME NEW c \in Clients, GiveUp(c) \/ Login(c) PROVE RoutingTypeOK'
    <3>1. CASE GiveUp(c)
      BY <3>1 DEF GiveUp
    <3>2. CASE Login(c)
      <4>1. PICK sv \in Servers : /\ conn' = [conn EXCEPT ![c] = sv]
                                 /\ home' = [home EXCEPT ![c] = sv]
        BY <3>2 DEF Login
      <4>2. known' \in SUBSET Clients
        BY <3>2 DEF Login
      <4>3. UNCHANGED <<alive, seenUp, seats, pin, stale, way, target, astray>>
        BY <3>2 DEF Login
      <4> QED
        BY <4>1, <4>2, <4>3
    <3> QED
      BY <2>7, <3>1, <3>2
  <2>8. ASSUME NEW c \in Clients, JoinCheck(c) \/ JoinDirectly(c) PROVE RoutingTypeOK'
    BY <2>8 DEF JoinCheck, JoinDirectly
  <2>9. ASSUME NEW c \in Clients, JoinEnter(c) PROVE RoutingTypeOK'
    BY <2>9 DEF JoinEnter
  <2>10. ASSUME NEW c \in Clients, Leave(c) PROVE RoutingTypeOK'
    BY <2>10 DEF Leave, Unseat
  <2>11. ASSUME NEW sv \in Servers, NEW c \in Clients, Cleanup(sv, c) PROVE RoutingTypeOK'
    <3>1. stale' \in [Servers -> [Clients -> 0 .. MaxStale]]
      BY <2>11 DEF Cleanup
    <3> QED
      BY <2>11, <3>1 DEF Cleanup, Unseat
  <2>12. ASSUME NEW sv \in Servers, CheckHealth(sv) PROVE RoutingTypeOK'
    BY <2>12 DEF CheckHealth
  <2>13. ASSUME NEW sv \in Servers, Crash(sv) PROVE RoutingTypeOK'
    <3>1. stale' \in [Servers -> [Clients -> 0 .. MaxStale]]
      BY <2>13 DEF Crash
    <3> QED
      BY <2>13, <3>1 DEF Crash
  <2>14. ASSUME NEW sv \in Servers, Restart(sv) PROVE RoutingTypeOK'
    BY <2>14 DEF Restart
  <2>15. CASE UNCHANGED routingVars
    BY <2>15 DEF routingVars
  <2> QED
    BY <2>1, <2>2, <2>4, <2>5, <2>6, <2>7, <2>8, <2>9, <2>10, <2>11, <2>12,
       <2>13, <2>14, <2>15 DEF RoutingNext
<1> QED
  BY <1>1, <1>2, PTL DEF RoutingSpec

-----------------------------------------------------------------------------
\* While no client has gone astray, the pin names the server of a room that has
\* clients, and whoever has been sent to a server, or let pass there, finds no
\* room with clients elsewhere.
Found ==
    /\ \A sv \in Servers : seats[sv] # {} => pin = sv
    /\ \A c \in Clients : way[c] = "assign" =>
          \A sv \in Servers : sv # target[c] => seats[sv] = {}
    /\ \A c \in Clients : way[c] = "checked" =>
          \A sv \in Servers : sv # conn[c] => seats[sv] = {}

RouteInv == ~astray => Found

LEMMA RouteInvHolds == RoutingSpec => []RouteInv
<1>1. RoutingInit => RouteInv
  BY DEF RoutingInit, RouteInv, Found
<1>2. RoutingTypeOK /\ RouteInv /\ [RoutingNext]_routingVars => RouteInv'
  <2> SUFFICES ASSUME RoutingTypeOK, RouteInv, [RoutingNext]_routingVars, ~astray'
               PROVE  Found'
    BY DEF RouteInv
  <2>0. astray' = FALSE => astray = FALSE
    BY DEF RoutingNext, routingVars, RoutingTypeOK, Lookup, Assign, Connect, JoinDirectly,
           Drop, Reconnect, GiveUp, Login, JoinCheck, JoinEnter, Leave, CheckHealth, Crash,
           Restart, Cleanup
  <2>a. Found
    BY <2>0 DEF RouteInv, RoutingTypeOK
  <2> USE <2>a, RoutingAssumption DEF RoutingTypeOK, Found, OnTheWay, ClientGoes, server, client
  <2>1. ASSUME NEW c \in Clients, Lookup(c) PROVE Found'
    <3>1. UNCHANGED <<seats, pin, conn>>
      BY <2>1 DEF Lookup
    <3>2. /\ \/ way' = [way EXCEPT ![c] = "answered"]
             \/ /\ way' = [way EXCEPT ![c] = "assign"]
                /\ pin \in Servers => seats[pin] = {}
          /\ \A d \in Clients \ {c} : target'[d] = target[d]
      BY <2>1 DEF Lookup
    <3> QED
      BY <3>1, <3>2
  <2>2. ASSUME NEW c \in Clients, Assign(c) PROVE Found'
    BY <2>2 DEF Assign
  <2>3. ASSUME NEW c \in Clients, Connect(c) PROVE Found'
    <3>1. UNCHANGED <<seats, pin, target>>
      BY <2>3 DEF Connect
    <3>2. \/ way' = [way EXCEPT ![c] = "routed"]
          \/ way' = [way EXCEPT ![c] = "idle"]
      BY <2>3 DEF Connect
    <3>3. \A d \in Clients \ {c} : conn'[d] = conn[d]
      BY <2>3 DEF Connect
    <3> QED
      BY <3>1, <3>2, <3>3
  <2>4. ASSUME NEW c \in Clients, Drop(c) \/ Reconnect(c) \/ JoinDirectly(c) PROVE Found'
    <3>1. UNCHANGED <<seats, pin, target>>
      BY <2>4 DEF Drop, Reconnect, JoinDirectly
    <3>2. \/ way' = [way EXCEPT ![c] = "routed"]
          \/ way' = [way EXCEPT ![c] = "idle"]
      BY <2>4 DEF Drop, Reconnect, JoinDirectly
    <3>3. \A d \in Clients \ {c} : conn'[d] = conn[d]
      BY <2>4 DEF Drop, Reconnect, JoinDirectly
    <3> QED
      BY <3>1, <3>2, <3>3
  <2>5. ASSUME NEW c \in Clients, GiveUp(c) \/ Login(c) PROVE Found'
    <3>1. UNCHANGED <<seats, pin, way, target>>
      BY <2>5 DEF GiveUp, Login
    <3>2. way[c] = "idle"
      BY <2>5 DEF GiveUp, Login
    <3>3. \A d \in Clients \ {c} : conn'[d] = conn[d]
      BY <2>5 DEF GiveUp, Login
    <3> QED
      BY <3>1, <3>2, <3>3
  <2>6. ASSUME NEW c \in Clients, JoinCheck(c) PROVE Found'
    BY <2>6 DEF JoinCheck
  <2>7. ASSUME NEW c \in Clients, JoinEnter(c) PROVE Found'
    <3>1. conn[c] \in Servers /\ way[c] = "checked"
      BY <2>7 DEF JoinEnter
    <3>2. pin' = conn[c]
      BY <2>7, <3>1 DEF JoinEnter
    <3>3. \A sv \in Servers : sv # conn[c] => seats'[sv] = {}
      BY <2>7, <3>1 DEF JoinEnter
    <3>4. /\ way' = [way EXCEPT ![c] = "in"]
          /\ UNCHANGED <<conn, target>>
      BY <2>7 DEF JoinEnter
    <3>5. ASSUME NEW d \in Clients, d # c
          PROVE  /\ way[d] = "assign" => target[d] = conn[c]
                 /\ way[d] = "checked" => conn[d] = conn[c]
      BY <2>7, <3>5 DEF JoinEnter, Decided
    <3> QED
      BY <3>2, <3>3, <3>4, <3>5
  <2>8. ASSUME NEW sv \in Servers, NEW c \in Clients, Unseat(sv, c)
        PROVE \A s2 \in Servers : seats'[s2] # {} => seats[s2] # {} /\ pin' = s2
    <3> SUFFICES ASSUME NEW s2 \in Servers, seats'[s2] # {}
                 PROVE  seats[s2] # {} /\ pin' = s2
      OBVIOUS
    <3>1. seats'[s2] = IF s2 = sv THEN seats[sv] \ {c} ELSE seats[s2]
      BY <2>8 DEF Unseat
    <3>2. seats[s2] # {} /\ pin = s2
      BY <3>1
    <3>3. seats[sv] # {c}
      BY <3>1, <3>2
    <3> QED
      BY <2>8, <3>2, <3>3 DEF Unseat
  <2>9. ASSUME NEW c \in Clients, Leave(c) PROVE Found'
    <3>1. conn[c] \in Servers /\ Unseat(conn[c], c)
      BY <2>9 DEF Leave
    <3>2. \A s2 \in Servers : seats'[s2] # {} => seats[s2] # {} /\ pin' = s2
      BY <2>8, <3>1
    <3>3. way' = [way EXCEPT ![c] = "idle"] /\ UNCHANGED <<conn, target>>
      BY <2>9 DEF Leave
    <3> QED
      BY <3>2, <3>3
  <2>10. ASSUME NEW sv \in Servers, NEW c \in Clients, Cleanup(sv, c) PROVE Found'
    <3>1. \A s2 \in Servers : seats'[s2] # {} => seats[s2] # {} /\ pin' = s2
      BY <2>8, <2>10 DEF Cleanup
    <3>2. \A d \in Clients : way'[d] \in OnTheWay => way'[d] = way[d]
      BY <2>10 DEF Cleanup
    <3>3. UNCHANGED <<conn, target>>
      BY <2>10 DEF Cleanup
    <3> QED
      BY <3>1, <3>2, <3>3
  <2>11. ASSUME NEW sv \in Servers, CheckHealth(sv) \/ Restart(sv) PROVE Found'
    BY <2>11 DEF CheckHealth, Restart
  <2>12. ASSUME NEW sv \in Servers, Crash(sv) PROVE Found'
    <3>1. \A s2 \in Servers : seats'[s2] # {} => seats'[s2] = seats[s2]
      BY <2>12 DEF Crash
    <3>2. UNCHANGED <<pin, target>>
      BY <2>12 DEF Crash
    <3>3. \A d \in Clients :
             /\ way'[d] = "assign" => way[d] = "assign"
             /\ way'[d] = "checked" => way[d] = "checked" /\ conn'[d] = conn[d]
      BY <2>12 DEF Crash
    <3> QED
      BY <3>1, <3>2, <3>3
  <2>13. CASE UNCHANGED routingVars
    BY <2>13 DEF routingVars
  <2> QED
    BY <2>1, <2>2, <2>3, <2>4, <2>5, <2>6, <2>7, <2>9, <2>10, <2>11, <2>12,
       <2>13 DEF RoutingNext
<1> QED
  BY <1>1, <1>2, RoutingTypeCorrect, PTL DEF RoutingSpec

\* All clients of a room are on one server, for any servers and clients, over
\* crashes, late and false health checks and clients that come together, until
\* one is sent away from a server with clients or is let in while another's
\* reading of the pin sends it elsewhere: Router._resolve, join_room's check and
\* the unconditional writes and deletions of the pin go wrong in no other way.
THEOREM RoomOnOneServer == RoutingSpec => []OneServer
<1>1. RouteInv => OneServer
  BY DEF RouteInv, Found, OneServer
<1> QED
  BY <1>1, RouteInvHolds, PTL

\* ... and a room that has clients has its pin.
THEOREM RoomKeepsPin == RoutingSpec => []PinNamesRoom
<1>1. RouteInv => PinNamesRoom
  BY DEF RouteInv, Found, PinNamesRoom
<1> QED
  BY <1>1, RouteInvHolds, PTL
=============================================================================
