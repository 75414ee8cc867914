-------------------------- MODULE RoomServerProofs --------------------------
(***************************************************************************)
(* Proofs about RoomServer for any number of users, sessions and rooms,    *)
(* and, in the last part, about the audio of a room (RoomAudio).           *)
(***************************************************************************)
EXTENDS RoomServer, RoomAudio, TLAPS

-----------------------------------------------------------------------------
(* Type correctness *)

\* Every step keeps the types, one case per action.
LEMMA TypeStep == TypeOK /\ [Next]_vars => TypeOK'
<1> SUFFICES ASSUME TypeOK, [Next]_vars PROVE TypeOK'
  OBVIOUS
<1> USE ConstantsAssumption
        DEF TypeOK, Step, InHandler, Leaving, Cleaning, ShareInfo, Share, NoShare, GoTo, Handle, Return,
            vars, handlerVars, roomVars, registryVars
<1>0. CASE UNCHANGED vars
  BY <1>0
<1>1. ASSUME NEW s \in Sessions, Accept(s) PROVE TypeOK'
  BY <1>1 DEF Accept
<1>2. ASSUME NEW s \in Sessions, Authenticate(s) PROVE TypeOK'
  BY <1>2 DEF Authenticate
<1>3. ASSUME NEW s \in Sessions, Reject(s) PROVE TypeOK'
  BY <1>3 DEF Reject
<1>4. ASSUME NEW s \in Sessions, Drop(s) PROVE TypeOK'
  BY <1>4 DEF Drop
<1>5. ASSUME NEW s \in Sessions, RegisterClient(s) PROVE TypeOK'
  BY <1>5 DEF RegisterClient
<1>6. ASSUME NEW s \in Sessions, RegisterOnline(s) PROVE TypeOK'
  <2>1. /\ pc' = [pc EXCEPT ![s] = "read"] \/ pc' = [pc EXCEPT ![s] = "cleanup"]
        /\ UNCHANGED <<running, handlerVars, roomVars, registered>>
    BY <1>6 DEF RegisterOnline
  <2>2. onlineUsers' \in SUBSET Users
    BY <1>6 DEF RegisterOnline
  <2>3. pc' \in [Sessions -> Step] /\ \A x \in Sessions : pc'[x] \in InHandler => pc[x] \in InHandler
    BY <2>1
  <2> QED
    BY <2>1, <2>2, <2>3
<1>7. ASSUME NEW s \in Sessions, JoinNoted(s) PROVE TypeOK'
  <2>1. room[s] \in Rooms
    BY <1>7 DEF JoinNoted
  <2>2. currentRooms' \in [Sessions -> SUBSET Rooms]
    BY <1>7, <2>1 DEF JoinNoted
  <2>3. UNCHANGED <<running, target, todo, unanswered, roomVars, registryVars>>
    BY <1>7 DEF JoinNoted
  <2>4. \/ pc' = [pc EXCEPT ![s] = "describe"] /\ room' = room
        \/ pc' = [pc EXCEPT ![s] = "read"] /\ room' = [room EXCEPT ![s] = NoRoom]
    BY <1>7 DEF JoinNoted
  <2>5. pc' \in [Sessions -> Step] /\ room' \in [Sessions -> Rooms \cup {NoRoom}]
    BY <2>4
  <2>6. \A x \in Sessions : pc'[x] \in InHandler => room'[x] \in Rooms
    BY <2>1, <2>4
  <2> QED
    BY <2>2, <2>3, <2>5, <2>6
<1>8. ASSUME NEW s \in Sessions, JoinDescribed(s) PROVE TypeOK'
  BY <1>8 DEF JoinDescribed
<1>9. ASSUME NEW s \in Sessions, LeaveClear(s) PROVE TypeOK'
  BY <1>9 DEF LeaveClear, ClearControllerIf
<1>10. ASSUME NEW s \in Sessions, LeaveCamera(s) PROVE TypeOK'
  BY <1>10 DEF LeaveCamera
<1>11. ASSUME NEW s \in Sessions, LeaveRoom(s) PROVE TypeOK'
  BY <1>11 DEF LeaveRoom, RemoveUser, Emptied, IsMember
<1>12. ASSUME NEW s \in Sessions, RemoteGrantSet(s) PROVE TypeOK'
  BY <1>12 DEF RemoteGrantSet, SetController
<1>13. ASSUME NEW s \in Sessions, CleanupBegin(s) PROVE TypeOK'
  BY <1>13 DEF CleanupBegin
<1>14. ASSUME NEW s \in Sessions, CleanupClear(s) PROVE TypeOK'
  BY <1>14 DEF CleanupClear, ClearControllerIf
<1>15. ASSUME NEW s \in Sessions, CleanupCamera(s) PROVE TypeOK'
  BY <1>15 DEF CleanupCamera
<1>16. ASSUME NEW s \in Sessions, CleanupRemove(s) PROVE TypeOK'
  BY <1>16 DEF CleanupRemove, RemoveUser, Emptied, IsMember
<1>17. ASSUME NEW s \in Sessions, UnregisterClient(s) PROVE TypeOK'
  BY <1>17 DEF UnregisterClient
<1>18. ASSUME NEW s \in Sessions, UnregisterOnline(s) PROVE TypeOK'
  BY <1>18 DEF UnregisterOnline
<1>19. ASSUME NEW s \in Sessions, NEW r \in Rooms, CleanupStop(s, r) PROVE TypeOK'
  BY <1>19 DEF CleanupStop, StopShare
<1>20. ASSUME NEW s \in Sessions, NEW r \in Rooms, JoinRoom(s, r) PROVE TypeOK'
  BY <1>20 DEF JoinRoom, TakeSeat, Receives
<1>21. ASSUME NEW s \in Sessions, NEW r \in Rooms, LazyJoin(s, r) PROVE TypeOK'
  BY <1>21 DEF LazyJoin, TakeSeat, Receives
<1>22. ASSUME NEW s \in Sessions, NEW r \in Rooms, LeaveStop(s, r) PROVE TypeOK'
  BY <1>22 DEF LeaveStop, StopShare, Receives
<1>23. ASSUME NEW s \in Sessions, NEW r \in Rooms, ScreenStart(s, r) PROVE TypeOK'
  BY <1>23 DEF ScreenStart, InRoom, Receives
<1>24. ASSUME NEW s \in Sessions, NEW r \in Rooms, ScreenStop(s, r) PROVE TypeOK'
  BY <1>24 DEF ScreenStop, InRoom, Receives, StopShare
<1>25. ASSUME NEW s \in Sessions, NEW r \in Rooms, RemoteRevoke(s, r) PROVE TypeOK'
  BY <1>25 DEF RemoteRevoke, InRoom, Receives, SetController
<1>26. ASSUME NEW s \in Sessions, NEW r \in Rooms, CameraStart(s, r) PROVE TypeOK'
  BY <1>26 DEF CameraStart, InRoom, Receives
<1>27. ASSUME NEW s \in Sessions, NEW r \in Rooms, CameraStop(s, r) PROVE TypeOK'
  BY <1>27 DEF CameraStop, InRoom, Receives
<1>28. ASSUME NEW s \in Sessions, NEW r \in Rooms, AudioChunk(s, r) PROVE TypeOK'
  BY <1>28 DEF AudioChunk, InRoom, Receives
<1>29. ASSUME NEW s \in Sessions, NEW r \in Rooms, NEW t \in Users, RemoteGrant(s, r, t) PROVE TypeOK'
  BY <1>29 DEF RemoteGrant, InRoom, Receives
<1> QED
  BY <1>0, <1>1, <1>2, <1>3, <1>4, <1>5, <1>6, <1>7, <1>8, <1>9, <1>10, <1>11, <1>12, <1>13, <1>14, <1>15, <1>16, <1>17, <1>18, <1>19, <1>20, <1>21, <1>22, <1>23, <1>24, <1>25, <1>26, <1>27, <1>28, <1>29 DEF Next, ThreadStep, PacketStep

\* The chat server's data structures keep their types.
THEOREM TypeCorrect == Spec => []TypeOK
<1>1. Init => TypeOK
  BY ConstantsAssumption DEF Init, TypeOK, Step, InHandler, Leaving, Cleaning, ShareInfo, Share, NoShare
<1> QED
  BY <1>1, TypeStep, PTL DEF Spec

-----------------------------------------------------------------------------
(* Seats: who is in which room, with any number of sessions per user *)

SeatInv == TypeOK /\ RoomsAreOccupied /\ NoDeadHandler

\* Rooms are created with their first client and destroyed with their last.
LEMMA OccupiedStep == SeatInv /\ [Next]_vars => RoomsAreOccupied'
<1> SUFFICES ASSUME TypeOK, RoomsAreOccupied, [Next]_vars PROVE RoomsAreOccupied'
  BY DEF SeatInv
<1> USE ConstantsAssumption
        DEF TypeOK, RoomsAreOccupied, IsMember, vars, handlerVars, roomVars, registryVars
<1>0. CASE UNCHANGED vars
  BY <1>0
<1>1. ASSUME NEW s \in Sessions, Accept(s) PROVE RoomsAreOccupied'
  BY <1>1 DEF Accept
<1>2. ASSUME NEW s \in Sessions, Authenticate(s) PROVE RoomsAreOccupied'
  BY <1>2 DEF Authenticate
<1>3. ASSUME NEW s \in Sessions, Reject(s) PROVE RoomsAreOccupied'
  BY <1>3 DEF Reject
<1>4. ASSUME NEW s \in Sessions, Drop(s) PROVE RoomsAreOccupied'
  BY <1>4 DEF Drop
<1>5. ASSUME NEW s \in Sessions, RegisterClient(s) PROVE RoomsAreOccupied'
  BY <1>5 DEF RegisterClient
<1>6. ASSUME NEW s \in Sessions, RegisterOnline(s) PROVE RoomsAreOccupied'
  BY <1>6 DEF RegisterOnline
<1>7. ASSUME NEW s \in Sessions, JoinNoted(s) PROVE RoomsAreOccupied'
  BY <1>7 DEF JoinNoted
<1>8. ASSUME NEW s \in Sessions, JoinDescribed(s) PROVE RoomsAreOccupied'
  BY <1>8 DEF JoinDescribed
<1>9. ASSUME NEW s \in Sessions, LeaveClear(s) PROVE RoomsAreOccupied'
  BY <1>9 DEF LeaveClear, ClearControllerIf
<1>10. ASSUME NEW s \in Sessions, LeaveCamera(s) PROVE RoomsAreOccupied'
  BY <1>10 DEF LeaveCamera
<1>11. ASSUME NEW s \in Sessions, LeaveRoom(s) PROVE RoomsAreOccupied'
  BY <1>11 DEF LeaveRoom, RemoveUser, Emptied
<1>12. ASSUME NEW s \in Sessions, RemoteGrantSet(s) PROVE RoomsAreOccupied'
  BY <1>12 DEF RemoteGrantSet, SetController
<1>13. ASSUME NEW s \in Sessions, CleanupBegin(s) PROVE RoomsAreOccupied'
  BY <1>13 DEF CleanupBegin
<1>14. ASSUME NEW s \in Sessions, CleanupClear(s) PROVE RoomsAreOccupied'
  BY <1>14 DEF CleanupClear, ClearControllerIf
<1>15. ASSUME NEW s \in Sessions, CleanupCamera(s) PROVE RoomsAreOccupied'
  BY <1>15 DEF CleanupCamera
<1>16. ASSUME NEW s \in Sessions, CleanupRemove(s) PROVE RoomsAreOccupied'
  BY <1>16 DEF CleanupRemove, RemoveUser, Emptied
<1>17. ASSUME NEW s \in Sessions, UnregisterClient(s) PROVE RoomsAreOccupied'
  BY <1>17 DEF UnregisterClient
<1>18. ASSUME NEW s \in Sessions, UnregisterOnline(s) PROVE RoomsAreOccupied'
  BY <1>18 DEF UnregisterOnline
<1>19. ASSUME NEW s \in Sessions, NEW r \in Rooms, CleanupStop(s, r) PROVE RoomsAreOccupied'
  BY <1>19 DEF CleanupStop, StopShare
<1>20. ASSUME NEW s \in Sessions, NEW r \in Rooms, JoinRoom(s, r) PROVE RoomsAreOccupied'
  BY <1>20 DEF JoinRoom, TakeSeat, Receives
<1>21. ASSUME NEW s \in Sessions, NEW r \in Rooms, LazyJoin(s, r) PROVE RoomsAreOccupied'
  BY <1>21 DEF LazyJoin, TakeSeat, Receives
<1>22. ASSUME NEW s \in Sessions, NEW r \in Rooms, LeaveStop(s, r) PROVE RoomsAreOccupied'
  BY <1>22 DEF LeaveStop, StopShare, Receives
<1>23. ASSUME NEW s \in Sessions, NEW r \in Rooms, ScreenStart(s, r) PROVE RoomsAreOccupied'
  BY <1>23 DEF ScreenStart, InRoom, Receives
<1>24. ASSUME NEW s \in Sessions, NEW r \in Rooms, ScreenStop(s, r) PROVE RoomsAreOccupied'
  BY <1>24 DEF ScreenStop, InRoom, Receives, StopShare
<1>25. ASSUME NEW s \in Sessions, NEW r \in Rooms, RemoteRevoke(s, r) PROVE RoomsAreOccupied'
  BY <1>25 DEF RemoteRevoke, InRoom, Receives, SetController
<1>26. ASSUME NEW s \in Sessions, NEW r \in Rooms, CameraStart(s, r) PROVE RoomsAreOccupied'
  BY <1>26 DEF CameraStart, InRoom, Receives
<1>27. ASSUME NEW s \in Sessions, NEW r \in Rooms, CameraStop(s, r) PROVE RoomsAreOccupied'
  BY <1>27 DEF CameraStop, InRoom, Receives
<1>28. ASSUME NEW s \in Sessions, NEW r \in Rooms, AudioChunk(s, r) PROVE RoomsAreOccupied'
  BY <1>28 DEF AudioChunk, InRoom, Receives
<1>29. ASSUME NEW s \in Sessions, NEW r \in Rooms, NEW t \in Users, RemoteGrant(s, r, t) PROVE RoomsAreOccupied'
  BY <1>29 DEF RemoteGrant, InRoom, Receives
<1> QED
  BY <1>0, <1>1, <1>2, <1>3, <1>4, <1>5, <1>6, <1>7, <1>8, <1>9, <1>10, <1>11, <1>12, <1>13, <1>14, <1>15, <1>16, <1>17, <1>18, <1>19, <1>20, <1>21, <1>22, <1>23, <1>24, <1>25, <1>26, <1>27, <1>28, <1>29 DEF Next, ThreadStep, PacketStep

\* A thread's name is out of every table by the time the thread is over.
LEMMA DeadHandlerStep == SeatInv /\ [Next]_vars => NoDeadHandler'
<1> SUFFICES ASSUME TypeOK, RoomsAreOccupied, NoDeadHandler, [Next]_vars
             PROVE NoDeadHandler'
  BY DEF SeatInv
<1> USE ConstantsAssumption
        DEF TypeOK, NoDeadHandler, NotServing, GoTo, Handle, Return,
            vars, handlerVars, roomVars, registryVars
<1>0. CASE UNCHANGED vars
  BY <1>0
<1>1. ASSUME NEW s \in Sessions, Accept(s) PROVE NoDeadHandler'
  BY <1>1 DEF Accept
<1>2. ASSUME NEW s \in Sessions, Authenticate(s) PROVE NoDeadHandler'
  BY <1>2 DEF Authenticate
<1>3. ASSUME NEW s \in Sessions, Reject(s) PROVE NoDeadHandler'
  BY <1>3 DEF Reject
<1>4. ASSUME NEW s \in Sessions, Drop(s) PROVE NoDeadHandler'
  BY <1>4 DEF Drop
<1>5. ASSUME NEW s \in Sessions, RegisterClient(s) PROVE NoDeadHandler'
  BY <1>5 DEF RegisterClient
<1>6. ASSUME NEW s \in Sessions, RegisterOnline(s) PROVE NoDeadHandler'
  BY <1>6 DEF RegisterOnline
<1>7. ASSUME NEW s \in Sessions, JoinNoted(s) PROVE NoDeadHandler'
  BY <1>7 DEF JoinNoted
<1>8. ASSUME NEW s \in Sessions, JoinDescribed(s) PROVE NoDeadHandler'
  BY <1>8 DEF JoinDescribed
<1>9. ASSUME NEW s \in Sessions, LeaveClear(s) PROVE NoDeadHandler'
  BY <1>9 DEF LeaveClear, ClearControllerIf
<1>10. ASSUME NEW s \in Sessions, LeaveCamera(s) PROVE NoDeadHandler'
  BY <1>10 DEF LeaveCamera
<1>11. ASSUME NEW s \in Sessions, LeaveRoom(s) PROVE NoDeadHandler'
  BY <1>11 DEF LeaveRoom, RemoveUser, Emptied
<1>12. ASSUME NEW s \in Sessions, RemoteGrantSet(s) PROVE NoDeadHandler'
  BY <1>12 DEF RemoteGrantSet, SetController
<1>13. ASSUME NEW s \in Sessions, CleanupBegin(s) PROVE NoDeadHandler'
  BY <1>13 DEF CleanupBegin
<1>14. ASSUME NEW s \in Sessions, CleanupClear(s) PROVE NoDeadHandler'
  BY <1>14 DEF CleanupClear, ClearControllerIf
<1>15. ASSUME NEW s \in Sessions, CleanupCamera(s) PROVE NoDeadHandler'
  BY <1>15 DEF CleanupCamera
<1>16. ASSUME NEW s \in Sessions, CleanupRemove(s) PROVE NoDeadHandler'
  BY <1>16 DEF CleanupRemove, RemoveUser, Emptied, RoomsAreOccupied, IsMember
<1>17. ASSUME NEW s \in Sessions, UnregisterClient(s) PROVE NoDeadHandler'
  BY <1>17 DEF UnregisterClient
<1>18. ASSUME NEW s \in Sessions, UnregisterOnline(s) PROVE NoDeadHandler'
  BY <1>18 DEF UnregisterOnline
<1>19. ASSUME NEW s \in Sessions, NEW r \in Rooms, CleanupStop(s, r) PROVE NoDeadHandler'
  BY <1>19 DEF CleanupStop, StopShare
<1>20. ASSUME NEW s \in Sessions, NEW r \in Rooms, JoinRoom(s, r) PROVE NoDeadHandler'
  BY <1>20 DEF JoinRoom, TakeSeat, Receives
<1>21. ASSUME NEW s \in Sessions, NEW r \in Rooms, LazyJoin(s, r) PROVE NoDeadHandler'
  BY <1>21 DEF LazyJoin, TakeSeat, Receives
<1>22. ASSUME NEW s \in Sessions, NEW r \in Rooms, LeaveStop(s, r) PROVE NoDeadHandler'
  BY <1>22 DEF LeaveStop, StopShare, Receives
<1>23. ASSUME NEW s \in Sessions, NEW r \in Rooms, ScreenStart(s, r) PROVE NoDeadHandler'
  BY <1>23 DEF ScreenStart, InRoom, Receives
<1>24. ASSUME NEW s \in Sessions, NEW r \in Rooms, ScreenStop(s, r) PROVE NoDeadHandler'
  BY <1>24 DEF ScreenStop, InRoom, Receives, StopShare
<1>25. ASSUME NEW s \in Sessions, NEW r \in Rooms, RemoteRevoke(s, r) PROVE NoDeadHandler'
  BY <1>25 DEF RemoteRevoke, InRoom, Receives, SetController
<1>26. ASSUME NEW s \in Sessions, NEW r \in Rooms, CameraStart(s, r) PROVE NoDeadHandler'
  BY <1>26 DEF CameraStart, InRoom, Receives
<1>27. ASSUME NEW s \in Sessions, NEW r \in Rooms, CameraStop(s, r) PROVE NoDeadHandler'
  BY <1>27 DEF CameraStop, InRoom, Receives
<1>28. ASSUME NEW s \in Sessions, NEW r \in Rooms, AudioChunk(s, r) PROVE NoDeadHandler'
  BY <1>28 DEF AudioChunk, InRoom, Receives
<1>29. ASSUME NEW s \in Sessions, NEW r \in Rooms, NEW t \in Users, RemoteGrant(s, r, t) PROVE NoDeadHandler'
  BY <1>29 DEF RemoteGrant, InRoom, Receives
<1> QED
  BY <1>0, <1>1, <1>2, <1>3, <1>4, <1>5, <1>6, <1>7, <1>8, <1>9, <1>10, <1>11, <1>12, <1>13, <1>14, <1>15, <1>16, <1>17, <1>18, <1>19, <1>20, <1>21, <1>22, <1>23, <1>24, <1>25, <1>26, <1>27, <1>28, <1>29 DEF Next, ThreadStep, PacketStep

\* The initial state, and with the lemmas above every later one, satisfies the
\* seat invariant.
LEMMA SeatInvariant == Spec => []SeatInv
<1>1. Init => TypeOK
  BY ConstantsAssumption
     DEF Init, TypeOK, Step, InHandler, Leaving, Cleaning, ShareInfo, Share, NoShare
<1>2. Init => RoomsAreOccupied /\ NoDeadHandler
  BY ConstantsAssumption DEF Init, RoomsAreOccupied, NoDeadHandler, IsMember, NotServing
<1>3. SeatInv /\ [Next]_vars => SeatInv'
  BY TypeStep, OccupiedStep, DeadHandlerStep DEF SeatInv
<1> QED
  BY <1>1, <1>2, <1>3, PTL DEF Spec, SeatInv

\* RoomManager keeps a room exactly as long as somebody is in it.
THEOREM RoomsStayOccupied == Spec => []RoomsAreOccupied
<1>1. SeatInv => RoomsAreOccupied
  BY DEF SeatInv
<1> QED
  BY <1>1, SeatInvariant, PTL

\* room["clients"] and ChatServer._clients never hold a thread that is over.
THEOREM HandlersAreLive == Spec => []NoDeadHandler
<1>1. SeatInv => NoDeadHandler
  BY DEF SeatInv
<1> QED
  BY <1>1, SeatInvariant, PTL

\* A seat the thread has not noted yet, or has just forgotten, is the one of
\* the handler it is in.
SeatKnown ==
    \A s \in Sessions, r \in Rooms :
        clients[r][UserOf[s]] = s =>
            \/ r \in currentRooms[s]
            \/ pc[s] \in {"joined", "leave_room"} /\ room[s] = r

\* Each step keeps that.
LEMMA SeatKnownStep == SeatInv /\ SeatKnown /\ [Next]_vars => SeatKnown'
<1> SUFFICES ASSUME TypeOK, RoomsAreOccupied, NoDeadHandler, SeatKnown, [Next]_vars
             PROVE SeatKnown'
  BY DEF SeatInv
<1> USE ConstantsAssumption
        DEF TypeOK, NoDeadHandler, NotServing, SeatKnown, GoTo, Handle, Return,
            vars, handlerVars, roomVars, registryVars
<1>0. CASE UNCHANGED vars
  BY <1>0
<1>1. ASSUME NEW s \in Sessions, Accept(s) PROVE SeatKnown'
  BY <1>1 DEF Accept
<1>2. ASSUME NEW s \in Sessions, Authenticate(s) PROVE SeatKnown'
  BY <1>2 DEF Authenticate
<1>3. ASSUME NEW s \in Sessions, Reject(s) PROVE SeatKnown'
  BY <1>3 DEF Reject
<1>4. ASSUME NEW s \in Sessions, Drop(s) PROVE SeatKnown'
  BY <1>4 DEF Drop
<1>5. ASSUME NEW s \in Sessions, RegisterClient(s) PROVE SeatKnown'
  BY <1>5 DEF RegisterClient
<1>6. ASSUME NEW s \in Sessions, RegisterOnline(s) PROVE SeatKnown'
  BY <1>6 DEF RegisterOnline
<1>7. ASSUME NEW s \in Sessions, JoinNoted(s) PROVE SeatKnown'
  BY <1>7 DEF JoinNoted
<1>8. ASSUME NEW s \in Sessions, JoinDescribed(s) PROVE SeatKnown'
  BY <1>8 DEF JoinDescribed
<1>9. ASSUME NEW s \in Sessions, LeaveClear(s) PROVE SeatKnown'
  BY <1>9 DEF LeaveClear, ClearControllerIf
<1>10. ASSUME NEW s \in Sessions, LeaveCamera(s) PROVE SeatKnown'
  BY <1>10 DEF LeaveCamera
<1>11. ASSUME NEW s \in Sessions, LeaveRoom(s) PROVE SeatKnown'
  BY <1>11 DEF LeaveRoom, RemoveUser, Emptied, RoomsAreOccupied, IsMember
<1>12. ASSUME NEW s \in Sessions, RemoteGrantSet(s) PROVE SeatKnown'
  BY <1>12 DEF RemoteGrantSet, SetController
<1>13. ASSUME NEW s \in Sessions, CleanupBegin(s) PROVE SeatKnown'
  BY <1>13 DEF CleanupBegin
<1>14. ASSUME NEW s \in Sessions, CleanupClear(s) PROVE SeatKnown'
  BY <1>14 DEF CleanupClear, ClearControllerIf
<1>15. ASSUME NEW s \in Sessions, CleanupCamera(s) PROVE SeatKnown'
  BY <1>15 DEF CleanupCamera
<1>16. ASSUME NEW s \in Sessions, CleanupRemove(s) PROVE SeatKnown'
  BY <1>16 DEF CleanupRemove, RemoveUser, Emptied
<1>17. ASSUME NEW s \in Sessions, UnregisterClient(s) PROVE SeatKnown'
  BY <1>17 DEF UnregisterClient
<1>18. ASSUME NEW s \in Sessions, UnregisterOnline(s) PROVE SeatKnown'
  BY <1>18 DEF UnregisterOnline
<1>19. ASSUME NEW s \in Sessions, NEW r \in Rooms, CleanupStop(s, r) PROVE SeatKnown'
  BY <1>19 DEF CleanupStop, StopShare
<1>20. ASSUME NEW s \in Sessions, NEW r \in Rooms, JoinRoom(s, r) PROVE SeatKnown'
  BY <1>20 DEF JoinRoom, TakeSeat, Receives
<1>21. ASSUME NEW s \in Sessions, NEW r \in Rooms, LazyJoin(s, r) PROVE SeatKnown'
  BY <1>21 DEF LazyJoin, TakeSeat, Receives
<1>22. ASSUME NEW s \in Sessions, NEW r \in Rooms, LeaveStop(s, r) PROVE SeatKnown'
  BY <1>22 DEF LeaveStop, StopShare, Receives
<1>23. ASSUME NEW s \in Sessions, NEW r \in Rooms, ScreenStart(s, r) PROVE SeatKnown'
  BY <1>23 DEF ScreenStart, InRoom, Receives
<1>24. ASSUME NEW s \in Sessions, NEW r \in Rooms, ScreenStop(s, r) PROVE SeatKnown'
  BY <1>24 DEF ScreenStop, InRoom, Receives, StopShare
<1>25. ASSUME NEW s \in Sessions, NEW r \in Rooms, RemoteRevoke(s, r) PROVE SeatKnown'
  BY <1>25 DEF RemoteRevoke, InRoom, Receives, SetController
<1>26. ASSUME NEW s \in Sessions, NEW r \in Rooms, CameraStart(s, r) PROVE SeatKnown'
  BY <1>26 DEF CameraStart, InRoom, Receives
<1>27. ASSUME NEW s \in Sessions, NEW r \in Rooms, CameraStop(s, r) PROVE SeatKnown'
  BY <1>27 DEF CameraStop, InRoom, Receives
<1>28. ASSUME NEW s \in Sessions, NEW r \in Rooms, AudioChunk(s, r) PROVE SeatKnown'
  BY <1>28 DEF AudioChunk, InRoom, Receives
<1>29. ASSUME NEW s \in Sessions, NEW r \in Rooms, NEW t \in Users, RemoteGrant(s, r, t) PROVE SeatKnown'
  BY <1>29 DEF RemoteGrant, InRoom, Receives
<1> QED
  BY <1>0, <1>1, <1>2, <1>3, <1>4, <1>5, <1>6, <1>7, <1>8, <1>9, <1>10, <1>11, <1>12, <1>13, <1>14, <1>15, <1>16, <1>17, <1>18, <1>19, <1>20, <1>21, <1>22, <1>23, <1>24, <1>25, <1>26, <1>27, <1>28, <1>29 DEF Next, ThreadStep, PacketStep

\* Cleanup and permission checks miss no room the handler is entered in.
THEOREM NoRoomForgotten == Spec => []NoForgottenRoom
<1>1. Init => SeatKnown
  BY ConstantsAssumption DEF Init, SeatKnown
<1>2. SeatKnown => NoForgottenRoom
  BY DEF SeatKnown, NoForgottenRoom
<1> QED
  BY <1>1, <1>2, SeatKnownStep, SeatInvariant, PTL DEF Spec

-----------------------------------------------------------------------------
(* Shares and grants *)

\* A step that changes who shares starts a share or ends one.
SharerStep ==
    \A r \in Rooms :
        screen'[r].sharer # screen[r].sharer =>
            /\ NoUser \in {screen[r].sharer, screen'[r].sharer}
            /\ screen'[r].controller = NoUser

\* start_share, stop_share and the destruction of a room are such steps.
LEMMA TakeoverStep == TypeOK /\ [Next]_vars => SharerStep
<1> SUFFICES ASSUME TypeOK, [Next]_vars PROVE SharerStep
  OBVIOUS
<1> USE ConstantsAssumption
        DEF TypeOK, SharerStep, Share, NoShare, ShareInfo,
            vars, handlerVars, roomVars, registryVars
<1>0. CASE UNCHANGED vars
  BY <1>0
<1>1. ASSUME NEW s \in Sessions, Accept(s) PROVE SharerStep
  BY <1>1 DEF Accept
<1>2. ASSUME NEW s \in Sessions, Authenticate(s) PROVE SharerStep
  BY <1>2 DEF Authenticate
<1>3. ASSUME NEW s \in Sessions, Reject(s) PROVE SharerStep
  BY <1>3 DEF Reject
<1>4. ASSUME NEW s \in Sessions, Drop(s) PROVE SharerStep
  BY <1>4 DEF Drop
<1>5. ASSUME NEW s \in Sessions, RegisterClient(s) PROVE SharerStep
  BY <1>5 DEF RegisterClient
<1>6. ASSUME NEW s \in Sessions, RegisterOnline(s) PROVE SharerStep
  BY <1>6 DEF RegisterOnline
<1>7. ASSUME NEW s \in Sessions, JoinNoted(s) PROVE SharerStep
  BY <1>7 DEF JoinNoted
<1>8. ASSUME NEW s \in Sessions, JoinDescribed(s) PROVE SharerStep
  BY <1>8 DEF JoinDescribed
<1>9. ASSUME NEW s \in Sessions, LeaveClear(s) PROVE SharerStep
  BY <1>9 DEF LeaveClear, ClearControllerIf
<1>10. ASSUME NEW s \in Sessions, LeaveCamera(s) PROVE SharerStep
  BY <1>10 DEF LeaveCamera
<1>11. ASSUME NEW s \in Sessions, LeaveRoom(s) PROVE SharerStep
  BY <1>11 DEF LeaveRoom, RemoveUser, Emptied
<1>12. ASSUME NEW s \in Sessions, RemoteGrantSet(s) PROVE SharerStep
  BY <1>12 DEF RemoteGrantSet, SetController
<1>13. ASSUME NEW s \in Sessions, CleanupBegin(s) PROVE SharerStep
  BY <1>13 DEF CleanupBegin
<1>14. ASSUME NEW s \in Sessions, CleanupClear(s) PROVE SharerStep
  BY <1>14 DEF CleanupClear, ClearControllerIf
<1>15. ASSUME NEW s \in Sessions, CleanupCamera(s) PROVE SharerStep
  BY <1>15 DEF CleanupCamera
<1>16. ASSUME NEW s \in Sessions, CleanupRemove(s) PROVE SharerStep
  BY <1>16 DEF CleanupRemove, RemoveUser, Emptied
<1>17. ASSUME NEW s \in Sessions, UnregisterClient(s) PROVE SharerStep
  BY <1>17 DEF UnregisterClient
<1>18. ASSUME NEW s \in Sessions, UnregisterOnline(s) PROVE SharerStep
  BY <1>18 DEF UnregisterOnline
<1>19. ASSUME NEW s \in Sessions, NEW r \in Rooms, CleanupStop(s, r) PROVE SharerStep
  BY <1>19 DEF CleanupStop, StopShare
<1>20. ASSUME NEW s \in Sessions, NEW r \in Rooms, JoinRoom(s, r) PROVE SharerStep
  BY <1>20 DEF JoinRoom, TakeSeat, Receives
<1>21. ASSUME NEW s \in Sessions, NEW r \in Rooms, LazyJoin(s, r) PROVE SharerStep
  BY <1>21 DEF LazyJoin, TakeSeat, Receives
<1>22. ASSUME NEW s \in Sessions, NEW r \in Rooms, LeaveStop(s, r) PROVE SharerStep
  BY <1>22 DEF LeaveStop, StopShare, Receives
<1>23. ASSUME NEW s \in Sessions, NEW r \in Rooms, ScreenStart(s, r) PROVE SharerStep
  BY <1>23 DEF ScreenStart, InRoom, Receives
<1>24. ASSUME NEW s \in Sessions, NEW r \in Rooms, ScreenStop(s, r) PROVE SharerStep
  BY <1>24 DEF ScreenStop, InRoom, Receives, StopShare
<1>25. ASSUME NEW s \in Sessions, NEW r \in Rooms, RemoteRevoke(s, r) PROVE SharerStep
  BY <1>25 DEF RemoteRevoke, InRoom, Receives, SetController
<1>26. ASSUME NEW s \in Sessions, NEW r \in Rooms, CameraStart(s, r) PROVE SharerStep
  BY <1>26 DEF CameraStart, InRoom, Receives
<1>27. ASSUME NEW s \in Sessions, NEW r \in Rooms, CameraStop(s, r) PROVE SharerStep
  BY <1>27 DEF CameraStop, InRoom, Receives
<1>28. ASSUME NEW s \in Sessions, NEW r \in Rooms, AudioChunk(s, r) PROVE SharerStep
  BY <1>28 DEF AudioChunk, InRoom, Receives
<1>29. ASSUME NEW s \in Sessions, NEW r \in Rooms, NEW t \in Users, RemoteGrant(s, r, t) PROVE SharerStep
  BY <1>29 DEF RemoteGrant, InRoom, Receives
<1> QED
  BY <1>0, <1>1, <1>2, <1>3, <1>4, <1>5, <1>6, <1>7, <1>8, <1>9, <1>10, <1>11, <1>12, <1>13, <1>14, <1>15, <1>16, <1>17, <1>18, <1>19, <1>20, <1>21, <1>22, <1>23, <1>24, <1>25, <1>26, <1>27, <1>28, <1>29 DEF Next, ThreadStep, PacketStep

\* Nobody's share is taken over, and no grant passes from share to share.
THEOREM SharesAreNotTakenOver == Spec => NoTakeover
<1>1. TypeOK /\ [Next]_vars => [SharerStep]_screen
  BY TakeoverStep
<1> QED
  BY <1>1, TypeCorrect, PTL DEF Spec, NoTakeover, SharerStep

-----------------------------------------------------------------------------
(* One session per user *)

\* What a handler believes it is in, it is in, until _cleanup has removed it.
SeatHeld ==
    \A s \in Sessions, r \in Rooms :
        r \in currentRooms[s] /\ pc[s] \notin {"unregister", "offline"} =>
            clients[r][UserOf[s]] = s

\* ... and so is what it is about to note.
SeatTaken ==
    \A s \in Sessions : pc[s] = "joined" => clients[room[s]][UserOf[s]] = s

\* A handler that is about to give up its seats has given up its share there.
ShareYielded ==
    \A s \in Sessions :
        /\ pc[s] \in Leaving => screen[room[s]].sharer # UserOf[s]
        /\ pc[s] = "leave_room" => room[s] \notin currentRooms[s]
        /\ pc[s] \in {"next_room", "cleanup_clear", "cleanup_camera"} =>
              \A r \in Rooms : screen[r].sharer = UserOf[s] => r \in todo[s]

OneInv == SeatInv /\ SeatKnown /\ SeatHeld /\ SeatTaken /\ ShareYielded
          /\ OwnersAreMembers

\* Nobody but the user's own thread takes its seat away.
LEMMA SeatHeldStep ==
    SingleSession /\ OneInv /\ [Next]_vars => SeatHeld' /\ SeatTaken'
<1> SUFFICES ASSUME SingleSession, TypeOK, NoDeadHandler, SeatHeld, SeatTaken,
                    ShareYielded, [Next]_vars
             PROVE SeatHeld' /\ SeatTaken'
  BY DEF OneInv, SeatInv
<1> USE ConstantsAssumption
        DEF SingleSession, TypeOK, NoDeadHandler, NotServing, SeatHeld, SeatTaken, InHandler, GoTo, Handle, Return,
            vars, handlerVars, roomVars, registryVars
<1>0. CASE UNCHANGED vars
  BY <1>0
<1>1. ASSUME NEW s \in Sessions, Accept(s) PROVE SeatHeld' /\ SeatTaken'
  BY <1>1 DEF Accept
<1>2. ASSUME NEW s \in Sessions, Authenticate(s) PROVE SeatHeld' /\ SeatTaken'
  BY <1>2 DEF Authenticate
<1>3. ASSUME NEW s \in Sessions, Reject(s) PROVE SeatHeld' /\ SeatTaken'
  BY <1>3 DEF Reject
<1>4. ASSUME NEW s \in Sessions, Drop(s) PROVE SeatHeld' /\ SeatTaken'
  BY <1>4 DEF Drop
<1>5. ASSUME NEW s \in Sessions, RegisterClient(s) PROVE SeatHeld' /\ SeatTaken'
  BY <1>5 DEF RegisterClient
<1>6. ASSUME NEW s \in Sessions, RegisterOnline(s) PROVE SeatHeld' /\ SeatTaken'
  <2>1. UNCHANGED <<currentRooms, room, clients>> /\ pc[s] = "announce"
    BY <1>6 DEF RegisterOnline
  <2>2. pc'[s] \in {"read", "cleanup"} /\ \A x \in Sessions \ {s} : pc'[x] = pc[x]
    BY <1>6 DEF RegisterOnline
  <2>3. \A x \in Sessions : pc'[x] \notin {"unregister", "offline"} =>
                              pc[x] \notin {"unregister", "offline"}
    BY <2>1, <2>2
  <2>4. \A x \in Sessions : pc'[x] = "joined" => pc[x] = "joined"
    BY <2>1, <2>2
  <2>5. SeatHeld'
    BY <2>1, <2>3
  <2>6. SeatTaken'
    BY <2>1, <2>4
  <2> QED
    BY <2>5, <2>6
<1>7. ASSUME NEW s \in Sessions, JoinNoted(s) PROVE SeatHeld' /\ SeatTaken'
  <2>1. currentRooms' = [currentRooms EXCEPT ![s] = @ \cup {room[s]}] /\ clients' = clients
    BY <1>7 DEF JoinNoted
  <2>2. \A x \in Sessions \ {s} : pc'[x] = pc[x] /\ room'[x] = room[x]
    BY <1>7 DEF JoinNoted
  <2>3. pc[s] = "joined" /\ pc'[s] \in {"describe", "read"}
    BY <1>7 DEF JoinNoted
  <2>4. clients[room[s]][UserOf[s]] = s
    BY <2>3
  <2>5. \A x \in Sessions : pc'[x] \notin {"unregister", "offline"} =>
                              pc[x] \notin {"unregister", "offline"}
    BY <2>2, <2>3
  <2>6. SeatHeld'
    BY <2>1, <2>4, <2>5
  <2>7. \A x \in Sessions : pc'[x] = "joined" => pc[x] = "joined" /\ room'[x] = room[x]
    BY <2>2, <2>3
  <2>8. SeatTaken'
    BY <2>1, <2>7
  <2> QED
    BY <2>6, <2>8
<1>8. ASSUME NEW s \in Sessions, JoinDescribed(s) PROVE SeatHeld' /\ SeatTaken'
  BY <1>8 DEF JoinDescribed
<1>9. ASSUME NEW s \in Sessions, LeaveClear(s) PROVE SeatHeld' /\ SeatTaken'
  BY <1>9 DEF LeaveClear, ClearControllerIf
<1>10. ASSUME NEW s \in Sessions, LeaveCamera(s) PROVE SeatHeld' /\ SeatTaken'
  BY <1>10 DEF LeaveCamera
<1>11. ASSUME NEW s \in Sessions, LeaveRoom(s) PROVE SeatHeld' /\ SeatTaken'
  BY <1>11 DEF LeaveRoom, RemoveUser, Emptied, ShareYielded, Leaving
<1>12. ASSUME NEW s \in Sessions, RemoteGrantSet(s) PROVE SeatHeld' /\ SeatTaken'
  BY <1>12 DEF RemoteGrantSet, SetController
<1>13. ASSUME NEW s \in Sessions, CleanupBegin(s) PROVE SeatHeld' /\ SeatTaken'
  BY <1>13 DEF CleanupBegin
<1>14. ASSUME NEW s \in Sessions, CleanupClear(s) PROVE SeatHeld' /\ SeatTaken'
  BY <1>14 DEF CleanupClear, ClearControllerIf
<1>15. ASSUME NEW s \in Sessions, CleanupCamera(s) PROVE SeatHeld' /\ SeatTaken'
  BY <1>15 DEF CleanupCamera
<1>16. ASSUME NEW s \in Sessions, CleanupRemove(s) PROVE SeatHeld' /\ SeatTaken'
  BY <1>16 DEF CleanupRemove, RemoveUser, Emptied
<1>17. ASSUME NEW s \in Sessions, UnregisterClient(s) PROVE SeatHeld' /\ SeatTaken'
  BY <1>17 DEF UnregisterClient
<1>18. ASSUME NEW s \in Sessions, UnregisterOnline(s) PROVE SeatHeld' /\ SeatTaken'
  BY <1>18 DEF UnregisterOnline
<1>19. ASSUME NEW s \in Sessions, NEW r \in Rooms, CleanupStop(s, r) PROVE SeatHeld' /\ SeatTaken'
  BY <1>19 DEF CleanupStop, StopShare
<1>20. ASSUME NEW s \in Sessions, NEW r \in Rooms, JoinRoom(s, r) PROVE SeatHeld' /\ SeatTaken'
  BY <1>20 DEF JoinRoom, TakeSeat, Receives
<1>21. ASSUME NEW s \in Sessions, NEW r \in Rooms, LazyJoin(s, r) PROVE SeatHeld' /\ SeatTaken'
  BY <1>21 DEF LazyJoin, TakeSeat, Receives
<1>22. ASSUME NEW s \in Sessions, NEW r \in Rooms, LeaveStop(s, r) PROVE SeatHeld' /\ SeatTaken'
  BY <1>22 DEF LeaveStop, StopShare, Receives
<1>23. ASSUME NEW s \in Sessions, NEW r \in Rooms, ScreenStart(s, r) PROVE SeatHeld' /\ SeatTaken'
  BY <1>23 DEF ScreenStart, InRoom, Receives
<1>24. ASSUME NEW s \in Sessions, NEW r \in Rooms, ScreenStop(s, r) PROVE SeatHeld' /\ SeatTaken'
  BY <1>24 DEF ScreenStop, InRoom, Receives, StopShare
<1>25. ASSUME NEW s \in Sessions, NEW r \in Rooms, RemoteRevoke(s, r) PROVE SeatHeld' /\ SeatTaken'
  BY <1>25 DEF RemoteRevoke, InRoom, Receives, SetController
<1>26. ASSUME NEW s \in Sessions, NEW r \in Rooms, CameraStart(s, r) PROVE SeatHeld' /\ SeatTaken'
  BY <1>26 DEF CameraStart, InRoom, Receives
<1>27. ASSUME NEW s \in Sessions, NEW r \in Rooms, CameraStop(s, r) PROVE SeatHeld' /\ SeatTaken'
  BY <1>27 DEF CameraStop, InRoom, Receives
<1>28. ASSUME NEW s \in Sessions, NEW r \in Rooms, AudioChunk(s, r) PROVE SeatHeld' /\ SeatTaken'
  BY <1>28 DEF AudioChunk, InRoom, Receives
<1>29. ASSUME NEW s \in Sessions, NEW r \in Rooms, NEW t \in Users, RemoteGrant(s, r, t) PROVE SeatHeld' /\ SeatTaken'
  BY <1>29 DEF RemoteGrant, InRoom, Receives
<1> QED
  BY <1>0, <1>1, <1>2, <1>3, <1>4, <1>5, <1>6, <1>7, <1>8, <1>9, <1>10, <1>11, <1>12, <1>13, <1>14, <1>15, <1>16, <1>17, <1>18, <1>19, <1>20, <1>21, <1>22, <1>23, <1>24, <1>25, <1>26, <1>27, <1>28, <1>29 DEF Next, ThreadStep, PacketStep

\* The share is gone before the seat is: stop_if_sharer comes first in
\* _handle_leave_room, and _cleanup visits every room that could show it.
LEMMA ShareYieldedStep ==
    SingleSession /\ OneInv /\ [Next]_vars => ShareYielded'
<1> SUFFICES ASSUME SingleSession, TypeOK, NoDeadHandler, SeatKnown, ShareYielded,
                    OwnersAreMembers, [Next]_vars
             PROVE ShareYielded'
  BY DEF OneInv, SeatInv
<1> USE ConstantsAssumption
        DEF SingleSession, TypeOK, ShareYielded, Leaving, InHandler, GoTo, Handle, Return,
            Share, NoShare, ShareInfo, vars, handlerVars, roomVars, registryVars
<1>0. CASE UNCHANGED vars
  BY <1>0
<1>1. ASSUME NEW s \in Sessions, Accept(s) PROVE ShareYielded'
  BY <1>1 DEF Accept
<1>2. ASSUME NEW s \in Sessions, Authenticate(s) PROVE ShareYielded'
  BY <1>2 DEF Authenticate
<1>3. ASSUME NEW s \in Sessions, Reject(s) PROVE ShareYielded'
  BY <1>3 DEF Reject
<1>4. ASSUME NEW s \in Sessions, Drop(s) PROVE ShareYielded'
  BY <1>4 DEF Drop
<1>5. ASSUME NEW s \in Sessions, RegisterClient(s) PROVE ShareYielded'
  BY <1>5 DEF RegisterClient
<1>6. ASSUME NEW s \in Sessions, RegisterOnline(s) PROVE ShareYielded'
  BY <1>6 DEF RegisterOnline
<1>7. ASSUME NEW s \in Sessions, JoinNoted(s) PROVE ShareYielded'
  BY <1>7 DEF JoinNoted
<1>8. ASSUME NEW s \in Sessions, JoinDescribed(s) PROVE ShareYielded'
  BY <1>8 DEF JoinDescribed
<1>9. ASSUME NEW s \in Sessions, LeaveClear(s) PROVE ShareYielded'
  BY <1>9 DEF LeaveClear, ClearControllerIf
<1>10. ASSUME NEW s \in Sessions, LeaveCamera(s) PROVE ShareYielded'
  BY <1>10 DEF LeaveCamera
<1>11. ASSUME NEW s \in Sessions, LeaveRoom(s) PROVE ShareYielded'
  BY <1>11 DEF LeaveRoom, RemoveUser, Emptied
<1>12. ASSUME NEW s \in Sessions, RemoteGrantSet(s) PROVE ShareYielded'
  BY <1>12 DEF RemoteGrantSet, SetController
<1>13. ASSUME NEW s \in Sessions, CleanupBegin(s) PROVE ShareYielded'
  BY <1>13 DEF CleanupBegin, OwnersAreMembers, SeatKnown, NoDeadHandler, IsMember
<1>14. ASSUME NEW s \in Sessions, CleanupClear(s) PROVE ShareYielded'
  BY <1>14 DEF CleanupClear, ClearControllerIf
<1>15. ASSUME NEW s \in Sessions, CleanupCamera(s) PROVE ShareYielded'
  BY <1>15 DEF CleanupCamera
<1>16. ASSUME NEW s \in Sessions, CleanupRemove(s) PROVE ShareYielded'
  BY <1>16 DEF CleanupRemove, RemoveUser, Emptied
<1>17. ASSUME NEW s \in Sessions, UnregisterClient(s) PROVE ShareYielded'
  BY <1>17 DEF UnregisterClient
<1>18. ASSUME NEW s \in Sessions, UnregisterOnline(s) PROVE ShareYielded'
  BY <1>18 DEF UnregisterOnline
<1>19. ASSUME NEW s \in Sessions, NEW r \in Rooms, CleanupStop(s, r) PROVE ShareYielded'
  BY <1>19 DEF CleanupStop, StopShare
<1>20. ASSUME NEW s \in Sessions, NEW r \in Rooms, JoinRoom(s, r) PROVE ShareYielded'
  BY <1>20 DEF JoinRoom, TakeSeat, Receives
<1>21. ASSUME NEW s \in Sessions, NEW r \in Rooms, LazyJoin(s, r) PROVE ShareYielded'
  BY <1>21 DEF LazyJoin, TakeSeat, Receives
<1>22. ASSUME NEW s \in Sessions, NEW r \in Rooms, LeaveStop(s, r) PROVE ShareYielded'
  BY <1>22 DEF LeaveStop, StopShare, Receives
<1>23. ASSUME NEW s \in Sessions, NEW r \in Rooms, ScreenStart(s, r) PROVE ShareYielded'
  BY <1>23 DEF ScreenStart, InRoom, Receives
<1>24. ASSUME NEW s \in Sessions, NEW r \in Rooms, ScreenStop(s, r) PROVE ShareYielded'
  BY <1>24 DEF ScreenStop, InRoom, Receives, StopShare
<1>25. ASSUME NEW s \in Sessions, NEW r \in Rooms, RemoteRevoke(s, r) PROVE ShareYielded'
  BY <1>25 DEF RemoteRevoke, InRoom, Receives, SetController
<1>26. ASSUME NEW s \in Sessions, NEW r \in Rooms, CameraStart(s, r) PROVE ShareYielded'
  BY <1>26 DEF CameraStart, InRoom, Receives
<1>27. ASSUME NEW s \in Sessions, NEW r \in Rooms, CameraStop(s, r) PROVE ShareYielded'
  BY <1>27 DEF CameraStop, InRoom, Receives
<1>28. ASSUME NEW s \in Sessions, NEW r \in Rooms, AudioChunk(s, r) PROVE ShareYielded'
  BY <1>28 DEF AudioChunk, InRoom, Receives
<1>29. ASSUME NEW s \in Sessions, NEW r \in Rooms, NEW t \in Users, RemoteGrant(s, r, t) PROVE ShareYielded'
  BY <1>29 DEF RemoteGrant, InRoom, Receives
<1> QED
  BY <1>0, <1>1, <1>2, <1>3, <1>4, <1>5, <1>6, <1>7, <1>8, <1>9, <1>10, <1>11, <1>12, <1>13, <1>14, <1>15, <1>16, <1>17, <1>18, <1>19, <1>20, <1>21, <1>22, <1>23, <1>24, <1>25, <1>26, <1>27, <1>28, <1>29 DEF Next, ThreadStep, PacketStep

\* A handler that passes the membership check of a packet is in the room.
LEMMA CheckedIsMember ==
    ASSUME TypeOK, SeatHeld, NEW s \in Sessions, NEW r \in Rooms, InRoom(s, r)
    PROVE  IsMember(r, UserOf[s])
<1>1. clients[r][UserOf[s]] = s
  BY DEF SeatHeld, InRoom, Receives
<1>2. s # NoSession
  BY ConstantsAssumption
<1> QED
  BY <1>1, <1>2 DEF IsMember

\* Shares, cameras and audio streams go with the seat at the latest.
LEMMA OwnersStep ==
    SingleSession /\ OneInv /\ [Next]_vars => OwnersAreMembers'
<1> SUFFICES ASSUME SingleSession, TypeOK, SeatHeld, ShareYielded,
                    OwnersAreMembers, [Next]_vars
             PROVE OwnersAreMembers'
  BY DEF OneInv, SeatInv
<1> USE ConstantsAssumption
        DEF TypeOK, OwnersAreMembers, IsMember, SeatHeld,
            Share, NoShare, ShareInfo, vars, handlerVars, roomVars, registryVars
<1>0. CASE UNCHANGED vars
  BY <1>0
<1>1. ASSUME NEW s \in Sessions, Accept(s) PROVE OwnersAreMembers'
  BY <1>1 DEF Accept
<1>2. ASSUME NEW s \in Sessions, Authenticate(s) PROVE OwnersAreMembers'
  BY <1>2 DEF Authenticate
<1>3. ASSUME NEW s \in Sessions, Reject(s) PROVE OwnersAreMembers'
  BY <1>3 DEF Reject
<1>4. ASSUME NEW s \in Sessions, Drop(s) PROVE OwnersAreMembers'
  BY <1>4 DEF Drop
<1>5. ASSUME NEW s \in Sessions, RegisterClient(s) PROVE OwnersAreMembers'
  BY <1>5 DEF RegisterClient
<1>6. ASSUME NEW s \in Sessions, RegisterOnline(s) PROVE OwnersAreMembers'
  BY <1>6 DEF RegisterOnline
<1>7. ASSUME NEW s \in Sessions, JoinNoted(s) PROVE OwnersAreMembers'
  BY <1>7 DEF JoinNoted
<1>8. ASSUME NEW s \in Sessions, JoinDescribed(s) PROVE OwnersAreMembers'
  BY <1>8 DEF JoinDescribed
<1>9. ASSUME NEW s \in Sessions, LeaveClear(s) PROVE OwnersAreMembers'
  BY <1>9 DEF LeaveClear, ClearControllerIf
<1>10. ASSUME NEW s \in Sessions, LeaveCamera(s) PROVE OwnersAreMembers'
  BY <1>10 DEF LeaveCamera
<1>11. ASSUME NEW s \in Sessions, LeaveRoom(s) PROVE OwnersAreMembers'
  BY <1>11 DEF LeaveRoom, RemoveUser, Emptied, ShareYielded, Leaving
<1>12. ASSUME NEW s \in Sessions, RemoteGrantSet(s) PROVE OwnersAreMembers'
  BY <1>12 DEF RemoteGrantSet, SetController
<1>13. ASSUME NEW s \in Sessions, CleanupBegin(s) PROVE OwnersAreMembers'
  BY <1>13 DEF CleanupBegin
<1>14. ASSUME NEW s \in Sessions, CleanupClear(s) PROVE OwnersAreMembers'
  BY <1>14 DEF CleanupClear, ClearControllerIf
<1>15. ASSUME NEW s \in Sessions, CleanupCamera(s) PROVE OwnersAreMembers'
  BY <1>15 DEF CleanupCamera
<1>16. ASSUME NEW s \in Sessions, CleanupRemove(s) PROVE OwnersAreMembers'
  BY <1>16 DEF CleanupRemove, RemoveUser, Emptied, ShareYielded
<1>17. ASSUME NEW s \in Sessions, UnregisterClient(s) PROVE OwnersAreMembers'
  BY <1>17 DEF UnregisterClient
<1>18. ASSUME NEW s \in Sessions, UnregisterOnline(s) PROVE OwnersAreMembers'
  BY <1>18 DEF UnregisterOnline
<1>19. ASSUME NEW s \in Sessions, NEW r \in Rooms, CleanupStop(s, r) PROVE OwnersAreMembers'
  BY <1>19 DEF CleanupStop, StopShare
<1>20. ASSUME NEW s \in Sessions, NEW r \in Rooms, JoinRoom(s, r) PROVE OwnersAreMembers'
  BY <1>20 DEF JoinRoom, TakeSeat, Receives
<1>21. ASSUME NEW s \in Sessions, NEW r \in Rooms, LazyJoin(s, r) PROVE OwnersAreMembers'
  BY <1>21 DEF LazyJoin, TakeSeat, Receives
<1>22. ASSUME NEW s \in Sessions, NEW r \in Rooms, LeaveStop(s, r) PROVE OwnersAreMembers'
  BY <1>22 DEF LeaveStop, StopShare, Receives
<1>23. ASSUME NEW s \in Sessions, NEW r \in Rooms, ScreenStart(s, r) PROVE OwnersAreMembers'
  <2>1. IsMember(r, UserOf[s])
    BY <1>23, CheckedIsMember DEF ScreenStart
  <2> QED
    BY <1>23, <2>1 DEF ScreenStart
<1>24. ASSUME NEW s \in Sessions, NEW r \in Rooms, ScreenStop(s, r) PROVE OwnersAreMembers'
  BY <1>24 DEF ScreenStop, InRoom, Receives, StopShare
<1>25. ASSUME NEW s \in Sessions, NEW r \in Rooms, RemoteRevoke(s, r) PROVE OwnersAreMembers'
  BY <1>25 DEF RemoteRevoke, InRoom, Receives, SetController
<1>26. ASSUME NEW s \in Sessions, NEW r \in Rooms, CameraStart(s, r) PROVE OwnersAreMembers'
  <2>1. IsMember(r, UserOf[s])
    BY <1>26, CheckedIsMember DEF CameraStart
  <2> QED
    BY <1>26, <2>1 DEF CameraStart
<1>27. ASSUME NEW s \in Sessions, NEW r \in Rooms, CameraStop(s, r) PROVE OwnersAreMembers'
  BY <1>27 DEF CameraStop, InRoom, Receives
<1>28. ASSUME NEW s \in Sessions, NEW r \in Rooms, AudioChunk(s, r) PROVE OwnersAreMembers'
  <2>1. IsMember(r, UserOf[s])
    BY <1>28, CheckedIsMember DEF AudioChunk
  <2> QED
    BY <1>28, <2>1 DEF AudioChunk
<1>29. ASSUME NEW s \in Sessions, NEW r \in Rooms, NEW t \in Users, RemoteGrant(s, r, t) PROVE OwnersAreMembers'
  BY <1>29 DEF RemoteGrant, InRoom, Receives
<1> QED
  BY <1>0, <1>1, <1>2, <1>3, <1>4, <1>5, <1>6, <1>7, <1>8, <1>9, <1>10, <1>11, <1>12, <1>13, <1>14, <1>15, <1>16, <1>17, <1>18, <1>19, <1>20, <1>21, <1>22, <1>23, <1>24, <1>25, <1>26, <1>27, <1>28, <1>29 DEF Next, ThreadStep, PacketStep

\* The invariant of a server with one session per user.
LEMMA OneInvariant == ASSUME SingleSession PROVE Spec => []OneInv
<1>1. Init => SeatKnown /\ SeatHeld /\ SeatTaken /\ ShareYielded /\ OwnersAreMembers
  BY ConstantsAssumption
     DEF Init, SeatKnown, SeatHeld, SeatTaken, ShareYielded, OwnersAreMembers, Leaving, Share, NoShare
<1>2. OneInv /\ SeatInv' /\ [Next]_vars => OneInv'
  BY SingleSession, SeatKnownStep, SeatHeldStep, ShareYieldedStep, OwnersStep DEF OneInv
<1> QED
  BY <1>1, <1>2, SeatInvariant, PTL DEF Spec, OneInv

\* Shares, cameras and audio participants belong to users in the room.
THEOREM OwnersStayMembers == ASSUME SingleSession PROVE Spec => []OwnersAreMembers
<1>1. OneInv => OwnersAreMembers
  BY DEF OneInv
<1> QED
  BY <1>1, OneInvariant, SingleSession, PTL

\* A handler's own list of rooms is where the RoomManager has it.
THEOREM RoomsAlwaysAgree == ASSUME SingleSession PROVE Spec => []RoomsAgree
<1>1. OneInv => RoomsAgree
  <2> SUFFICES ASSUME OneInv, NEW s \in Sessions, pc[s] = "read"
               PROVE  currentRooms[s] = {r \in Rooms : clients[r][UserOf[s]] = s}
    BY DEF RoomsAgree
  <2>1. currentRooms[s] \subseteq Rooms
    BY DEF OneInv, SeatInv, TypeOK
  <2>2. \A r \in Rooms : r \in currentRooms[s] <=> clients[r][UserOf[s]] = s
    BY DEF OneInv, SeatKnown, SeatHeld
  <2> QED
    BY <2>1, <2>2
<1> QED
  BY <1>1, OneInvariant, SingleSession, PTL

-----------------------------------------------------------------------------
(* The server implements Floor *)

FloorStep == [RoomFloor!Next]_(RoomFloor!vars)

\* Steps that touch neither seats nor sharers are invisible in Floor.
LEMMA FloorStutter ==
    ASSUME TypeOK, clients' = clients,
           \A r \in Rooms : screen'[r].sharer = screen[r].sharer
    PROVE  FloorStep
  BY DEF FloorStep, RoomFloor!vars, IsMember

\* Taking a seat is Enter.
LEMMA FloorEnter ==
    ASSUME TypeOK, NEW s \in Sessions, NEW r \in Rooms,
           clients' = [clients EXCEPT ![r][UserOf[s]] = s], screen' = screen
    PROVE  RoomFloor!Enter(r, UserOf[s])
<1> DEFINE M == [q \in Rooms |-> {u \in Users : IsMember(q, u)}]
           M1 == [q \in Rooms |-> {u \in Users : clients'[q][u] # NoSession}]
<1>1. \A q \in Rooms, u \in Users :
          clients'[q][u] # NoSession <=> IsMember(q, u) \/ (q = r /\ u = UserOf[s])
  BY ConstantsAssumption DEF TypeOK, IsMember
<1>2. UserOf[s] \in Users
  BY ConstantsAssumption
<1>3. \A q \in Rooms : M1[q] = IF q = r THEN M[q] \cup {UserOf[s]} ELSE M[q]
  BY <1>1, <1>2
<1>4. M1 = [M EXCEPT ![r] = @ \cup {UserOf[s]}]
  BY <1>3
<1> QED
  BY <1>4 DEF RoomFloor!Enter, IsMember

\* stop_share by the sharer is Yield.
LEMMA FloorYield ==
    ASSUME TypeOK, NEW r \in Rooms, NEW u \in Users, screen[r].sharer = u,
           screen' = [screen EXCEPT ![r] = NoShare], clients' = clients
    PROVE  RoomFloor!Yield(r, u)
<1> DEFINE H == [q \in Rooms |-> screen[q].sharer]
           H1 == [q \in Rooms |-> screen'[q].sharer]
<1>1. H1 = [H EXCEPT ![r] = NoUser]
  BY DEF TypeOK, Share, NoShare
<1>2. H[r] = u
  OBVIOUS
<1> QED
  BY <1>1, <1>2 DEF RoomFloor!Yield, IsMember

\* start_share by a member is Take.
LEMMA FloorTake ==
    ASSUME TypeOK, NEW r \in Rooms, NEW u \in Users, screen[r].sharer = NoUser,
           IsMember(r, u),
           screen' = [screen EXCEPT ![r] = Share(u, NoUser)], clients' = clients
    PROVE  RoomFloor!Take(r, u)
<1> DEFINE H == [q \in Rooms |-> screen[q].sharer]
           H1 == [q \in Rooms |-> screen'[q].sharer]
           M == [q \in Rooms |-> {v \in Users : IsMember(q, v)}]
<1>1. H1 = [H EXCEPT ![r] = u]
  BY DEF TypeOK, Share
<1>2. H[r] = NoUser
  OBVIOUS
<1>3. u \in M[r]
  OBVIOUS
<1> QED
  BY <1>1, <1>2, <1>3 DEF RoomFloor!Take, IsMember

\* Giving up seats in rooms that do not show one's screen is Exit: a room left
\* empty showed nobody's screen.
LEMMA FloorExit ==
    ASSUME TypeOK, OwnersAreMembers, NEW u \in Users, NEW R \in SUBSET Rooms,
           \A r \in R : screen[r].sharer # u, RemoveUser(u, R)
    PROVE  RoomFloor!Exit(R, u)
<1> DEFINE M == [q \in Rooms |-> {v \in Users : IsMember(q, v)}]
           M1 == [q \in Rooms |-> {v \in Users : clients'[q][v] # NoSession}]
<1>1. \A q \in Rooms, v \in Users :
          clients'[q][v] # NoSession <=> IsMember(q, v) /\ ~(q \in R /\ v = u)
  BY DEF RemoveUser, TypeOK, IsMember
<1>2. M1 = [q \in Rooms |-> IF q \in R THEN M[q] \ {u} ELSE M[q]]
  BY <1>1
<1>3. \A r \in Emptied(R, u) : screen[r].sharer = NoUser
  BY DEF Emptied, OwnersAreMembers, TypeOK, ShareInfo
<1>4. \A q \in Rooms : screen'[q].sharer = screen[q].sharer
  BY <1>3 DEF RemoveUser, TypeOK, ShareInfo, Share, NoShare
<1>5. [q \in Rooms |-> screen'[q].sharer] = [q \in Rooms |-> screen[q].sharer]
  BY <1>4
<1> QED
  BY <1>2, <1>5 DEF RoomFloor!Exit, IsMember

\* Every step of every thread is a step of Floor or invisible in it.
LEMMA FloorNext == OneInv /\ [Next]_vars => FloorStep
<1> SUFFICES ASSUME TypeOK, SeatHeld, ShareYielded, OwnersAreMembers, [Next]_vars
             PROVE FloorStep
  BY DEF OneInv, SeatInv
<1> USE ConstantsAssumption
        DEF TypeOK, Share, NoShare, ShareInfo, FloorStep,
            vars, handlerVars, roomVars, registryVars
<1>0. CASE UNCHANGED vars
  BY <1>0, FloorStutter
<1>1. ASSUME NEW s \in Sessions, Accept(s) PROVE FloorStep
  <2>1. clients' = clients /\ \A q \in Rooms : screen'[q].sharer = screen[q].sharer
    BY <1>1 DEF Accept
  <2> QED
    BY <2>1, FloorStutter
<1>2. ASSUME NEW s \in Sessions, Authenticate(s) PROVE FloorStep
  <2>1. clients' = clients /\ \A q \in Rooms : screen'[q].sharer = screen[q].sharer
    BY <1>2 DEF Authenticate
  <2> QED
    BY <2>1, FloorStutter
<1>3. ASSUME NEW s \in Sessions, Reject(s) PROVE FloorStep
  <2>1. clients' = clients /\ \A q \in Rooms : screen'[q].sharer = screen[q].sharer
    BY <1>3 DEF Reject
  <2> QED
    BY <2>1, FloorStutter
<1>4. ASSUME NEW s \in Sessions, Drop(s) PROVE FloorStep
  <2>1. clients' = clients /\ \A q \in Rooms : screen'[q].sharer = screen[q].sharer
    BY <1>4 DEF Drop
  <2> QED
    BY <2>1, FloorStutter
<1>5. ASSUME NEW s \in Sessions, RegisterClient(s) PROVE FloorStep
  <2>1. clients' = clients /\ \A q \in Rooms : screen'[q].sharer = screen[q].sharer
    BY <1>5 DEF RegisterClient
  <2> QED
    BY <2>1, FloorStutter
<1>6. ASSUME NEW s \in Sessions, RegisterOnline(s) PROVE FloorStep
  <2>1. clients' = clients /\ \A q \in Rooms : screen'[q].sharer = screen[q].sharer
    BY <1>6 DEF RegisterOnline
  <2> QED
    BY <2>1, FloorStutter
<1>7. ASSUME NEW s \in Sessions, JoinNoted(s) PROVE FloorStep
  <2>1. clients' = clients /\ \A q \in Rooms : screen'[q].sharer = screen[q].sharer
    BY <1>7 DEF JoinNoted
  <2> QED
    BY <2>1, FloorStutter
<1>8. ASSUME NEW s \in Sessions, JoinDescribed(s) PROVE FloorStep
  <2>1. clients' = clients /\ \A q \in Rooms : screen'[q].sharer = screen[q].sharer
    BY <1>8 DEF JoinDescribed
  <2> QED
    BY <2>1, FloorStutter
<1>9. ASSUME NEW s \in Sessions, LeaveClear(s) PROVE FloorStep
  <2>1. clients' = clients /\ \A q \in Rooms : screen'[q].sharer = screen[q].sharer
    BY <1>9 DEF LeaveClear, ClearControllerIf
  <2> QED
    BY <2>1, FloorStutter
<1>10. ASSUME NEW s \in Sessions, LeaveCamera(s) PROVE FloorStep
  <2>1. clients' = clients /\ \A q \in Rooms : screen'[q].sharer = screen[q].sharer
    BY <1>10 DEF LeaveCamera
  <2> QED
    BY <2>1, FloorStutter
<1>11. ASSUME NEW s \in Sessions, LeaveRoom(s) PROVE FloorStep
  <2>1. screen[room[s]].sharer # UserOf[s] /\ room[s] \in Rooms
    BY <1>11 DEF LeaveRoom, ShareYielded, Leaving, InHandler
  <2>2. RoomFloor!Exit({room[s]} \cap open, UserOf[s])
    BY <1>11, <2>1, FloorExit DEF LeaveRoom
  <2> QED
    BY <2>2 DEF RoomFloor!Next
<1>12. ASSUME NEW s \in Sessions, RemoteGrantSet(s) PROVE FloorStep
  <2>1. clients' = clients /\ \A q \in Rooms : screen'[q].sharer = screen[q].sharer
    BY <1>12 DEF RemoteGrantSet, SetController
  <2> QED
    BY <2>1, FloorStutter
<1>13. ASSUME NEW s \in Sessions, CleanupBegin(s) PROVE FloorStep
  <2>1. clients' = clients /\ \A q \in Rooms : screen'[q].sharer = screen[q].sharer
    BY <1>13 DEF CleanupBegin
  <2> QED
    BY <2>1, FloorStutter
<1>14. ASSUME NEW s \in Sessions, CleanupClear(s) PROVE FloorStep
  <2>1. clients' = clients /\ \A q \in Rooms : screen'[q].sharer = screen[q].sharer
    BY <1>14 DEF CleanupClear, ClearControllerIf
  <2> QED
    BY <2>1, FloorStutter
<1>15. ASSUME NEW s \in Sessions, CleanupCamera(s) PROVE FloorStep
  <2>1. clients' = clients /\ \A q \in Rooms : screen'[q].sharer = screen[q].sharer
    BY <1>15 DEF CleanupCamera
  <2> QED
    BY <2>1, FloorStutter
<1>16. ASSUME NEW s \in Sessions, CleanupRemove(s) PROVE FloorStep
  <2>1. \A q \in Rooms : screen[q].sharer # UserOf[s]
    BY <1>16 DEF CleanupRemove, ShareYielded
  <2>2. RoomFloor!Exit({q \in open : IsMember(q, UserOf[s])}, UserOf[s])
    BY <1>16, <2>1, FloorExit DEF CleanupRemove
  <2> QED
    BY <2>2 DEF RoomFloor!Next
<1>17. ASSUME NEW s \in Sessions, UnregisterClient(s) PROVE FloorStep
  <2>1. clients' = clients /\ \A q \in Rooms : screen'[q].sharer = screen[q].sharer
    BY <1>17 DEF UnregisterClient
  <2> QED
    BY <2>1, FloorStutter
<1>18. ASSUME NEW s \in Sessions, UnregisterOnline(s) PROVE FloorStep
  <2>1. clients' = clients /\ \A q \in Rooms : screen'[q].sharer = screen[q].sharer
    BY <1>18 DEF UnregisterOnline
  <2> QED
    BY <2>1, FloorStutter
<1>19. ASSUME NEW s \in Sessions, NEW r \in Rooms, CleanupStop(s, r) PROVE FloorStep
  <2>1. CASE screen[r].sharer = UserOf[s]
    <3>1. RoomFloor!Yield(r, UserOf[s])
      BY <1>19, <2>1, FloorYield DEF CleanupStop, StopShare
    <3> QED
      BY <3>1 DEF RoomFloor!Next
  <2>2. CASE screen[r].sharer # UserOf[s]
    BY <1>19, <2>2, FloorStutter DEF CleanupStop, StopShare
  <2> QED
    BY <2>1, <2>2
<1>20. ASSUME NEW s \in Sessions, NEW r \in Rooms, JoinRoom(s, r) PROVE FloorStep
  <2>1. clients' = [clients EXCEPT ![r][UserOf[s]] = s] /\ screen' = screen
    BY <1>20 DEF JoinRoom, TakeSeat
  <2>2. RoomFloor!Enter(r, UserOf[s])
    BY <2>1, FloorEnter
  <2> QED
    BY <2>2 DEF RoomFloor!Next
<1>21. ASSUME NEW s \in Sessions, NEW r \in Rooms, LazyJoin(s, r) PROVE FloorStep
  <2>1. clients' = [clients EXCEPT ![r][UserOf[s]] = s] /\ screen' = screen
    BY <1>21 DEF LazyJoin, TakeSeat
  <2>2. RoomFloor!Enter(r, UserOf[s])
    BY <2>1, FloorEnter
  <2> QED
    BY <2>2 DEF RoomFloor!Next
<1>22. ASSUME NEW s \in Sessions, NEW r \in Rooms, LeaveStop(s, r) PROVE FloorStep
  <2>1. CASE screen[r].sharer = UserOf[s]
    <3>1. RoomFloor!Yield(r, UserOf[s])
      BY <1>22, <2>1, FloorYield DEF LeaveStop, StopShare
    <3> QED
      BY <3>1 DEF RoomFloor!Next
  <2>2. CASE screen[r].sharer # UserOf[s]
    BY <1>22, <2>2, FloorStutter DEF LeaveStop, StopShare
  <2> QED
    BY <2>1, <2>2
<1>23. ASSUME NEW s \in Sessions, NEW r \in Rooms, ScreenStart(s, r) PROVE FloorStep
  <2>1. IsMember(r, UserOf[s])
    BY <1>23, CheckedIsMember DEF ScreenStart
  <2>2. RoomFloor!Take(r, UserOf[s])
    BY <1>23, <2>1, FloorTake DEF ScreenStart
  <2> QED
    BY <2>2 DEF RoomFloor!Next
<1>24. ASSUME NEW s \in Sessions, NEW r \in Rooms, ScreenStop(s, r) PROVE FloorStep
  <2>1. CASE screen[r].sharer = UserOf[s]
    <3>1. RoomFloor!Yield(r, UserOf[s])
      BY <1>24, <2>1, FloorYield DEF ScreenStop, StopShare
    <3> QED
      BY <3>1 DEF RoomFloor!Next
  <2>2. CASE screen[r].sharer # UserOf[s]
    BY <1>24, <2>2, FloorStutter DEF ScreenStop, StopShare
  <2> QED
    BY <2>1, <2>2
<1>25. ASSUME NEW s \in Sessions, NEW r \in Rooms, RemoteRevoke(s, r) PROVE FloorStep
  <2>1. clients' = clients /\ \A q \in Rooms : screen'[q].sharer = screen[q].sharer
    BY <1>25 DEF RemoteRevoke, SetController
  <2> QED
    BY <2>1, FloorStutter
<1>26. ASSUME NEW s \in Sessions, NEW r \in Rooms, CameraStart(s, r) PROVE FloorStep
  <2>1. clients' = clients /\ \A q \in Rooms : screen'[q].sharer = screen[q].sharer
    BY <1>26 DEF CameraStart
  <2> QED
    BY <2>1, FloorStutter
<1>27. ASSUME NEW s \in Sessions, NEW r \in Rooms, CameraStop(s, r) PROVE FloorStep
  <2>1. clients' = clients /\ \A q \in Rooms : screen'[q].sharer = screen[q].sharer
    BY <1>27 DEF CameraStop
  <2> QED
    BY <2>1, FloorStutter
<1>28. ASSUME NEW s \in Sessions, NEW r \in Rooms, AudioChunk(s, r) PROVE FloorStep
  <2>1. clients' = clients /\ \A q \in Rooms : screen'[q].sharer = screen[q].sharer
    BY <1>28 DEF AudioChunk
  <2> QED
    BY <2>1, FloorStutter
<1>29. ASSUME NEW s \in Sessions, NEW r \in Rooms, NEW t \in Users, RemoteGrant(s, r, t) PROVE FloorStep
  <2>1. clients' = clients /\ \A q \in Rooms : screen'[q].sharer = screen[q].sharer
    BY <1>29 DEF RemoteGrant
  <2> QED
    BY <2>1, FloorStutter
<1> QED
  BY <1>0, <1>1, <1>2, <1>3, <1>4, <1>5, <1>6, <1>7, <1>8, <1>9, <1>10, <1>11, <1>12, <1>13, <1>14, <1>15, <1>16, <1>17, <1>18, <1>19, <1>20, <1>21, <1>22, <1>23, <1>24, <1>25, <1>26, <1>27, <1>28, <1>29 DEF Next, ThreadStep, PacketStep

\* Seen as rooms with members and a floor, the server is Floor.
THEOREM FloorImplemented == ASSUME SingleSession PROVE Spec => ImplementsFloor
<1>1. Init => RoomFloor!Init
  BY DEF Init, RoomFloor!Init, IsMember, Share, NoShare
<1> QED
  BY <1>1, FloorNext, OneInvariant, SingleSession, PTL
     DEF Spec, ImplementsFloor, RoomFloor!Spec, FloorStep

-----------------------------------------------------------------------------
(* Presence *)

\* A user is in online_users from SADD to SREM of the one thread there is.
PresenceInv ==
    \A s \in Sessions :
        pc[s] \in {"gone", "auth", "register", "announce"} <=> UserOf[s] \notin onlineUsers

\* Each step keeps that as long as Redis does not fail.
LEMMA PresenceStep ==
    ASSUME SingleSession, ~RedisFails
    PROVE  TypeOK /\ PresenceInv /\ [Next]_vars => PresenceInv'
<1> SUFFICES ASSUME TypeOK, PresenceInv, [Next]_vars PROVE PresenceInv'
  OBVIOUS
<1> USE ConstantsAssumption, SingleSession, ~RedisFails
        DEF SingleSession, TypeOK, PresenceInv, GoTo, Handle, Return,
            vars, handlerVars, roomVars, registryVars
<1>0. CASE UNCHANGED vars
  BY <1>0
<1>1. ASSUME NEW s \in Sessions, Accept(s) PROVE PresenceInv'
  BY <1>1 DEF Accept
<1>2. ASSUME NEW s \in Sessions, Authenticate(s) PROVE PresenceInv'
  BY <1>2 DEF Authenticate
<1>3. ASSUME NEW s \in Sessions, Reject(s) PROVE PresenceInv'
  BY <1>3 DEF Reject
<1>4. ASSUME NEW s \in Sessions, Drop(s) PROVE PresenceInv'
  BY <1>4 DEF Drop
<1>5. ASSUME NEW s \in Sessions, RegisterClient(s) PROVE PresenceInv'
  BY <1>5 DEF RegisterClient
<1>6. ASSUME NEW s \in Sessions, RegisterOnline(s) PROVE PresenceInv'
  <2>1. pc' = [pc EXCEPT ![s] = "read"] /\ onlineUsers' = onlineUsers \cup {UserOf[s]}
    BY <1>6 DEF RegisterOnline
  <2>2. \A x \in Sessions \ {s} : UserOf[x] \in onlineUsers' <=> UserOf[x] \in onlineUsers
    BY <2>1
  <2> QED
    BY <2>1, <2>2
<1>7. ASSUME NEW s \in Sessions, JoinNoted(s) PROVE PresenceInv'
  <2>1. /\ pc[s] = "joined" /\ onlineUsers' = onlineUsers
        /\ pc' = [pc EXCEPT ![s] = "describe"] \/ pc' = [pc EXCEPT ![s] = "read"]
    BY <1>7 DEF JoinNoted
  <2> QED
    BY <2>1
<1>8. ASSUME NEW s \in Sessions, JoinDescribed(s) PROVE PresenceInv'
  BY <1>8 DEF JoinDescribed
<1>9. ASSUME NEW s \in Sessions, LeaveClear(s) PROVE PresenceInv'
  BY <1>9 DEF LeaveClear, ClearControllerIf
<1>10. ASSUME NEW s \in Sessions, LeaveCamera(s) PROVE PresenceInv'
  BY <1>10 DEF LeaveCamera
<1>11. ASSUME NEW s \in Sessions, LeaveRoom(s) PROVE PresenceInv'
  BY <1>11 DEF LeaveRoom, RemoveUser, Emptied
<1>12. ASSUME NEW s \in Sessions, RemoteGrantSet(s) PROVE PresenceInv'
  BY <1>12 DEF RemoteGrantSet, SetController
<1>13. ASSUME NEW s \in Sessions, CleanupBegin(s) PROVE PresenceInv'
  BY <1>13 DEF CleanupBegin
<1>14. ASSUME NEW s \in Sessions, CleanupClear(s) PROVE PresenceInv'
  BY <1>14 DEF CleanupClear, ClearControllerIf
<1>15. ASSUME NEW s \in Sessions, CleanupCamera(s) PROVE PresenceInv'
  BY <1>15 DEF CleanupCamera
<1>16. ASSUME NEW s \in Sessions, CleanupRemove(s) PROVE PresenceInv'
  BY <1>16 DEF CleanupRemove, RemoveUser, Emptied
<1>17. ASSUME NEW s \in Sessions, UnregisterClient(s) PROVE PresenceInv'
  BY <1>17 DEF UnregisterClient
<1>18. ASSUME NEW s \in Sessions, UnregisterOnline(s) PROVE PresenceInv'
  BY <1>18 DEF UnregisterOnline
<1>19. ASSUME NEW s \in Sessions, NEW r \in Rooms, CleanupStop(s, r) PROVE PresenceInv'
  BY <1>19 DEF CleanupStop, StopShare
<1>20. ASSUME NEW s \in Sessions, NEW r \in Rooms, JoinRoom(s, r) PROVE PresenceInv'
  BY <1>20 DEF JoinRoom, TakeSeat, Receives
<1>21. ASSUME NEW s \in Sessions, NEW r \in Rooms, LazyJoin(s, r) PROVE PresenceInv'
  BY <1>21 DEF LazyJoin, TakeSeat, Receives
<1>22. ASSUME NEW s \in Sessions, NEW r \in Rooms, LeaveStop(s, r) PROVE PresenceInv'
  BY <1>22 DEF LeaveStop, StopShare, Receives
<1>23. ASSUME NEW s \in Sessions, NEW r \in Rooms, ScreenStart(s, r) PROVE PresenceInv'
  BY <1>23 DEF ScreenStart, InRoom, Receives
<1>24. ASSUME NEW s \in Sessions, NEW r \in Rooms, ScreenStop(s, r) PROVE PresenceInv'
  BY <1>24 DEF ScreenStop, InRoom, Receives, StopShare
<1>25. ASSUME NEW s \in Sessions, NEW r \in Rooms, RemoteRevoke(s, r) PROVE PresenceInv'
  BY <1>25 DEF RemoteRevoke, InRoom, Receives, SetController
<1>26. ASSUME NEW s \in Sessions, NEW r \in Rooms, CameraStart(s, r) PROVE PresenceInv'
  BY <1>26 DEF CameraStart, InRoom, Receives
<1>27. ASSUME NEW s \in Sessions, NEW r \in Rooms, CameraStop(s, r) PROVE PresenceInv'
  BY <1>27 DEF CameraStop, InRoom, Receives
<1>28. ASSUME NEW s \in Sessions, NEW r \in Rooms, AudioChunk(s, r) PROVE PresenceInv'
  BY <1>28 DEF AudioChunk, InRoom, Receives
<1>29. ASSUME NEW s \in Sessions, NEW r \in Rooms, NEW t \in Users, RemoteGrant(s, r, t) PROVE PresenceInv'
  BY <1>29 DEF RemoteGrant, InRoom, Receives
<1> QED
  BY <1>0, <1>1, <1>2, <1>3, <1>4, <1>5, <1>6, <1>7, <1>8, <1>9, <1>10, <1>11, <1>12, <1>13, <1>14, <1>15, <1>16, <1>17, <1>18, <1>19, <1>20, <1>21, <1>22, <1>23, <1>24, <1>25, <1>26, <1>27, <1>28, <1>29 DEF Next, ThreadStep, PacketStep

\* With Redis up and one session per user, online_users is exact.
THEOREM PresenceStaysExact ==
    ASSUME SingleSession, ~RedisFails PROVE Spec => []PresenceExact
<1>1. Init => PresenceInv
  BY DEF Init, PresenceInv
<1>2. TypeOK /\ PresenceInv /\ [Next]_vars => PresenceInv'
  BY PresenceStep, SingleSession, ~RedisFails
<1>3. PresenceInv => PresenceExact
  BY DEF PresenceInv, PresenceExact
<1> QED
  BY <1>1, <1>2, <1>3, TypeCorrect, PTL DEF Spec

-----------------------------------------------------------------------------
(* The audio of a room: proofs about RoomAudio for any number of mixer       *)
(* threads, frames and openings.                                             *)

LeaveSteps == {"none", "stop", "take", "join", "pop", "stop_room", "take_room", "join_room"}

\* Whoever leaves has a seat until the lock is given back, so the room is open.
RoomTypes ==
    /\ lives \in 0 .. MaxLives /\ seats \subseteq Participants
    /\ seats # {} => lives \in Lives
    /\ leave \in [step : LeaveSteps, user : Participants \cup {NoParticipant}, waits : 0 .. MaxThreads]
    /\ Locked => leave.user \in seats
    /\ on \in [Lives -> BOOLEAN] /\ thread \in [Lives -> 0 .. MaxThreads]

\* A pipeline in use has been made.
HandlerTypes ==
    /\ way \in [Participants -> {"read", "append", "stt", "start", "spawn"}]
    /\ using \in [Participants -> 0 .. MaxLives]
    /\ \A u \in Participants : way[u] # "read" => using[u] \in Lives /\ using[u] <= lives
    /\ mpc \in [MixerThreads -> {"new", "loop", "clients", "ended"}]
    /\ of \in [MixerThreads -> 0 .. MaxLives]
    /\ \A t \in MixerThreads : mpc[t] \in {"loop", "clients"} => of[t] \in Lives

TextTypes ==
    /\ stt \in [Lives -> {"on", "disabled", "stopped"}]
    /\ spoken \in [Lives -> [Participants -> 0 .. (ChunkFrames - 1)]]
    /\ queue \in [Lives -> Nat] /\ transcribing \in [Lives -> 0 .. Workers]
    /\ late \in [Lives -> Nat]

\* A speaker's jitter buffer when k frames have been fed
BufferOK(s, u, k) ==
    /\ s \in Seq(Frames) /\ Len(s) <= MaxBuffer
    /\ \A i \in 1 .. Len(s) : s[i].by = u /\ s[i].n <= k
    /\ \A i, j \in 1 .. Len(s) : i < j => s[i].n < s[j].n

BufferTypes ==
    /\ fed \in 0 .. MaxFrames
    /\ DOMAIN buffers = Lives
    /\ \A m \in Lives : DOMAIN buffers[m] \subseteq Participants
    /\ \A m \in Lives : \A u \in DOMAIN buffers[m] : BufferOK(buffers[m][u], u, fed)

\* What is left of a life in which the room is no longer: no chunk is taken by
\* a worker, and those in hand and those delivered late are no more than the
\* workers.
Remains ==
    /\ \A m \in Lives : m # life => stt[m] = "stopped"
    /\ \A m \in Lives : m > lives => queue[m] = 0 /\ transcribing[m] = 0 /\ late[m] = 0
    /\ \A m \in Lives : late[m] = 0 \/ stt[m] = "stopped"
    /\ \A m \in Lives : late[m] + transcribing[m] <= Workers

\* The frames in the buffers of a pipeline
Held(m) ==
    {f \in Frames : \E u \in DOMAIN buffers[m] : \E i \in 1 .. Len(buffers[m][u]) : buffers[m][u][i] = f}

\* A frame is in one place: a buffer, the hands of one mixer thread, or out.
Once ==
    /\ ~heardTwice
    /\ pulled \in [MixerThreads -> SUBSET Frames]
    /\ heard \subseteq Frames \X Participants
    /\ \A t \in MixerThreads : \A f \in pulled[t] :
          /\ f.n <= fed
          /\ \A m \in Lives : f \notin Held(m)
          /\ \A s \in MixerThreads : s # t => f \notin pulled[s]
    /\ \A h \in heard :
          /\ h[1].n <= fed
          /\ \A m \in Lives : h[1] \notin Held(m)
          /\ \A t \in MixerThreads : h[1] \notin pulled[t]
    /\ \A m \in Lives : \A k \in Lives : m # k => Held(m) \cap Held(k) = {}

-----------------------------------------------------------------------------
(* Types *)

\* The parts are stronger than the type invariant of the specification.
LEMMA AudioTypeParts == RoomTypes /\ HandlerTypes /\ TextTypes /\ BufferTypes => AudioTypeOK
BY DEF RoomTypes, HandlerTypes, TextTypes, BufferTypes, BufferOK, AudioTypeOK, LeaveSteps

\* The bounds are positive.
LEMMA Positive ==
    /\ MaxFrames \in Nat \ {0} /\ MaxLives \in Nat \ {0} /\ MaxThreads \in Nat \ {0}
    /\ MaxBuffer \in Nat \ {0} /\ ChunkFrames \in Nat \ {0} /\ Workers \in Nat \ {0}
BY AudioAssumption

\* All of it holds before anybody has joined.
LEMMA AudioTypeInit == AudioInit => RoomTypes /\ HandlerTypes /\ TextTypes /\ BufferTypes
<1> SUFFICES ASSUME AudioInit PROVE RoomTypes /\ HandlerTypes /\ TextTypes /\ BufferTypes
  OBVIOUS
<1>1. RoomTypes
  BY Positive DEF AudioInit, RoomTypes, NoLeave, Locked, LeaveSteps
<1>2. HandlerTypes
  BY Positive DEF AudioInit, HandlerTypes
<1>3. TextTypes
  BY Positive DEF AudioInit, TextTypes
<1>4. BufferTypes
  BY Positive DEF AudioInit, BufferTypes
<1> QED
  BY <1>1, <1>2, <1>3, <1>4

\* The seats, the flags and the removal under way keep their types.
LEMMA RoomTypesStep == RoomTypes /\ HandlerTypes /\ [AudioNext]_audioVars => RoomTypes'
<1> SUFFICES ASSUME RoomTypes, HandlerTypes, [AudioNext]_audioVars PROVE RoomTypes'
  OBVIOUS
<1> USE Positive DEF RoomTypes, Locked, Lives, opened, mixer, life
<1>1. ASSUME NEW u \in Participants, Join(u) PROVE RoomTypes'
  BY <1>1 DEF Join
<1>2. ASSUME NEW u \in Participants, GetMixer(u) \/ BadFrame(u) \/ AppendFrame(u) \/ FeedSTT(u) PROVE RoomTypes'
  BY <1>2 DEF GetMixer, BadFrame, AppendFrame, FeedSTT
<1>3. ASSUME NEW u \in Participants, StartMixer(u) PROVE RoomTypes'
  BY <1>3 DEF StartMixer, HandlerTypes
<1>4. ASSUME NEW u \in Participants, SpawnMixer(u) PROVE RoomTypes'
  BY <1>4 DEF SpawnMixer, HandlerTypes, MixerThreads
<1>5. ASSUME NEW u \in Participants, LeaveBegin(u) PROVE RoomTypes'
  <2>1. PICK step \in {"stop", "pop"} : leave' = [step |-> step, user |-> u, waits |-> 0]
    BY <1>5 DEF LeaveBegin, NoLeave
  <2>2. u \in seats /\ UNCHANGED <<opened, on, thread>>
    BY <1>5 DEF LeaveBegin
  <2> QED
    BY <2>1, <2>2 DEF LeaveSteps
<1>6. ASSUME NEW t \in MixerThreads, MixerLoop(t) \/ MixerSend(t) PROVE RoomTypes'
  BY <1>6 DEF MixerLoop, MixerSend
<1>7. CASE LeaveHalt
  BY <1>7 DEF LeaveHalt, ClearRunning, LeaveStep, LeaveSteps
<1>8. CASE LeaveTake
  <2>1. life \in Lives /\ thread[life] \in 0 .. MaxThreads
    BY <1>8 DEF LeaveTake
  <2>2. PICK step \in {"join", "join_room"} :
          leave' = [step |-> step, user |-> leave.user, waits |-> thread[life]]
    BY <1>8 DEF LeaveTake
  <2>3. thread' \in [Lives -> 0 .. MaxThreads] /\ UNCHANGED <<opened, on>>
    BY <1>8, <2>1 DEF LeaveTake
  <2>4. leave.user \in seats
    BY <1>8 DEF LeaveTake
  <2> QED
    BY <2>1, <2>2, <2>3, <2>4 DEF LeaveSteps
<1>9. CASE LeaveJoin
  <2>1. leave' = [step |-> "pop", user |-> leave.user, waits |-> 0] /\ UNCHANGED <<opened, on, thread>>
    BY <1>9 DEF LeaveJoin
  <2>2. leave.user \in seats
    BY <1>9 DEF LeaveJoin
  <2> QED
    BY <2>1, <2>2 DEF LeaveSteps
<1>10. CASE LeavePop
  BY <1>10 DEF LeavePop, LeaveStep, LeaveSteps, NoLeave
<1>11. CASE LeaveDestroy
  BY <1>11 DEF LeaveDestroy, NoLeave, LeaveSteps
<1>12. ASSUME NEW m \in Lives, TranscribeBegin(m) \/ TranscribeEnd(m) PROVE RoomTypes'
  BY <1>12 DEF TranscribeBegin, TranscribeEnd
<1>13. CASE UNCHANGED audioVars
  BY <1>13 DEF audioVars
<1> HIDE DEF RoomTypes
<1> QED
  BY <1>1, <1>2, <1>3, <1>4, <1>5, <1>6, <1>7, <1>8, <1>9, <1>10, <1>11, <1>12, <1>13
     DEF AudioNext, Feed, Leave

\* The handlers and the mixer threads keep to pipelines that exist.
LEMMA HandlerTypesStep == RoomTypes /\ HandlerTypes /\ [AudioNext]_audioVars => HandlerTypes'
<1> SUFFICES ASSUME RoomTypes, HandlerTypes, [AudioNext]_audioVars PROVE HandlerTypes'
  OBVIOUS
<1> USE Positive DEF HandlerTypes, RoomTypes, Lives, handler, mixing, opened, life
<1>1. ASSUME NEW u \in Participants, Join(u) PROVE HandlerTypes'
  BY <1>1 DEF Join
<1>2. ASSUME NEW u \in Participants, GetMixer(u) PROVE HandlerTypes'
  BY <1>2 DEF GetMixer
<1>3. ASSUME NEW u \in Participants, BadFrame(u) \/ AppendFrame(u) \/ FeedSTT(u) \/ StartMixer(u)
      PROVE HandlerTypes'
  <2>1. PICK step \in {"read", "stt", "start", "spawn"} : HandlerGoes(u, step)
    BY <1>3 DEF BadFrame, AppendFrame, FeedSTT, StartMixer
  <2>2. way[u] # "read" /\ UNCHANGED <<lives, mpc, of>>
    BY <1>3 DEF BadFrame, AppendFrame, FeedSTT, StartMixer
  <2> QED
    BY <2>1, <2>2 DEF HandlerGoes
<1>4. ASSUME NEW u \in Participants, SpawnMixer(u) PROVE HandlerTypes'
  BY <1>4 DEF SpawnMixer, HandlerGoes
<1>5. ASSUME NEW u \in Participants, LeaveBegin(u) PROVE HandlerTypes'
  BY <1>5 DEF LeaveBegin
<1>6. ASSUME NEW t \in MixerThreads, MixerLoop(t) PROVE HandlerTypes'
  BY <1>6 DEF MixerLoop
<1>7. ASSUME NEW t \in MixerThreads, MixerSend(t) PROVE HandlerTypes'
  BY <1>7 DEF MixerSend
<1>8. CASE Leave
  BY <1>8 DEF Leave, LeaveHalt, LeaveTake, LeaveJoin, LeavePop, LeaveDestroy
<1>9. ASSUME NEW m \in Lives, TranscribeBegin(m) \/ TranscribeEnd(m) PROVE HandlerTypes'
  BY <1>9 DEF TranscribeBegin, TranscribeEnd
<1>10. CASE UNCHANGED audioVars
  BY <1>10 DEF audioVars
<1> HIDE DEF HandlerTypes
<1> QED
  BY <1>1, <1>2, <1>3, <1>4, <1>5, <1>6, <1>7, <1>8, <1>9, <1>10 DEF AudioNext, Feed

\* The pool's counts keep their types.
LEMMA TextTypesStep == RoomTypes /\ HandlerTypes /\ TextTypes /\ [AudioNext]_audioVars => TextTypes'
<1> SUFFICES ASSUME RoomTypes, HandlerTypes, TextTypes, [AudioNext]_audioVars PROVE TextTypes'
  OBVIOUS
<1> USE Positive DEF TextTypes, text
<1>1. ASSUME NEW u \in Participants, Join(u) PROVE TextTypes'
  BY <1>1 DEF Join
<1>2. ASSUME NEW u \in Participants, FeedSTT(u) PROVE TextTypes'
  <2>1. using[u] \in Lives
    BY <1>2 DEF FeedSTT, HandlerTypes
  <2>2. spoken' \in [Lives -> [Participants -> 0 .. (ChunkFrames - 1)]]
    <3> DEFINE full == spoken[using[u]][u] + 1 >= ChunkFrames
               more == IF full THEN 0 ELSE spoken[using[u]][u] + 1
    <3>1. more \in 0 .. (ChunkFrames - 1) /\ spoken[using[u]] \in [Participants -> 0 .. (ChunkFrames - 1)]
      BY <2>1
    <3>2. spoken' = [spoken EXCEPT ![using[u]] = [@ EXCEPT ![u] = more]] \/ spoken' = spoken
      BY <1>2 DEF FeedSTT
    <3> HIDE DEF more
    <3>3. [spoken[using[u]] EXCEPT ![u] = more] \in [Participants -> 0 .. (ChunkFrames - 1)]
      BY <3>1
    <3> QED
      BY <2>1, <3>2, <3>3
  <2>3. queue' \in [Lives -> Nat]
    BY <1>2, <2>1 DEF FeedSTT
  <2> QED
    BY <1>2, <2>2, <2>3 DEF FeedSTT
<1>3. ASSUME NEW u \in Participants, GetMixer(u) \/ BadFrame(u) \/ AppendFrame(u) \/ StartMixer(u)
                              \/ SpawnMixer(u) \/ LeaveBegin(u)
      PROVE TextTypes'
  BY <1>3 DEF GetMixer, BadFrame, AppendFrame, StartMixer, SpawnMixer, LeaveBegin
<1>4. ASSUME NEW t \in MixerThreads, MixerLoop(t) \/ MixerSend(t) PROVE TextTypes'
  BY <1>4 DEF MixerLoop, MixerSend
<1>5. CASE LeaveHalt \/ LeaveTake \/ LeaveJoin \/ LeavePop
  BY <1>5 DEF LeaveHalt, LeaveTake, LeaveJoin, LeavePop
<1>6. CASE LeaveDestroy
  BY <1>6 DEF LeaveDestroy
<1>7. ASSUME NEW m \in Lives, TranscribeBegin(m) PROVE TextTypes'
  <2>1. UNCHANGED <<spoken, late>> /\ queue' \in [Lives -> Nat]
    BY <1>7 DEF TranscribeBegin
  <2>2. stt' \in [Lives -> {"on", "disabled", "stopped"}]
    BY <1>7 DEF TranscribeBegin
  <2>3. transcribing' \in [Lives -> 0 .. Workers]
    BY <1>7 DEF TranscribeBegin
  <2> QED
    BY <2>1, <2>2, <2>3
<1>8. ASSUME NEW m \in Lives, TranscribeEnd(m) PROVE TextTypes'
  <2>1. UNCHANGED <<stt, spoken, queue>> /\ transcribing' \in [Lives -> 0 .. Workers]
    BY <1>8 DEF TranscribeEnd
  <2>2. late' \in [Lives -> Nat]
    BY <1>8 DEF TranscribeEnd, BroadcastTranscript
  <2> QED
    BY <2>1, <2>2
<1>9. CASE UNCHANGED audioVars
  BY <1>9 DEF audioVars
<1> HIDE DEF TextTypes
<1> QED
  BY <1>1, <1>2, <1>3, <1>4, <1>5, <1>6, <1>7, <1>8, <1>9 DEF AudioNext, Feed, Leave

-----------------------------------------------------------------------------
(* Buffers *)

\* Frames have a number and a speaker.
LEMMA FrameType == \A f \in Frames : f.n \in Nat /\ f.by \in Participants
BY Positive DEF Frames

\* A jitter buffer with one more frame is one.
LEMMA PushOK ==
    ASSUME NEW s, NEW u, NEW k \in Nat, BufferOK(s, u, k), NEW f \in Frames, f.by = u, f.n = k + 1
    PROVE /\ BufferOK(Push(s, f), u, k + 1)
          /\ \A i \in 1 .. Len(Push(s, f)) : Push(s, f)[i] = f \/ \E j \in 1 .. Len(s) : Push(s, f)[i] = s[j]
<1> USE Positive DEF BufferOK
<1> DEFINE longer == Append(s, f)
<1>1. /\ longer \in Seq(Frames) /\ Len(longer) = Len(s) + 1 /\ Len(s) \in Nat
      /\ \A i \in 1 .. Len(s) : longer[i] = s[i] /\ s[i] \in Frames
      /\ longer[Len(s) + 1] = f
  OBVIOUS
<1> HIDE DEF longer
<1>2. \A i \in 1 .. Len(longer) : longer[i] = f \/ \E j \in 1 .. Len(s) : longer[i] = s[j]
  BY <1>1
<1>3. \A i \in 1 .. Len(longer) : longer[i] \in Frames /\ longer[i].by = u /\ longer[i].n <= k + 1
  <2>1. \A j \in 1 .. Len(s) : s[j] \in Frames /\ s[j].by = u /\ s[j].n \in Nat /\ s[j].n <= k + 1
    BY <1>1, FrameType
  <2>2. f.n \in Nat /\ f.n <= k + 1
    BY FrameType
  <2> QED
    BY <1>2, <2>1, <2>2
<1>4. \A i, j \in 1 .. Len(longer) : i < j => longer[i].n < longer[j].n
  <2> SUFFICES ASSUME NEW i \in 1 .. Len(longer), NEW j \in 1 .. Len(longer), i < j
               PROVE longer[i].n < longer[j].n
    OBVIOUS
  <2>1. i \in 1 .. Len(s) /\ longer[i].n \in Nat /\ longer[i].n <= k
    BY <1>1, FrameType
  <2>2. CASE j \in 1 .. Len(s)
    BY <1>1, <2>1, <2>2
  <2>3. CASE j = Len(s) + 1
    BY <1>1, <2>1, <2>3
  <2> QED
    BY <1>1, <2>2, <2>3
<1>5. CASE Len(longer) > MaxBuffer
  <2>1. /\ Tail(longer) \in Seq(Frames) /\ Len(Tail(longer)) = Len(longer) - 1
        /\ \A i \in 1 .. Len(Tail(longer)) : Tail(longer)[i] = longer[i + 1] /\ i + 1 \in 1 .. Len(longer)
    BY <1>1, <1>5
  <2>2. Push(s, f) = Tail(longer)
    BY <1>5 DEF Push, longer
  <2> QED
    BY <1>1, <1>2, <1>3, <1>4, <2>1, <2>2
<1>6. CASE ~(Len(longer) > MaxBuffer)
  <2>1. Push(s, f) = longer
    BY <1>6 DEF Push, longer
  <2> QED
    BY <1>1, <1>2, <1>3, <1>4, <1>6, <2>1
<1> QED
  BY <1>5, <1>6

\* So is one without its first frame, which is in it no more.
LEMMA TailOK ==
    ASSUME NEW s, NEW u, NEW k, BufferOK(s, u, k), s # <<>>
    PROVE /\ BufferOK(Tail(s), u, k)
          /\ 1 \in 1 .. Len(s)
          /\ \A i \in 1 .. Len(Tail(s)) :
                Tail(s)[i].n # s[1].n /\ \E j \in 1 .. Len(s) : Tail(s)[i] = s[j]
<1> USE DEF BufferOK
<1>1. /\ Tail(s) \in Seq(Frames) /\ Len(Tail(s)) = Len(s) - 1 /\ Len(s) \in Nat /\ Len(s) > 0
      /\ \A i \in 1 .. Len(Tail(s)) : Tail(s)[i] = s[i + 1] /\ i + 1 \in 1 .. Len(s) /\ 1 < i + 1
  OBVIOUS
<1>2. \A i \in 1 .. Len(s) : s[i] \in Frames /\ s[i].n \in Nat
  BY FrameType
<1> QED
  BY <1>1, <1>2, Positive

\* The buffers keep to their speakers, their length and the order of feeding.
LEMMA BufferTypesStep ==
    RoomTypes /\ HandlerTypes /\ BufferTypes /\ [AudioNext]_audioVars => BufferTypes'
<1> SUFFICES ASSUME RoomTypes, HandlerTypes, BufferTypes, [AudioNext]_audioVars PROVE BufferTypes'
  OBVIOUS
<1>0. ASSUME UNCHANGED <<buffers, fed>> PROVE BufferTypes'
  BY <1>0 DEF BufferTypes
<1>1. ASSUME NEW u \in Participants, BadFrame(u) PROVE BufferTypes'
  <2>1. /\ using[u] \in Lives /\ fed' = fed
        /\ buffers' = [buffers EXCEPT ![using[u]] = With(@, u, <<>>)]
    BY <1>1 DEF BadFrame, HandlerTypes, sound
  <2>2. \A v : BufferOK(<<>>, v, fed)
    BY Positive DEF BufferOK
  <2> QED
    BY <2>1, <2>2 DEF BufferTypes, With
<1>2. ASSUME NEW u \in Participants, AppendFrame(u) PROVE BufferTypes'
  <2> DEFINE m == using[u]
             f == [n |-> fed + 1, by |-> u]
             old == IF u \in DOMAIN buffers[m] THEN buffers[m][u] ELSE <<>>
  <2>1. /\ m \in Lives /\ fed < MaxFrames /\ fed' = fed + 1
        /\ buffers' = [buffers EXCEPT ![m] = With(@, u, Push(old, f))]
    BY <1>2 DEF AppendFrame, HandlerTypes
  <2>2. BufferOK(old, u, fed)
    BY <2>1, Positive DEF BufferTypes, BufferOK
  <2>3. fed \in Nat /\ f \in Frames /\ f.by = u /\ f.n = fed + 1 /\ fed + 1 \in 0 .. MaxFrames
    BY <2>1, Positive DEF BufferTypes, Frames
  <2> HIDE DEF f, old
  <2>4. BufferOK(Push(old, f), u, fed')
    BY <2>1, <2>2, <2>3, PushOK
  <2>5. \A s, v : BufferOK(s, v, fed) => BufferOK(s, v, fed')
    <3> SUFFICES ASSUME NEW s, NEW v, BufferOK(s, v, fed) PROVE BufferOK(s, v, fed')
      OBVIOUS
    <3>1. \A i \in 1 .. Len(s) : s[i] \in Frames /\ s[i].n \in Nat
      BY FrameType DEF BufferOK
    <3> QED
      BY <2>1, <2>3, <3>1 DEF BufferOK
  <2>6. /\ DOMAIN buffers' = Lives
        /\ \A k \in Lives : k # m => buffers'[k] = buffers[k]
        /\ buffers'[m] = With(buffers[m], u, Push(old, f))
    BY <2>1 DEF BufferTypes
  <2> HIDE DEF m
  <2>7. \A k \in Lives : DOMAIN buffers'[k] \subseteq Participants
    BY <2>6 DEF BufferTypes, With
  <2>8. ASSUME NEW k \in Lives, NEW v \in DOMAIN buffers'[k] PROVE BufferOK(buffers'[k][v], v, fed')
    BY <2>4, <2>5, <2>6, <2>8 DEF BufferTypes, With
  <2> QED
    BY <2>1, <2>3, <2>6, <2>7, <2>8 DEF BufferTypes
<1>3. ASSUME NEW u \in Participants, LeaveBegin(u) PROVE BufferTypes'
  <2>1. /\ life \in Lives /\ fed' = fed
        /\ buffers' = [buffers EXCEPT ![life] = [v \in DOMAIN buffers[life] \ {u} |-> @[v]]]
    BY <1>3 DEF LeaveBegin, RoomTypes, life, sound
  <2> QED
    BY <2>1 DEF BufferTypes
<1>4. ASSUME NEW t \in MixerThreads, MixerLoop(t) PROVE BufferTypes'
  <2>1. of[t] \in Lives /\ fed' = fed
        /\ (buffers' = buffers \/ buffers' = [buffers EXCEPT ![of[t]] = Popped(of[t])])
    BY <1>4 DEF MixerLoop, HandlerTypes, sound
  <2>2. \A s, v : BufferOK(s, v, fed) /\ s # <<>> => BufferOK(Tail(s), v, fed)
    BY TailOK
  <2>4. CASE buffers' = [buffers EXCEPT ![of[t]] = Popped(of[t])]
    <3>1. /\ DOMAIN buffers' = Lives
          /\ \A k \in Lives : k # of[t] => buffers'[k] = buffers[k]
          /\ buffers'[of[t]] = Popped(of[t])
      BY <2>1, <2>4 DEF BufferTypes
    <3>2. \A k \in Lives : DOMAIN buffers'[k] \subseteq Participants
      BY <2>1, <3>1 DEF BufferTypes, Popped
    <3>3. ASSUME NEW k \in Lives, NEW v \in DOMAIN buffers'[k] PROVE BufferOK(buffers'[k][v], v, fed)
      <4>1. v \in DOMAIN buffers[k] /\ BufferOK(buffers[k][v], v, fed)
        BY <3>1, <3>3 DEF BufferTypes, Popped
      <4>2. buffers'[k][v] = buffers[k][v]
            \/ (buffers[k][v] # <<>> /\ buffers'[k][v] = Tail(buffers[k][v]))
        BY <3>1, <3>3, <4>1 DEF Popped
      <4> QED
        BY <2>2, <4>1, <4>2
    <3> QED
      BY <2>1, <3>1, <3>2, <3>3 DEF BufferTypes
  <2> QED
    BY <1>0, <2>1, <2>4
<1>5. ASSUME NEW u \in Participants, Join(u) \/ GetMixer(u) \/ FeedSTT(u) \/ StartMixer(u) \/ SpawnMixer(u)
      PROVE BufferTypes'
  BY <1>0, <1>5 DEF Join, GetMixer, FeedSTT, StartMixer, SpawnMixer, mixer, sound
<1>6. ASSUME NEW t \in MixerThreads, MixerSend(t) PROVE BufferTypes'
  BY <1>0, <1>6 DEF MixerSend, mixer
<1>7. CASE Leave
  BY <1>0, <1>7 DEF Leave, LeaveHalt, LeaveTake, LeaveJoin, LeavePop, LeaveDestroy, mixer, sound
<1>8. ASSUME NEW m \in Lives, TranscribeBegin(m) \/ TranscribeEnd(m) PROVE BufferTypes'
  BY <1>0, <1>8 DEF TranscribeBegin, TranscribeEnd, mixer, sound
<1>9. CASE UNCHANGED audioVars
  BY <1>0, <1>9 DEF audioVars, mixer, sound
<1> QED
  BY <1>1, <1>2, <1>3, <1>4, <1>5, <1>6, <1>7, <1>8, <1>9 DEF AudioNext, Feed

AudioTypes == RoomTypes /\ HandlerTypes /\ TextTypes /\ BufferTypes

\* Together the types are inductive.
LEMMA AudioTypesStep == AudioTypes /\ [AudioNext]_audioVars => AudioTypes'
BY RoomTypesStep, HandlerTypesStep, TextTypesStep, BufferTypesStep DEF AudioTypes

\* Buffers, counts, handlers and mixer threads keep to their types and limits,
\* a jitter buffer to its maxlen and the pool to its workers among them.
THEOREM AudioTypeCorrect == AudioSpec => []AudioTypeOK
<1>1. AudioInit => AudioTypes
  BY AudioTypeInit DEF AudioTypes
<1>2. AudioTypes => AudioTypeOK
  BY AudioTypeParts DEF AudioTypes
<1> QED
  BY <1>1, <1>2, AudioTypesStep, PTL DEF AudioSpec

-----------------------------------------------------------------------------
(* Subtitles of a room that is gone *)

\* Nothing remains before the room is first opened.
LEMMA RemainsInit == AudioInit => Remains
BY Positive DEF AudioInit, Remains, life

\* While the room is there its pool delivers nothing late; when it is gone no
\* more chunks are taken, and each of those in hand is delivered once.
LEMMA RemainsStep == AudioTypes /\ Remains /\ [AudioNext]_audioVars => Remains'
<1> SUFFICES ASSUME RoomTypes, HandlerTypes, TextTypes, Remains, [AudioNext]_audioVars PROVE Remains'
  BY DEF AudioTypes
<1> USE Positive DEF Remains, TextTypes, Lives
<1>0. ASSUME UNCHANGED <<opened, text>> PROVE Remains'
  BY <1>0 DEF opened, text, life
<1>1. ASSUME NEW u \in Participants, Join(u) PROVE Remains'
  <2>1. /\ seats' # {} /\ lives \in Nat
        /\ UNCHANGED <<queue, transcribing, late>>
    BY <1>1 DEF Join, RoomTypes
  <2>2. CASE life # 0 /\ UNCHANGED <<lives, stt>>
    BY <2>1, <2>2 DEF life
  <2>3. CASE life = 0 /\ lives < MaxLives /\ lives' = lives + 1 /\ stt' = [stt EXCEPT ![lives'] = "on"]
    <3>1. life' = lives + 1 /\ lives + 1 \in Lives
      <4> HIDE DEF Remains, TextTypes
      <4>1. life' = lives'
        BY <2>1 DEF life
      <4> QED
        BY <2>1, <2>3, <4>1
    <3>2. \A m \in Lives : m # lives + 1 => stt'[m] = "stopped"
      BY <2>1, <2>3
    <3>3. \A m \in Lives : m > lives' => m > lives
      BY <2>1, <2>3
    <3>4. late[lives + 1] = 0
      BY <2>1, <3>1
    <3> QED
      BY <2>1, <2>3, <3>1, <3>2, <3>3, <3>4
  <2> QED
    BY <1>1, <2>2, <2>3 DEF Join
<1>2. ASSUME NEW u \in Participants, FeedSTT(u) PROVE Remains'
  <2>0. using[u] \in Lives /\ using[u] <= lives /\ lives \in Nat
    <3> HIDE DEF Remains, TextTypes
    <3> QED
      BY <1>2 DEF FeedSTT, HandlerTypes, RoomTypes
  <2>1. /\ UNCHANGED <<opened, stt, transcribing, late>>
        /\ queue' = queue \/ queue' = [queue EXCEPT ![using[u]] = @ + 1]
    <3> HIDE DEF Remains, TextTypes
    <3> QED
      BY <1>2 DEF FeedSTT
  <2>2. ASSUME NEW m \in Lives, m > lives PROVE queue'[m] = 0
    <3>0. queue[m] = 0
      BY <2>2
    <3>1. m # using[u]
      <4> HIDE DEF Remains, TextTypes
      <4> QED
        BY <2>0, <2>2
    <3> QED
      BY <2>0, <2>1, <3>0, <3>1
  <2> QED
    BY <2>1, <2>2 DEF opened, life
<1>3. ASSUME NEW u \in Participants, GetMixer(u) \/ BadFrame(u) \/ AppendFrame(u) \/ StartMixer(u)
                              \/ SpawnMixer(u) \/ LeaveBegin(u)
      PROVE Remains'
  BY <1>0, <1>3 DEF GetMixer, BadFrame, AppendFrame, StartMixer, SpawnMixer, LeaveBegin
<1>4. ASSUME NEW t \in MixerThreads, MixerLoop(t) \/ MixerSend(t) PROVE Remains'
  BY <1>0, <1>4 DEF MixerLoop, MixerSend
<1>5. CASE LeaveHalt \/ LeaveTake \/ LeaveJoin
  BY <1>0, <1>5 DEF LeaveHalt, LeaveTake, LeaveJoin
<1>6. CASE LeavePop
  <2>1. seats # {}
    BY <1>6 DEF LeavePop, RoomTypes, Locked
  <2>2. seats' # {} /\ UNCHANGED <<lives, text>>
    BY <1>6, <2>1 DEF LeavePop
  <2> QED
    BY <2>1, <2>2 DEF text, life
<1>7. CASE LeaveDestroy
  <2>1. life = lives /\ life \in Lives /\ life' = 0 /\ stt' = [stt EXCEPT ![life] = "stopped"]
        /\ UNCHANGED <<lives, queue, transcribing, late>>
    BY <1>7 DEF LeaveDestroy, RoomTypes, Locked, life
  <2> QED
    BY <2>1
<1>8. ASSUME NEW m \in Lives, TranscribeBegin(m) PROVE Remains'
  <2>1. UNCHANGED <<opened, late>> /\ queue[m] > 0 /\ queue' = [queue EXCEPT ![m] = @ - 1]
    BY <1>8 DEF TranscribeBegin
  <2>2. ~(m > lives)
    BY <2>1
  <2>3. \A k \in Lives : stt[k] = "stopped" => stt'[k] = "stopped"
    BY <1>8 DEF TranscribeBegin, TakesJob
  <2>4. \A k \in Lives : k # m => transcribing'[k] = transcribing[k]
    BY <1>8 DEF TranscribeBegin
  <2>5. late[m] + transcribing'[m] <= Workers
    <3>1. CASE UNCHANGED transcribing
      BY <3>1
    <3>2. CASE TakesJob(m) /\ transcribing' = [transcribing EXCEPT ![m] = @ + 1]
      <4>1. late[m] = 0 /\ transcribing'[m] = transcribing[m] + 1 /\ transcribing[m] < Workers
        BY <1>8, <3>2 DEF TranscribeBegin, TakesJob
      <4> QED
        BY <4>1
    <3> QED
      BY <1>8, <3>1, <3>2 DEF TranscribeBegin
  <2> QED
    BY <2>1, <2>2, <2>3, <2>4, <2>5 DEF opened, life
<1>9. ASSUME NEW m \in Lives, TranscribeEnd(m) PROVE Remains'
  <2>1. /\ UNCHANGED <<opened, stt, queue>> /\ transcribing[m] > 0
        /\ transcribing' = [transcribing EXCEPT ![m] = @ - 1]
    BY <1>9 DEF TranscribeEnd
  <2>2. /\ life' = life /\ lives' = lives
        /\ \A k \in Lives : k # m => transcribing'[k] = transcribing[k]
        /\ transcribing'[m] = transcribing[m] - 1 /\ transcribing[m] \in Nat
        /\ \A k \in Lives : late[k] \in Nat /\ transcribing[k] \in Nat
    BY <2>1 DEF opened, life
  <2>3. ~(m > lives)
    BY <2>1
  <2>4. \A k \in Lives : late[k] + transcribing[k] <= Workers
    OBVIOUS
  <2>5. CASE late' = late
    <3>1. \A k \in Lives : late'[k] + transcribing'[k] <= Workers
      <4> HIDE DEF Remains, TextTypes, Lives
      <4> QED
        BY <2>2, <2>4, <2>5
    <3> QED
      BY <2>1, <2>2, <2>3, <2>5, <3>1
  <2>6. CASE life \notin {0, m} /\ late' = [late EXCEPT ![m] = @ + 1]
    <3>1. stt[m] = "stopped"
      BY <2>6
    <3>2. late'[m] = late[m] + 1 /\ \A k \in Lives : k # m => late'[k] = late[k]
      BY <2>6
    <3>3. \A k \in Lives : late'[k] + transcribing'[k] <= Workers
      <4> HIDE DEF Remains, TextTypes, Lives
      <4> QED
        BY <2>2, <2>4, <3>2
    <3> QED
      BY <2>1, <2>2, <2>3, <3>1, <3>2, <3>3
  <2> QED
    BY <1>9, <2>5, <2>6 DEF TranscribeEnd, BroadcastTranscript
<1>10. CASE UNCHANGED audioVars
  BY <1>0, <1>10 DEF audioVars
<1> HIDE DEF Remains
<1> QED
  BY <1>1, <1>2, <1>3, <1>4, <1>5, <1>6, <1>7, <1>8, <1>9, <1>10 DEF AudioNext, Feed, Leave

\* Of a room that is gone, at most as many subtitles as the pool has workers
\* reach those who open the room again, however often that happens.
THEOREM LateSubtitlesAreFew == AudioSpec => []FewLateSubtitles
<1>1. AudioInit => AudioTypes
  BY AudioTypeInit DEF AudioTypes
<1>2. AudioTypes /\ Remains => FewLateSubtitles
  BY Positive DEF AudioTypes, TextTypes, Remains, FewLateSubtitles
<1> QED
  BY <1>1, <1>2, AudioTypesStep, RemainsInit, RemainsStep, PTL DEF AudioSpec

-----------------------------------------------------------------------------
(* Frames *)

\* Nothing has been fed.
LEMMA OnceInit == AudioInit => Once
BY Positive DEF AudioInit, Once, Held

\* A step that only takes frames out of the buffers leaves every frame in its
\* place.
LEMMA OnceKept ==
    ASSUME Once, UNCHANGED <<pulled, heard, heardTwice, fed>>,
           \A m \in Lives : Held(m)' \subseteq Held(m)
    PROVE Once'
BY DEF Once

\* The buffers of other pipelines hold what they held.
LEMMA OthersHold ==
    ASSUME DOMAIN buffers = Lives, NEW m, NEW b, buffers' = [buffers EXCEPT ![m] = b],
           NEW k \in Lives, k # m
    PROVE Held(k)' = Held(k)
<1>1. buffers'[k] = buffers[k]
  OBVIOUS
<1> QED
  BY <1>1 DEF Held

\* A frame that is fed is a new one, the mixer takes frames out of the buffers
\* before it sends them, and what it has sent is nowhere else.
LEMMA OnceStep == AudioTypes /\ Once /\ [AudioNext]_audioVars => Once'
<1> SUFFICES ASSUME RoomTypes, HandlerTypes, BufferTypes, Once, [AudioNext]_audioVars PROVE Once'
  BY DEF AudioTypes
<1>0. ASSUME UNCHANGED <<buffers, pulled, heard, heardTwice, fed>> PROVE Once'
  BY <1>0, OnceKept DEF Held
<1>1. ASSUME NEW u \in Participants, BadFrame(u) PROVE Once'
  <2>1. /\ using[u] \in Lives /\ UNCHANGED <<pulled, heard, heardTwice, fed>>
        /\ buffers' = [buffers EXCEPT ![using[u]] = With(buffers[using[u]], u, <<>>)]
    BY <1>1 DEF BadFrame, HandlerTypes, sound, mixing
  <2>2. ASSUME NEW m \in Lives PROVE Held(m)' \subseteq Held(m)
    <3>1. CASE m # using[u]
      BY <2>1, <3>1, OthersHold DEF BufferTypes
    <3>2. CASE m = using[u]
      <4>1. buffers'[m] = With(buffers[m], u, <<>>)
        BY <2>1, <3>2 DEF BufferTypes
      <4> QED
        BY <4>1 DEF Held, With
    <3> QED
      BY <3>1, <3>2
  <2> QED
    BY <2>1, <2>2, OnceKept
<1>2. ASSUME NEW u \in Participants, AppendFrame(u) PROVE Once'
  <2>0. PICK m \in Lives : m = using[u]
    BY <1>2 DEF AppendFrame, HandlerTypes
  <2> DEFINE f == [n |-> fed + 1, by |-> u]
             old == IF u \in DOMAIN buffers[m] THEN buffers[m][u] ELSE <<>>
  <2>1. /\ fed < MaxFrames /\ fed' = fed + 1 /\ UNCHANGED <<pulled, heard, heardTwice>>
        /\ buffers' = [buffers EXCEPT ![m] = With(buffers[m], u, Push(old, f))]
    BY <1>2, <2>0 DEF AppendFrame, mixing
  <2>2. BufferOK(old, u, fed)
    BY <2>1, Positive DEF BufferTypes, BufferOK
  <2>3. fed \in Nat /\ f \in Frames /\ f.by = u /\ f.n = fed + 1
    BY <2>1, Positive DEF BufferTypes, Frames
  <2>4. buffers'[m] = With(buffers[m], u, Push(old, f))
    BY <2>1 DEF BufferTypes
  <2>5. \A i \in 1 .. Len(old) : u \in DOMAIN buffers[m] /\ old = buffers[m][u]
    OBVIOUS
  <2> HIDE DEF f, old
  <2>6. \A i \in 1 .. Len(Push(old, f)) :
          Push(old, f)[i] = f \/ \E j \in 1 .. Len(old) : Push(old, f)[i] = old[j]
    BY <2>2, <2>3, PushOK
  <2>7. Held(m)' \subseteq Held(m) \cup {f}
    <3> SUFFICES ASSUME NEW g \in Held(m)', g # f PROVE g \in Held(m)
      OBVIOUS
    <3>1. PICK v \in DOMAIN buffers'[m] : \E i \in 1 .. Len(buffers'[m][v]) : buffers'[m][v][i] = g
      BY DEF Held
    <3>2. CASE v = u
      BY <2>4, <2>5, <2>6, <3>1, <3>2 DEF Held, With
    <3>3. CASE v # u
      BY <2>4, <3>1, <3>3 DEF Held, With
    <3> QED
      BY <3>2, <3>3
  <2>8. \A k \in Lives : k # m => Held(k)' = Held(k)
    BY <2>1, OthersHold DEF BufferTypes
  <2>9. \A k \in Lives : f \notin Held(k)
    BY <2>3, FrameType DEF Held, BufferTypes, BufferOK
  <2>10. (\A t \in MixerThreads : f \notin pulled[t]) /\ (\A h \in heard : h[1] # f)
    BY <2>3, FrameType DEF Once
  <2>11. ASSUME NEW g, g.n \in Nat, g.n <= fed PROVE g.n <= fed'
    BY <2>1, <2>3, <2>11
  <2>12. ASSUME NEW t \in MixerThreads, NEW g \in pulled[t]
         PROVE /\ g.n <= fed'
               /\ \A k \in Lives : g \notin Held(k)'
    BY <2>7, <2>8, <2>10, <2>11, <2>12, FrameType DEF Once
  <2>13. ASSUME NEW h \in heard
         PROVE /\ h[1].n <= fed'
               /\ \A k \in Lives : h[1] \notin Held(k)'
    BY <2>7, <2>8, <2>10, <2>11, <2>13, FrameType DEF Once
  <2>14. \A k \in Lives : \A l \in Lives : k # l => Held(k)' \cap Held(l)' = {}
    BY <2>7, <2>8, <2>9 DEF Once
  <2> QED
    BY <2>1, <2>12, <2>13, <2>14 DEF Once
<1>3. ASSUME NEW u \in Participants, LeaveBegin(u) PROVE Once'
  <2> DEFINE kept == [v \in DOMAIN buffers[life] \ {u} |-> buffers[life][v]]
  <2>1. /\ life \in Lives /\ UNCHANGED <<pulled, heard, heardTwice, fed>>
        /\ buffers' = [buffers EXCEPT ![life] = kept]
    BY <1>3 DEF LeaveBegin, RoomTypes, life, sound, mixing
  <2>2. ASSUME NEW m \in Lives PROVE Held(m)' \subseteq Held(m)
    <3>1. CASE m # life
      BY <2>1, <3>1, OthersHold DEF BufferTypes
    <3>2. CASE m = life
      <4>1. buffers'[m] = kept
        BY <2>1, <3>2 DEF BufferTypes
      <4> QED
        BY <3>2, <4>1 DEF Held
    <3> QED
      BY <3>1, <3>2
  <2> QED
    BY <2>1, <2>2, OnceKept
<1>4. ASSUME NEW t \in MixerThreads, MixerLoop(t) PROVE Once'
  <2>0. PICK m \in Lives : m = of[t]
    BY <1>4 DEF MixerLoop, HandlerTypes
  <2>1. UNCHANGED <<heard, heardTwice, fed>>
    BY <1>4 DEF MixerLoop, sound
  <2>2. CASE UNCHANGED <<buffers, pulled>>
    BY <1>0, <2>1, <2>2
  <2>3. CASE pulled' = [pulled EXCEPT ![t] = Heads(m)] /\ buffers' = [buffers EXCEPT ![m] = Popped(m)]
    <3>1. buffers'[m] = Popped(m)
      BY <2>1, <2>3 DEF BufferTypes
    <3>2. \A v \in DOMAIN buffers[m] : BufferOK(buffers[m][v], v, fed)
      BY <2>1 DEF BufferTypes
    <3>3. Heads(m) \subseteq Held(m)
      <4> SUFFICES ASSUME NEW v \in DOMAIN buffers[m], buffers[m][v] # <<>> PROVE buffers[m][v][1] \in Held(m)
        BY DEF Heads
      <4>1. 1 \in 1 .. Len(buffers[m][v]) /\ buffers[m][v] \in Seq(Frames)
        BY <3>2, TailOK DEF BufferOK
      <4> QED
        BY <4>1 DEF Held
    <3>4. Held(m)' \subseteq Held(m) \ Heads(m)
      <4> SUFFICES ASSUME NEW g \in Held(m)' PROVE g \in Held(m) /\ g \notin Heads(m)
        OBVIOUS
      <4>1. PICK v \in DOMAIN buffers'[m] : \E i \in 1 .. Len(buffers'[m][v]) : buffers'[m][v][i] = g
        BY DEF Held
      <4>2. v \in DOMAIN buffers[m] /\ buffers[m][v] # <<>> /\ buffers'[m][v] = Tail(buffers[m][v])
        BY <3>1, <4>1 DEF Popped
      <4>3. PICK i \in 1 .. Len(Tail(buffers[m][v])) : g = Tail(buffers[m][v])[i]
        BY <4>1, <4>2
      <4>4. g.n # buffers[m][v][1].n /\ \E j \in 1 .. Len(buffers[m][v]) : g = buffers[m][v][j]
        BY <3>2, <4>2, <4>3, TailOK
      <4>5. g \in Held(m) /\ g.by = v
        BY <3>2, <4>2, <4>4 DEF Held, BufferOK
      <4>6. ASSUME NEW w \in DOMAIN buffers[m], buffers[m][w] # <<>>, g = buffers[m][w][1] PROVE FALSE
        <5>1. g.by = w
          BY <3>2, <4>6, TailOK DEF BufferOK
        <5> QED
          BY <4>4, <4>5, <4>6, <5>1
      <4> QED
        BY <4>5, <4>6 DEF Heads
    <3>5. \A k \in Lives : k # m => Held(k)' = Held(k)
      BY <2>3, OthersHold DEF BufferTypes
    <3>6. \A k \in Lives : Held(k)' \subseteq Held(k) /\ Heads(m) \cap Held(k)' = {}
      BY <2>1, <3>3, <3>4, <3>5 DEF Once
    <3>7. Heads(m) \subseteq Frames /\ \A g \in Heads(m) : g.n <= fed
      <4>1. \A g \in Held(m) : g \in Frames /\ g.n <= fed
        BY <3>2 DEF Held, BufferOK
      <4> QED
        BY <3>3, <4>1
    <3>8. \A s \in MixerThreads : pulled[s] \cap Heads(m) = {}
      BY <2>1, <3>3 DEF Once
    <3>9. \A h \in heard : h[1] \notin Heads(m)
      BY <2>1, <3>3 DEF Once
    <3>10. /\ pulled' \in [MixerThreads -> SUBSET Frames] /\ pulled'[t] = Heads(m)
           /\ \A s \in MixerThreads : s # t => pulled'[s] = pulled[s]
      BY <2>3, <3>7 DEF Once
    <3>11. ASSUME NEW s \in MixerThreads, NEW g \in pulled'[s]
           PROVE /\ g.n <= fed
                 /\ \A k \in Lives : g \notin Held(k)'
                 /\ \A r \in MixerThreads : r # s => g \notin pulled'[r]
      BY <3>6, <3>7, <3>8, <3>10, <3>11 DEF Once
    <3>12. ASSUME NEW h \in heard
           PROVE /\ h[1].n <= fed
                 /\ \A k \in Lives : h[1] \notin Held(k)'
                 /\ \A r \in MixerThreads : h[1] \notin pulled'[r]
      BY <3>6, <3>9, <3>10, <3>12 DEF Once
    <3>13. \A k \in Lives : \A l \in Lives : k # l => Held(k)' \cap Held(l)' = {}
      BY <3>6 DEF Once
    <3> QED
      BY <2>1, <3>10, <3>11, <3>12, <3>13 DEF Once
  <2> QED
    BY <1>4, <2>0, <2>2, <2>3 DEF MixerLoop
<1>5. ASSUME NEW t \in MixerThreads, MixerSend(t) PROVE Once'
  <2> DEFINE sent == {p \in pulled[t] \X seats : p[1].by # p[2]}
  <2>1. /\ heard' = heard \cup sent /\ heardTwice' = (heardTwice \/ sent \cap heard # {})
        /\ pulled' = [pulled EXCEPT ![t] = {}] /\ UNCHANGED <<buffers, fed>>
    BY <1>5 DEF MixerSend, mixer
  <2>2. \A p \in sent : p[1] \in pulled[t] /\ p[2] \in seats
    OBVIOUS
  <2>3. sent \subseteq Frames \X Participants
    BY DEF Once, RoomTypes
  <2> HIDE DEF sent
  <2>4. sent \cap heard = {}
    BY <2>2 DEF Once
  <2>5. ~heardTwice'
    BY <2>1, <2>4 DEF Once
  <2>6. \A m \in Lives : Held(m)' = Held(m)
    BY <2>1 DEF Held
  <2>7. /\ pulled' \in [MixerThreads -> SUBSET Frames]
        /\ pulled'[t] = {} /\ \A s \in MixerThreads : s # t => pulled'[s] = pulled[s]
    BY <2>1 DEF Once
  <2>8. ASSUME NEW h \in heard'
        PROVE /\ h[1].n <= fed
              /\ \A k \in Lives : h[1] \notin Held(k)
              /\ \A r \in MixerThreads : h[1] \notin pulled'[r]
    BY <2>1, <2>2, <2>7, <2>8 DEF Once
  <2> QED
    BY <2>1, <2>3, <2>5, <2>6, <2>7, <2>8 DEF Once
<1>6. ASSUME NEW u \in Participants, Join(u) \/ GetMixer(u) \/ FeedSTT(u) \/ StartMixer(u) \/ SpawnMixer(u)
      PROVE Once'
  BY <1>0, <1>6 DEF Join, GetMixer, FeedSTT, StartMixer, SpawnMixer, mixer, sound, mixing
<1>7. CASE Leave
  BY <1>0, <1>7 DEF Leave, LeaveHalt, LeaveTake, LeaveJoin, LeavePop, LeaveDestroy, mixer, sound, mixing
<1>8. ASSUME NEW m \in Lives, TranscribeBegin(m) \/ TranscribeEnd(m) PROVE Once'
  BY <1>0, <1>8 DEF TranscribeBegin, TranscribeEnd, mixer, sound, mixing
<1>9. CASE UNCHANGED audioVars
  BY <1>0, <1>9 DEF audioVars, mixer, sound, mixing
<1> QED
  BY <1>1, <1>2, <1>3, <1>4, <1>5, <1>6, <1>7, <1>8, <1>9 DEF AudioNext, Feed

\* No frame is sent to the same listener twice, however many mixer threads the
\* races of stop and start leave on one set of buffers.
THEOREM FramesAreHeardOnce == AudioSpec => []HeardOnce
<1>1. AudioInit => AudioTypes
  BY AudioTypeInit DEF AudioTypes
<1>2. Once => HeardOnce
  BY DEF Once, HeardOnce
<1> QED
  BY <1>1, <1>2, AudioTypesStep, OnceInit, OnceStep, PTL DEF AudioSpec
=============================================================================
