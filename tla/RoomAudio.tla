----------------------------- MODULE RoomAudio ------------------------------
(***************************************************************************)
(* The audio of one room on its chat server: AudioMixerState with its      *)
(* mixer thread (server/features/audio_mixer.py), STTManager with its pool *)
(* of workers (stt_worker.py) and SubtitleBroadcaster (subtitle.py), as    *)
(* they are used by the handler threads that feed them, one for a user     *)
(* (_handle_audio_chunk) and by RoomManager, which takes users out and     *)
(* destroys the room while it holds its lock.                              *)
(*                                                                         *)
(* A room that is opened again gets a new pipeline, its next life.  Old    *)
(* threads and jobs look up the room's clients by its code, so they reach  *)
(* whoever is there then.  A frame is its number and its speaker; how      *)
(* frames are mixed, and what is said in them, is left out.                *)
(***************************************************************************)
EXTENDS Naturals, Sequences, FiniteSets

CONSTANTS
    Participants,
    NoParticipant,
    MaxFrames,     \* bound: frames fed
    MaxLives,      \* bound: openings of the room
    MaxJoins,      \* bound: joins
    MaxThreads,    \* bound: mixer threads started
    MaxBuffer,     \* maxlen of a jitter buffer
    ChunkFrames,   \* _FRAMES_PER_CHUNK
    Workers        \* max_workers of the pool

ASSUME AudioAssumption ==
    /\ NoParticipant \notin Participants
    /\ {MaxFrames, MaxLives, MaxJoins, MaxThreads, MaxBuffer, ChunkFrames, Workers} \subseteq Nat \ {0}

VARIABLES
    lives,       \* the pipelines so far; the room, when it is open, has the last
    seats,       \* room_data["clients"]
    joins,       \* joins so far
    on,          \* AudioMixerState._running, by life
    buffers,     \* _buffers: the participants and their frames
    thread,      \* _thread; 0: None
    stt,         \* STTManager: "on", "disabled" (_enabled is false) or "stopped"
    spoken,      \* _speaker_buffers: the number of frames in each
    queue,       \* the number of chunks that wait for a worker of the pool
    transcribing,  \* the number of chunks the workers are at
    way, using,  \* a handler thread, and the pipeline it got hold of
    mpc, of, pulled,   \* a mixer thread, its pipeline, the frames it took
    leave,       \* the removal that holds the RoomManager's lock
    fed,         \* frames fed so far
    heard,       \* history: which frame was sent to whom
    heardTwice,  \* history
    late         \* history: subtitles of a life that were sent in a later one

opened == <<lives, seats, joins>>
mixer == <<on, buffers, thread>>
text == <<stt, spoken, queue, transcribing, late>>
handler == <<way, using>>
mixing == <<mpc, of, pulled>>
sound == <<fed, heard, heardTwice>>
audioVars == <<opened, mixer, text, handler, mixing, leave, sound>>

Lives == 1 .. MaxLives
MixerThreads == 1 .. MaxThreads
Frames == [n : 1 .. MaxFrames, by : Participants]
life == IF seats = {} THEN 0 ELSE lives
Locked == leave.step # "none"
NoLeave == [step |-> "none", user |-> NoParticipant, waits |-> 0]

AudioTypeOK ==
    /\ lives \in 0 .. MaxLives /\ seats \subseteq Participants
    /\ on \in [Lives -> BOOLEAN]
    /\ stt \in [Lives -> {"on", "disabled", "stopped"}]
    /\ \A m \in Lives : DOMAIN buffers[m] \subseteq Participants
    /\ \A m \in Lives : \A u \in DOMAIN buffers[m] : Len(buffers[m][u]) <= MaxBuffer
    /\ spoken \in [Lives -> [Participants -> 0 .. (ChunkFrames - 1)]]
    /\ queue \in [Lives -> Nat] /\ transcribing \in [Lives -> 0 .. Workers]
    /\ way \in [Participants -> {"read", "append", "stt", "start", "spawn"}]
    /\ \A u \in Participants : way[u] # "read" => using[u] \in Lives
    /\ mpc \in [MixerThreads -> {"new", "loop", "clients", "ended"}]
    /\ leave.step \in {"none", "stop", "take", "join", "pop", "stop_room", "take_room", "join_room"}

AudioInit ==
    /\ lives = 0 /\ joins = 0 /\ seats = {}
    /\ on = [m \in Lives |-> FALSE]
    /\ buffers = [m \in Lives |-> <<>>]
    /\ thread = [m \in Lives |-> 0]
    /\ stt = [m \in Lives |-> "stopped"]
    /\ spoken = [m \in Lives |-> [u \in Participants |-> 0]]
    /\ queue = [m \in Lives |-> 0]
    /\ transcribing = [m \in Lives |-> 0]
    /\ way = [u \in Participants |-> "read"]
    /\ using = [u \in Participants |-> 0]
    /\ mpc = [t \in MixerThreads |-> "new"]
    /\ of = [t \in MixerThreads |-> 0]
    /\ pulled = [t \in MixerThreads |-> {}]
    /\ leave = NoLeave
    /\ fed = 0
    /\ heard = {} /\ heardTwice = FALSE
    /\ late = [m \in Lives |-> 0]

HandlerGoes(u, step) ==
    /\ way' = [way EXCEPT ![u] = step]
    /\ using' = IF step = "read" THEN [using EXCEPT ![u] = 0] ELSE using

-----------------------------------------------------------------------------
(* Mutants of the definitions below, for testing the properties *)

\* A jitter buffer without a limit
PushAll(buffer, f) == Append(buffer, f)

\* The mixer looks at the first frame and leaves it.
PopLeaves(m) == buffers[m]

\* thread.join() without a timeout
JoinedForReal == leave.waits # 0 => mpc[leave.waits] = "ended"

\* stop() does nothing when there is no thread.
ClearThread(m) == on' = IF thread[m] = 0 THEN on ELSE [on EXCEPT ![m] = FALSE]

\* _transcribe does not ask whether the manager is running.
JobTaken(m) == TRUE

-----------------------------------------------------------------------------
\* deque(maxlen): the oldest frame makes room.
Push(buffer, f) ==
    LET longer == Append(buffer, f)
    IN  IF Len(longer) > MaxBuffer THEN Tail(longer) ELSE longer

\* The buffers b when u's is s
With(b, u, s) == [v \in DOMAIN b \cup {u} |-> IF v = u THEN s ELSE b[v]]

\* join_room; the first user opens the room with a new audio pipeline.
Join(u) ==
    /\ ~Locked
    /\ way[u] = "read"
    /\ u \notin seats
    /\ joins < MaxJoins
    /\ joins' = joins + 1
    /\ seats' = seats \cup {u}
    /\ \/ life # 0 /\ UNCHANGED <<lives, stt>>
       \/ /\ life = 0
          /\ lives < MaxLives
          /\ lives' = lives + 1
          /\ stt' = [stt EXCEPT ![lives'] = "on"]
    /\ UNCHANGED <<mixer, spoken, queue, transcribing, late, handler, mixing, leave, sound>>

-----------------------------------------------------------------------------
(* _handle_audio_chunk and AudioMixerState.feed_audio *)

\* The handler gets hold of the mixer.
GetMixer(u) ==
    /\ way[u] = "read"
    /\ u \in seats
    /\ ~Locked
    /\ fed < MaxFrames
    /\ using' = [using EXCEPT ![u] = life]
    /\ way' = [way EXCEPT ![u] = "append"]
    /\ UNCHANGED <<opened, mixer, text, mixing, leave, sound>>

\* add_participant, and nothing more if there is no frame in the packet.
BadFrame(u) ==
    LET m == using[u] IN
    /\ way[u] = "append"
    /\ u \notin DOMAIN buffers[m]
    /\ buffers' = [buffers EXCEPT ![m] = With(@, u, <<>>)]
    /\ HandlerGoes(u, "read")
    /\ UNCHANGED <<opened, on, thread, text, mixing, leave, sound>>

\* add_participant, and the frame goes into the jitter buffer.
AppendFrame(u) ==
    LET m == using[u]
        f == [n |-> fed + 1, by |-> u]
        old == IF u \in DOMAIN buffers[m] THEN buffers[m][u] ELSE <<>>
    IN
    /\ way[u] = "append"
    /\ fed < MaxFrames
    /\ fed' = fed + 1
    /\ buffers' = [buffers EXCEPT ![m] = With(@, u, Push(old, f))]
    /\ HandlerGoes(u, "stt")
    /\ UNCHANGED <<opened, on, thread, text, mixing, leave, heard, heardTwice>>

\* STTManager.feed_audio: a buffer that has become a chunk is emptied and goes
\* to the pool.  (A stop in between drops the chunk, as a stop after it does.)
FeedSTT(u) ==
    LET m == using[u]
        full == spoken[m][u] + 1 >= ChunkFrames
    IN
    /\ way[u] = "stt"
    /\ \/ /\ stt[m] = "on"
          /\ spoken' = [spoken EXCEPT ![m][u] = IF full THEN 0 ELSE @ + 1]
          /\ queue' = IF full THEN [queue EXCEPT ![m] = @ + 1] ELSE queue
       \/ /\ stt[m] # "on"
          /\ UNCHANGED <<spoken, queue>>
    /\ HandlerGoes(u, "start")
    /\ UNCHANGED <<opened, mixer, stt, transcribing, late, mixing, leave, sound>>

\* start(), if the mixer is not running.  (The test without the lock before
\* it changes nothing: start() tests again, with the lock.)
StartMixer(u) ==
    /\ way[u] = "start"
    /\ on' = [on EXCEPT ![using[u]] = TRUE]
    /\ HandlerGoes(u, IF on[using[u]] THEN "read" ELSE "spawn")
    /\ UNCHANGED <<opened, buffers, thread, text, mixing, leave, sound>>

\* ... which starts the thread after it has given the lock back.
SpawnMixer(u) ==
    /\ way[u] = "spawn"
    /\ \E t \in MixerThreads :
          /\ mpc[t] = "new"
          /\ \A s \in 1 .. (t - 1) : mpc[s] # "new"
          /\ mpc' = [mpc EXCEPT ![t] = "loop"]
          /\ of' = [of EXCEPT ![t] = using[u]]
          /\ thread' = [thread EXCEPT ![using[u]] = t]
    /\ HandlerGoes(u, "read")
    /\ UNCHANGED <<opened, on, buffers, text, pulled, leave, sound>>

-----------------------------------------------------------------------------
(* _mixer_loop and _mix_tick *)

\* The frame at the head of every buffer, and what is left of the buffers
Heads(m) == {buffers[m][u][1] : u \in {v \in DOMAIN buffers[m] : buffers[m][v] # <<>>}}
Popped(m) == [u \in DOMAIN buffers[m] |-> IF buffers[m][u] = <<>> THEN <<>> ELSE Tail(buffers[m][u])]

MixerLoop(t) ==
    LET m == of[t] IN
    /\ mpc[t] = "loop"
    /\ \/ /\ ~on[m]
          /\ mpc' = [mpc EXCEPT ![t] = "ended"]
          /\ UNCHANGED <<buffers, pulled>>
       \/ /\ on[m]
          /\ Heads(m) # {}
          /\ pulled' = [pulled EXCEPT ![t] = Heads(m)]
          /\ buffers' = [buffers EXCEPT ![m] = Popped(m)]
          /\ mpc' = [mpc EXCEPT ![t] = "clients"]
    /\ UNCHANGED <<opened, on, thread, text, handler, of, leave, sound>>

\* get_room_clients waits for the RoomManager's lock; then everyone there
\* gets the frames of the others.
MixerSend(t) ==
    LET sent == {p \in pulled[t] \X seats : p[1].by # p[2]} IN
    /\ mpc[t] = "clients"
    /\ ~Locked
    /\ heard' = heard \cup sent
    /\ heardTwice' = (heardTwice \/ sent \cap heard # {})
    /\ pulled' = [pulled EXCEPT ![t] = {}]
    /\ mpc' = [mpc EXCEPT ![t] = "loop"]
    /\ UNCHANGED <<opened, mixer, text, handler, of, leave, fed>>

-----------------------------------------------------------------------------
(* leave_room and remove_client_from_all_rooms, in the RoomManager's lock *)

LeaveStep(step) == leave' = [leave EXCEPT !.step = step]

\* A handler leaves, or cleans up after its connection.  remove_participant
\* is the first thing done.
LeaveBegin(u) ==
    LET kept == DOMAIN buffers[life] \ {u} IN
    /\ ~Locked
    /\ u \in seats
    /\ way[u] = "read"
    /\ buffers' = [buffers EXCEPT ![life] = [v \in kept |-> @[v]]]
    /\ leave' = [NoLeave EXCEPT !.step = IF kept = {} /\ on[life] THEN "stop" ELSE "pop",
                                !.user = u]
    /\ UNCHANGED <<opened, on, thread, text, handler, mixing, sound>>

\* AudioMixerState.stop, without the mixer's lock: clear the flag ...
ClearRunning(m) == on' = [on EXCEPT ![m] = FALSE]

LeaveHalt ==
    /\ leave.step \in {"stop", "stop_room"}
    /\ ClearRunning(life)
    /\ LeaveStep(IF leave.step = "stop" THEN "take" ELSE "take_room")
    /\ UNCHANGED <<opened, buffers, thread, text, handler, mixing, sound>>

\* ... and take the thread that is there now, which may be a newer one ...
LeaveTake ==
    /\ leave.step \in {"take", "take_room"}
    /\ thread' = [thread EXCEPT ![life] = 0]
    /\ leave' = [leave EXCEPT !.step = IF @ = "take" THEN "join" ELSE "join_room",
                              !.waits = thread[life]]
    /\ UNCHANGED <<opened, on, buffers, text, handler, mixing, sound>>

\* ... thread.join(timeout=2.0): it has ended, or 2 s are over.
Joined == TRUE

LeaveJoin ==
    /\ leave.step = "join"
    /\ Joined
    /\ leave' = [leave EXCEPT !.step = "pop", !.waits = 0]
    /\ UNCHANGED <<opened, mixer, text, handler, mixing, sound>>

\* The seat is given up; the last one takes the room down.
LeavePop ==
    /\ leave.step = "pop"
    /\ \/ /\ seats \ {leave.user} # {}
          /\ seats' = seats \ {leave.user}
          /\ leave' = NoLeave
       \/ /\ seats \ {leave.user} = {}
          /\ LeaveStep("stop_room")
          /\ UNCHANGED seats
    /\ UNCHANGED <<lives, joins, mixer, text, handler, mixing, sound>>

\* The mixer is stopped; STTManager.stop, and the room is gone.
LeaveDestroy ==
    /\ leave.step = "join_room"
    /\ Joined
    /\ stt' = [stt EXCEPT ![life] = "stopped"]
    /\ seats' = {}
    /\ leave' = NoLeave
    /\ UNCHANGED <<lives, joins, mixer, spoken, queue, transcribing, late, handler, mixing,
                   sound>>

-----------------------------------------------------------------------------
(* STTManager._transcribe, by a worker of the pool *)

TakesJob(m) == stt[m] # "stopped"

\* A free worker takes the next chunk, unless the manager has been stopped; if
\* the model cannot be loaded, speech-to-text is disabled.
TranscribeBegin(m) ==
    /\ queue[m] > 0
    /\ transcribing[m] < Workers
    /\ queue' = [queue EXCEPT ![m] = @ - 1]
    /\ \/ /\ TakesJob(m)
          /\ transcribing' = [transcribing EXCEPT ![m] = @ + 1]
          /\ UNCHANGED stt
       \/ /\ TakesJob(m)
          /\ stt' = [stt EXCEPT ![m] = IF @ = "on" THEN "disabled" ELSE @]
          /\ UNCHANGED transcribing
       \/ ~TakesJob(m) /\ UNCHANGED <<stt, transcribing>>
    /\ UNCHANGED <<opened, mixer, spoken, late, handler, mixing, leave, sound>>

\* With or without a translation, the SUBTITLE goes to the clients the room
\* has now.
BroadcastTranscript(m) ==
    /\ ~Locked
    /\ late' = IF life \notin {0, m} THEN [late EXCEPT ![m] = @ + 1] ELSE late

\* A chunk without text, or one that fails, is dropped.
TranscribeEnd(m) ==
    /\ transcribing[m] > 0
    /\ transcribing' = [transcribing EXCEPT ![m] = @ - 1]
    /\ BroadcastTranscript(m) \/ UNCHANGED late
    /\ UNCHANGED <<opened, mixer, stt, spoken, queue, handler, mixing, leave, sound>>

-----------------------------------------------------------------------------
Feed(u) ==
    \/ AppendFrame(u) \/ BadFrame(u) \/ FeedSTT(u) \/ StartMixer(u) \/ SpawnMixer(u)

Leave == LeaveHalt \/ LeaveTake \/ LeaveJoin \/ LeavePop \/ LeaveDestroy

AudioNext ==
    \/ \E u \in Participants : Join(u) \/ GetMixer(u) \/ Feed(u) \/ LeaveBegin(u)
    \/ \E t \in MixerThreads : MixerLoop(t) \/ MixerSend(t)
    \/ Leave
    \/ \E m \in Lives : TranscribeBegin(m) \/ TranscribeEnd(m)

\* Threads run.  The RoomManager's lock is not held for ever (LeaveCompletes),
\* so a mixer thread that waits for it gets it in the end.
Fairness ==
    /\ \A u \in Participants : WF_audioVars(Feed(u))
    /\ \A t \in MixerThreads : WF_audioVars(MixerLoop(t)) /\ SF_audioVars(MixerSend(t))
    /\ WF_audioVars(Leave)

AudioSpec == AudioInit /\ [][AudioNext]_audioVars /\ Fairness

-----------------------------------------------------------------------------
\* No frame reaches a listener twice, although stop and start may leave two
\* mixer threads on one set of buffers.
HeardOnce == ~heardTwice

\* A user who leaves while the mixer thread waits for the RoomManager's lock,
\* which the leaving thread holds while it waits for the mixer, gets out: the
\* two do not wait for each other for ever.
LeaveCompletes == Locked ~> ~Locked

\* A room that is destroyed leaves no mixer thread behind, whatever starts
\* and stops of the mixer crossed while users came and went.
AudioEnds ==
    life = 0 ~> (life # 0 \/ \A t \in MixerThreads : mpc[t] \in {"new", "ended"})

\* After a room is gone its pool still delivers what is being transcribed,
\* to whoever has opened the room again, but no chunk that waits.
FewLateSubtitles == \A m \in Lives : late[m] <= Workers
=============================================================================
