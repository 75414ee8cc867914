SPECIFICATION AudioSpec
CONSTANTS
    Participants = {alice, bob}
    NoParticipant = none
    MaxFrames = 2
    MaxLives = 2
    MaxJoins = 3
    MaxThreads = 2
    MaxBuffer = 1
    ChunkFrames = 1
    Workers = 1
INVARIANTS
    AudioTypeOK
    HeardOnce
    FewLateSubtitles
PROPERTIES
    LeaveCompletes
    AudioEnds
CHECK_DEADLOCK FALSE
