SPECIFICATION Spec
CONSTANTS
    MaxSockets = 2
    MaxAttempts = 2
    MaxLoops = 2
INVARIANTS
    FlagMeansLoop
    WindowKnows
PROPERTIES
    LossIsNoticed
    LoopsEnd
CHECK_DEADLOCK FALSE
