SPECIFICATION Spec
CONSTANTS
    Users = {alice, bob}
    MaxRequests = 3
    MaxMoves = 1
SYMMETRY Symmetry
INVARIANTS
    TypeOK
    InOrderView
    RedoAimsAtLastUndo
CHECK_DEADLOCK FALSE
