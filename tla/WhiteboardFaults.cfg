CONSTANTS
    Ids = {i1, i2}
    NoId = NoId
    HistoryLimit = 1
    MaxEvents = 3
    Broken = {2}
    Elsewhere = TRUE
    DbFails = TRUE
SPECIFICATION Spec
SYMMETRY IdSymmetry
INVARIANTS TypeOK NoLostDraw AcceptedOnce
