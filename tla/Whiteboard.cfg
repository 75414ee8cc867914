CONSTANTS
    Ids = {}
    NoId = NoId
    HistoryLimit = 1
    MaxEvents = 4
    Broken = {3}
    Elsewhere = FALSE
    DbFails = FALSE
SPECIFICATION FairSpec
INVARIANTS Recoverable SeqsAreDense ExportComplete
PROPERTIES UndoIsErasure CacheIsPruned
