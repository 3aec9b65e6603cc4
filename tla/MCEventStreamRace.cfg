SPECIFICATION Spec
CONSTANTS
    MaxEvents = 2
    MaxKills = 0
    HistoryLimit = 2
    FlushThreshold = 2
    p1 = p1
    Pages <- OnePage
    MaxDrops = 0
INVARIANTS
    CursorIsProcessed
CHECK_DEADLOCK FALSE
