SPECIFICATION FairSpec
CONSTANTS
    MaxEvents = 4
    MaxKills = 1
    HistoryLimit = 2
    FlushThreshold = 2
    p1 = p1
    Pages <- OnePage
    MaxDrops = 1

    
    
    
    
    
PROPERTIES
    
    CatchesUp
\* The bounds on events, kills and drops may all be used up.
CHECK_DEADLOCK FALSE
