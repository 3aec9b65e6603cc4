SPECIFICATION FairSpec
CONSTANTS
    Callers = {c1, c2}
    MaxRuns = 2
    MaxRequests = 2
PROPERTIES
    EveryCallReturns
    GateLiveness
CHECK_DEADLOCK FALSE
