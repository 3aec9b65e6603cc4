SPECIFICATION Spec
CONSTANTS
    Callers = {c1, c2}
    MaxRuns = 1
    MaxRequests = 0
PROPERTIES
    ClosedIsFinal
CHECK_DEADLOCK FALSE
