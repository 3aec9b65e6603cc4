SPECIFICATION Spec
CONSTANTS
    Callers = {c1, c2}
    Ids = {s1, s2}
    MaxRestarts = 1
    MaxFaults = 0
CHECK_DEADLOCK FALSE
INVARIANTS
    RecordKept
