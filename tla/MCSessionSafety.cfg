SPECIFICATION Spec
CONSTANTS
    Callers = {c1, c2, c3}
    MaxRuns = 2
    MaxRequests = 2
SYMMETRY CallerSymmetry
INVARIANTS
    RunsAreKnown
    RequestHasWaiter
    NoLostWakeup
    SettledIsAnnounced
PROPERTIES
    DecisionsStand
    GateSafety
\* Every caller may be waiting for a run that absorbed its cancellation and
\* now asks for an approval: with nobody left to decide, the session stops.
CHECK_DEADLOCK FALSE
