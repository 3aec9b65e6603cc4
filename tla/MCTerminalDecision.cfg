SPECIFICATION Spec
CONSTANTS
    Kids = {101}
    MaxRuns = 1
    MaxRequests = 1
    MaxChunks = 1
    MaxCalls = 2
CHECK_DEADLOCK FALSE
INVARIANTS
    DecidesWhatIsShown
