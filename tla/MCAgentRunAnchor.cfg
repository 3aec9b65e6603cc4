SPECIFICATION Spec
CONSTANTS
    Contracts <- SessionContracts
    MaxIterations = 3
    MaxToolCalls = 4
    MaxBatch = 2
    MaxQuestions = 2
    MaxAttempts = 3
PROPERTY
    RetryKeepsAnchor
CHECK_DEADLOCK FALSE
