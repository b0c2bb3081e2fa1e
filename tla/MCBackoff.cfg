SPECIFICATION BackoffSpec
CONSTANTS
    MaxDuration = 15
    MaxAttempts = 7
CHECK_DEADLOCK FALSE
INVARIANTS
    CappedExponential
