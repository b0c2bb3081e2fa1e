SPECIFICATION Spec
CONSTANTS
    Workers = {w1, w2}
    Events = {e1}
    Leases = {l1, l2, l3}
    MaxFailures = 2
    FailureReasons = {"failed"}
    LateExecution = TRUE
    NULL = NULL
INVARIANTS
    AttemptsBelowMax
