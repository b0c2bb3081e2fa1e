SPECIFICATION Spec
CONSTANTS
    Workers = {w1, w2, w3}
    Events = {e1, e2}
    Leases = {l1, l2, l3}
    MaxFailures = 2
    FailureReasons = {"failed"}
    LateExecution = FALSE
    NULL = NULL
SYMMETRY Symmetry
INVARIANTS
    AttemptsBelowMax
PROPERTIES
    StaleFinalizationRejected
