SPECIFICATION MetricsSpec
CONSTANTS
    Workers = {w1, w2}
    Events = {e1}
    Leases = {l1, l2, l3}
    MaxFailures = 2
    FailureReasons = {"failed"}
    LateExecution = TRUE
    MaxUnheard = 2
    MaxPublisherFailures = 3
    NULL = NULL
CHECK_DEADLOCK FALSE
SYMMETRY Symmetry
INVARIANTS
    TableConstraints
    PublishedWasDelivered
    NeverOvercounted
    UndercountExplained
    OnlyPublisherFailures
PROPERTIES
    ImplementsContract
