SPECIFICATION ServiceSpec
CONSTANTS
    Requests = {r1, r2}
    Keys = {k1, k2}
    Rewards = {a}
    Workers = {w1, w2}
    Leases = {l1, l2}
    MaxFailures = 1
    FailureReasons = {"failed"}
    LateExecution = TRUE
    NULL = NULL
SYMMETRY Symmetry
INVARIANTS
    OnlyGrantsAnnounced
    NoGrantLost
