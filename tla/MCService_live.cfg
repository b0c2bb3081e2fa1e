SPECIFICATION ServiceLiveSpec
CONSTANTS
    Requests = {r1}
    Keys = {k1}
    Rewards = {a}
    Workers = {w1, w2}
    Leases = {l1, l2}
    MaxFailures = 2
    FailureReasons = {"failed"}
    LateExecution = FALSE
    NULL = NULL
PROPERTIES
    GrantIsSettled
    WorkersStop
