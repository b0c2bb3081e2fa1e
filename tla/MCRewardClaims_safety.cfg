SPECIFICATION Spec
CONSTANTS
    Requests = {r1, r2, r3, r4}
    Keys = {k1, k2}
    Rewards = {a, b}
    NULL = NULL
SYMMETRY Symmetry
CHECK_DEADLOCK FALSE
INVARIANTS
    OneClaimPerReward
    ClaimIsComplete
    RepliesAreTrue
    NoSelfConflict
    ImpossibleErrors
    DeterministicReplay
PROPERTIES
    ImplementsLedger
