SPECIFICATION LiveSpec
CONSTANTS
    Requests = {r1, r2, r3}
    Keys = {k1, k2}
    Rewards = {a, b}
    NULL = NULL
CHECK_DEADLOCK FALSE
PROPERTIES
    EveryCallReturns
