SPECIFICATION LiveSpec
CONSTANTS
    Requests = {r1, r2, r3}
CHECK_DEADLOCK FALSE
INVARIANTS
    ExitZeroIsClean
    FailureHasCause
    ServedToTheEnd
PROPERTIES
    ProcessTerminates
