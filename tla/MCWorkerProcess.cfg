SPECIFICATION LiveSpec
CHECK_DEADLOCK FALSE
INVARIANTS
    ReadyMeansLoop
    ExitZeroIsClean
    FailureHasCause
PROPERTIES
    ProcessTerminates
