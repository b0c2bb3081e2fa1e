SPECIFICATION LiveSpec
CONSTANTS
    MaxIDLength = 1
    MaxColumnLength = 1
    MaxKeyLength = 1
    NULL = NULL
CHECK_DEADLOCK FALSE
INVARIANTS
    TypeOK
    RecordedIsSent
    NoImplicitSuccess
    OutcomesAgree
    FirstCauseDecides
    ValidationMatchesTable
    PanicIsVisible
PROPERTIES
    EveryExchangeEnds
