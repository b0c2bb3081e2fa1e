SPECIFICATION Spec
CONSTANTS
    MaxDuration = 9
CHECK_DEADLOCK FALSE
INVARIANTS
    BudgetExact
    LeaseCoversIteration
