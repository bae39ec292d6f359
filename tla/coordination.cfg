SPECIFICATION Spec
CONSTANTS
    MaxOf <- Bounds
    MaxRows = 10
    MaxCycles = 2
INVARIANTS
    TypeOK
    ClosedProjectIsSettled
    LeaseBacksExecution
    ReviewIsIndependent
    AcceptanceIsEarned
CHECK_DEADLOCK FALSE
