SPECIFICATION Spec
CONSTANTS
    FaultKinds <- Examined
    MaxRows = 3
    MaxAborts = 1
INVARIANTS
    EveryLedgerValidates
CHECK_DEADLOCK FALSE
