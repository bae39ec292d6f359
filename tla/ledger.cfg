SPECIFICATION Spec
CONSTANTS
    FaultKinds <- Examined
    MaxRows = 3
    MaxAborts = 1
INVARIANTS
    TypeOK
    ReceiptIsForItsOwnRequest
    LedgerReadsBack
    StartsFaithful
    RestartIsPossible
    MissionHasItsSource
CHECK_DEADLOCK FALSE
