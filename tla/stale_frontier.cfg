SPECIFICATION DriverSpec
CONSTANTS
    c1 = c1
    NoCall = NoCall
    Calls = {c1}
    Amount = 1
    KernelCeiling = 2
    MaxTotal = 3
    MaxFrames = 9
INVARIANTS
    SealedPromptIsAdmissible
CHECK_DEADLOCK FALSE
