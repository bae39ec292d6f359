SPECIFICATION Spec
CONSTANTS
    e1 = e1
    e2 = e2
    e3 = e3
    Episodes = {e1, e2, e3}
    Roles = {1, 2}
    PopulationSize = 1
    Slots = {1}
    UnitBudget = 1
    EpisodeBudget = 1
    PostBudget = 2
    ReadBudget = 2
    ReadSpan = 2
    MaxAdmitted = 2
    MaxEvents = 3
SYMMETRY Symmetry
INVARIANTS
    TypeOK
    ResetForgets
    PopulationsDoNotOverlap
    CorrectionIsMatched
    ClosedIsReconciled
PROPERTIES
    RevealEndsActing
CHECK_DEADLOCK FALSE
