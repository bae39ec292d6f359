SPECIFICATION Spec
CONSTANTS
    Cycles = {c1}
    Reservations = {r1, r2}
    Requests = {q1, q2}
    Children = {k1}
    Society = society
    None = none
    HardCeiling = 3
    Ceilings = {2}
    Amounts = {1, 2}
    Observations = {0, 1, 2, 3}
    Treatments = {"Office"}
    MaxGeneration = 3
SYMMETRY Symmetry
CHECK_DEADLOCK FALSE
INVARIANTS
    TypeOK
    EnvelopeAccounting
    CeilingHeld
    ReservationHold
    FrozenCostFencesAdmission
    ResolvedCostIsCharged
    ClosedIsSettled
    CancellationFences
    GenerationFences
PROPERTY CostIsFinal
