SPECIFICATION Spec
CONSTANTS
    Cycles = {c1}
    Reservations = {r1}
    Requests = {q1}
    Children = {k1}
    Society = society
    None = none
    HardCeiling = 2
    Ceilings = {2}
    Amounts = {2}
    Observations = {1}
    Treatments = {"Office"}
    MaxGeneration = 2
CHECK_DEADLOCK FALSE
INVARIANT DrainedCanReconcile
