SPECIFICATION Spec
CONSTANTS
    Cycles = {c1, c2}
    Reservations = {r1, r2}
    Requests = {q1}
    Children = {k1}
    Society = society
    None = none
    HardCeiling = 3
    Ceilings = {2}
    Amounts = {2}
    Observations = {1, 3}
    Treatments = {"Office", "Qualification"}
    MaxGeneration = 2
SYMMETRY Symmetry
CHECK_DEADLOCK FALSE
INVARIANT AtMostOneOpenCycle
PROPERTIES
    ClosedIsFinal
    ChildrenFollowCustody
