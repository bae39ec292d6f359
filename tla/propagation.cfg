SPECIFICATION Spec
CONSTANTS
    Attempts = {a1}
    Sessions = {}
    Experiments = {e1}
    Requests = {q1}
    Pids = {p1, p2}
    Boundary = boundary
    NoPid = nopid
    PiStreams = 0
    EvaluatorStreams = 0
    Livenesses = {"Absent"}
    WaitStatuses = {"Exited"}
    MaxGeneration = 1
SYMMETRY Symmetry
CHECK_DEADLOCK FALSE
INVARIANTS
    ReconciledIsContained
