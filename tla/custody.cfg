SPECIFICATION Spec
CONSTANTS
    Attempts = {}
    Sessions = {s1}
    Experiments = {}
    Requests = {q1}
    Pids = {p1}
    Boundary = boundary
    NoPid = nopid
    PiStreams = 2
    EvaluatorStreams = 2
    Livenesses = {"Present", "Absent", "Inaccessible"}
    WaitStatuses = {"Exited", "Term", "Kill", "Unknown"}
    MaxGeneration = 2
SYMMETRY Symmetry
CHECK_DEADLOCK FALSE
INVARIANTS
    TypeOK
    EndedIsGone
    AwaitedCanAnswer
PROPERTY CustodyLifecycle
