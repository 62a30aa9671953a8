SPECIFICATION Spec
CONSTANTS
    a1 = a1
    a2 = a2
    a3 = a3
    Workers = {1}
    WorkerModel <- MCOneModel
    Attempts = {a1, a2}
    ConsecutiveFailures = 2
    RatioNum = 1
    RatioDen = 2
    MinVolume = 3
    Window = 1
    CoolDown = 1
    MaxCoolDown = 2
    ProbeConcurrency = 1
    ProbeSuccesses = 1
    OpenNum = 1
    OpenDen = 1
    TicketBackstop = 1
    MaxTime = 2
    MaxStarts = 4
    MaxViews = 0
INVARIANTS
    TicketsKept
PROPERTIES
    TripNeedsEvidence
SYMMETRY MCPairs
CHECK_DEADLOCK FALSE
