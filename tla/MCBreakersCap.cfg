SPECIFICATION Spec
CONSTANTS
    a1 = a1
    a2 = a2
    a3 = a3
    Workers = {1, 2, 3}
    WorkerModel <- MCOneModel
    Attempts = {a1}
    ConsecutiveFailures = 1
    RatioNum = 1
    RatioDen = 2
    MinVolume = 3
    Window = 2
    CoolDown = 1
    MaxCoolDown = 2
    ProbeConcurrency = 1
    ProbeSuccesses = 1
    OpenNum = 1
    OpenDen = 2
    TicketBackstop = 2
    MaxTime = 1
    MaxStarts = 2
    MaxViews = 1
PROPERTIES
    CapKept
SYMMETRY MCPairs
CHECK_DEADLOCK FALSE
