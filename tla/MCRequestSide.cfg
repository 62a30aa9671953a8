SPECIFICATION MCSpec
CONSTANTS
    BevProcs = {1, 2, 3}
    BevWorkers = {"w1"}
    BevMaxPending = 1
    BevMaxChanges = 2
    MaxAttempts = 2
    GlobalCap = 1
    PathModes = {"static", "plain", "resilient"}
INVARIANTS
    BevSafe
    ReqSafe
PROPERTIES
    CounterConverges
    ReqKeepsContract
    ReqCompletes
CHECK_DEADLOCK FALSE
