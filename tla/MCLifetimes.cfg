SPECIFICATION MCSpec
CONSTANTS
    LimGateways = {"a"}
    LimHome <- LimMCHome
    LimActive <- LimMCActive
    LimMaxConcurrent = 1
    LimTTL = 2
    LimMaxLocal = 1
    LimQueueSize = 1
    LimFailOpen = FALSE
    LimMaxFaults = 1
    PubHandlers = {"h1", "h2"}
    PubEvents = 2
    PubUnencodable <- PubMCUnencodable
    PubBuffer = 2
    PubMaxBuffered = 2
    UseMembers = {"a", "b"}
    UseLog <- UseMCLog
    UseBatchSize = 2
    UseCommitTries = 2
    UseMaxFaults = 2
    BatEnders = {"e1"}
    BatSpans = 3
    BatQueueSize = 2
    BatMaxBatch = 2
    SimRequests = {"r1", "r2", "r3"}
    SimInput <- SimMCInput
    SimTarget <- SimMCTarget
    SimMaxSeqs = 2
    SimMaxQueue = 1
    SimBudget = 5
    SimChunk = 1
    SimMaxLag = 0
    PrcRequests = {"r1", "r2"}
    PrcConfigs <- PrcMCConfigs
    PrcMaxSignals = 3
INVARIANTS
    PubSafe
    UseSafe
    BatSafe
    SimSafe
    PrcSafe
PROPERTIES
    LimSafe
    ShutdownsEnd
    WorkCompletes
CHECK_DEADLOCK FALSE
