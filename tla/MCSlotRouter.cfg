CONSTANTS
    m1 = m1
    nobody = nobody
    MaxGen = 0
    Models = {m1}
    Requests = {r1, r2, r3}
    Tenants = {}
    NoTenant = nobody
    Slots <- MCSlots
    ModelOf <- MCModelOf
    TenantOf <- MCTenantOf
    MaxModelDepth = 2
    None = None
    Reroute = Reroute
    Flushed = Flushed
    MaxModels = 0
    ShareNum = 0
    ShareDen = 1
    Workers = {w1, w2}
    WorkerModel <- MCWorkerModel
    Gens <- MCGens
    Capacity = 1
    MaxAttempts = 2
    MaxChurn = 1
    MaxArrivals = 3
    Timeouts = TRUE
    Cancels = TRUE
    Panics = TRUE
    Drains = FALSE
SPECIFICATION RouterSpec
INVARIANTS
    SlotsSafe
PROPERTIES
    NoQueueJump
    QueueProtocolKept
SYMMETRY MCSymmetry
