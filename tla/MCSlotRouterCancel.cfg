CONSTANTS
    m1 = m1
    nobody = nobody
    MaxGen = 0
    Models = {m1}
    Requests = {r1, r2, r3}
    Tenants = {}
    NoTenant = nobody
    Slots <- MCSlots
    ModelOf <- MCModelOf
    TenantOf <- MCTenantOf
    MaxModelDepth = 2
    None = None
    Reroute = Reroute
    Flushed = Flushed
    MaxModels = 0
    ShareNum = 0
    ShareDen = 1
    Workers = {w1}
    WorkerModel <- MCWorkerModel
    Gens <- MCGens
    Capacity = 1
    MaxAttempts = 1
    MaxChurn = 2
    MaxArrivals = 3
    Timeouts = FALSE
    Cancels = TRUE
    Panics = FALSE
    Drains = FALSE
SPECIFICATION RouterSpec
PROPERTIES
    UnusedWakeupGivenBack
