SPECIFICATION MCSpec
CONSTANTS
    Models = {"m1", "m2"}
    Requests = {"r1", "r2", "r3", "r4", "r5"}
    Tenants = {"acme"}
    NoTenant = ""
    Slots = {"slot"}
    ModelOf <- MCModelOf
    TenantOf <- MCTenantOf
    MaxModelDepth = 3
    None = "none"
    Reroute = "reroute"
    Flushed = "flushed"
    MaxModels = 1
    ShareNum = 1
    ShareDen = 3
    MaxWakeups = 3
    BudModels = {"m1", "m2"}
    BudOtherModel = "other"
    BudRequests = {"b1", "b2"}
    BudRatioNum = 1
    BudRatioDen = 2
    BudMinRetries = 1
    BudWindow = 2
    BudMaxModels = 1
    BudMaxTime = 3
    BudMaxCalls = 3
    KeyPrefixes = {"k1", "k2"}
    KeyInitially = {"k1"}
    KeyAsks <- MCAsks
    KeyTTL = 1
    KeyGrace = 1
    KeyNegTTL = 1
    KeyCacheSize = 1
    KeyMaxLookups = 2
    KeyLookupTicks = 1
    KeyMaxChanges = 1
    TrkKeys = {"k1", "k2"}
    TrkRequests = {"r1", "r2"}
    TrkCost <- MCCost
    TrkBucket = 1
    TrkWindow = 2
    TrkMaxWorkers = 1
    TrkSkew = 1
    TrkMaxClock = 5
    TrkMaxSyncs = 1
INVARIANTS
    CreditOnlyBehindRoutingHead
    WaitersKept
    LimitsKept
    KeysCurrent
    TrackerExact
PROPERTIES
    WakeupsNotLost
    BudgetKept
CHECK_DEADLOCK FALSE
