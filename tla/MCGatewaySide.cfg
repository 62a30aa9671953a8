SPECIFICATION MCSpec
CONSTANTS
    TokActive <- TokMCActive
    TokCost <- TokMCCost
    TokQuota <- TokMCQuota
    TokWindow = 2
    TokScale = 2
    TokConcHint = 1
    TokMaxConcurrent = 1
    TokTTL = 2
    TokMaxClock = 6
    TokMaxBack = 2
    TokMaxGrants = 5
    MigProcs = {"old", "new", "drift"}
    MigFiles <- MigMCFiles
    MigReader <- MigMCReader
    MigMaxFaults = 2
    SerCallers = {"c1", "c2"}
    SerModels = {"x", "y"}
    SerWorkers = {"w1", "w2", "w3"}
    SerModelCap = 1
    SerWorkerCap = 2
    SerBudget = 2
    SerMaxCalls = 3
    ObsMaxAttempts = 3
    ObsEventAttempts = 3
    WrkRequests = {1, 2, 3}
    WrkMaxActive = 1
    WrkMaxQueue = 1
    WrkAnnounce = TRUE
    WrkMaxFaults = 1
    CapWorkers = {"a", "b", "c"}
    CapRates <- CapMCRates
    CapMaxTPS = 4000
    CapClamp = 10
    CapFloorPart = 4
    CapMaxAge = 2
    CapMaxSyncs = 3
    SelWorkers = {1, 2, 3}
    SelViews <- SelMCViews
    SelCost = 1
    SelScale = 24
    SelTieParts = 8
    CfgFiles <- CfgMCFiles
    CfgEnvs <- CfgMCEnvs
    CfgBad <- CfgMCBad
INVARIANTS
    TokLimitsHold
    MigSafe
    ObsStoryWhole
    CapSound
    SelSound
    CfgSound
PROPERTIES
    SerBudgetKept
    WrkSafe
CHECK_DEADLOCK FALSE
