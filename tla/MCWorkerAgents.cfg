SPECIFICATION FairSpec
CONSTANTS
    IDs = {1, 2}
    Agents = {"a", "b"}
    MaxWorkers = 1
    Suspect = 1
    Unhealthy = 2
    Lost = 3
    Retention = 1
    SuspectEligible = FALSE
    MaxRegs = 12
    Reports = {"READY", "DRAINING"}
    Starts <- MCStarts
    MaxFaults = 2
    LateCalls = {"register"}
INVARIANTS
    AgentsSafe
PROPERTIES
    FightEnds
    RegistryConverges
