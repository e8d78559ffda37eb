SPECIFICATION FairSpec
CONSTANTS
    Events = {1, 2}
    Pollers = {p1, p2}
    Keys = {"exit", "default"}
    Keyed = {"exit"}
    ActionsOf <- MCPair
    Broken = {}
    BatchSize = 2
    MaxFaults = 1
PROPERTIES
    FailedRunsAreRetried
