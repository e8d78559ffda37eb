SPECIFICATION FairSpec
CONSTANTS
    Events = {1, 2, 3}
    Pollers = {p1, p2}
    Keys = {"exit", "default"}
    Keyed = {"exit"}
    ActionsOf <- MCMix
    Broken = {3}
    BatchSize = 2
    MaxFaults = 2
INVARIANTS
    TypeOK
    RunsAtMostOnce
    ProcessedMeansExecuted
    ClaimsAreExclusive
PROPERTIES
    EventsAreTakenUp
