SPECIFICATION Spec
CONSTANTS
    Events = {1, 2, 3}
    Pollers = {p1, p2}
    Keys = {"exit", "enter", "other", "default"}
    Keyed = {"exit", "enter", "other"}
    ActionsOf <- MCApart
    Broken = {}
    BatchSize = 2
    MaxFaults = 1
INVARIANTS
    NoDuplicates
