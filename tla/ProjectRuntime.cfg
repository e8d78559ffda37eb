SPECIFICATION Spec
CONSTANTS
    draft = draft
    review = review
    done = done
    States <- MCStates
    InitialState = draft
    FinalStates <- MCFinal
    Transitions <- MCTransitions
    DurationStates <- MCDuration
    FixedStates <- MCFixed
    ExitPost <- MCExit
    EnterPost <- MCEnter
    Callers = {c1, c2}
    Schedulers = {d1}
    MaxHistory = 2
INVARIANTS
    TypeOK
    HistoryIsAPath
    MovesFollowTheWorkflow
    OutboxMatchesHistory
    StatusAgrees
PROPERTIES
    ImplementsLedger
SYMMETRY Symmetry
CHECK_DEADLOCK FALSE
