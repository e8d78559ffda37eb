SPECIFICATION Spec
CONSTANTS
    draft = draft
    review = review
    done = done
    States <- MCStates
    InitialState = draft
    FinalStates <- MCFinal
    Transitions <- MCTransitions
    DurationStates <- MCDuration
    FixedStates <- MCFixed
    ExitPost <- MCExit
    EnterPost <- MCEnter
    Callers = {c1}
    Schedulers = {d1}
    MaxHistory = 2
PROPERTY AlarmNamesItsStage
CHECK_DEADLOCK FALSE
