SPECIFICATION FairSpec
CONSTANTS
    draft = draft
    review = review
    done = done
    States <- MCStates
    InitialState = draft
    FinalStates <- MCFinal
    Transitions <- MCTransitions
    DurationStates <- MCDuration
    FixedStates <- MCFixed
    ExitPost <- MCExit
    EnterPost <- MCEnter
    Callers = {c1}
    Schedulers = {d1, d2}
    MaxHistory = 2
INVARIANT OneAlarmPerDeadline
PROPERTIES
    AlarmsAreDue
    ExpiredDeadlineIsHandled
CHECK_DEADLOCK FALSE
