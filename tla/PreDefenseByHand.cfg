CONSTANTS
    Submissions = {s1, s2}
    Handlers = {h1, h2}
    Bound = 2
SPECIFICATION Spec
\* By hand, one property at a time: each has a counterexample.
INVARIANT SecondPhaseIsHeard
\* INVARIANT CompletedMeansMoved
\* INVARIANT QueueIsCleared
\* PROPERTY RepeatStaysInPhase
\* PROPERTY FinalStaysFinal
