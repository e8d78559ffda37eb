CHECK_DEADLOCK FALSE
CONSTANTS
    Documents = {d1, d2}
    Issues = {i1}
    Handlers = {h1, h2}
SPECIFICATION Spec
\* By hand, one property at a time: each has a counterexample.
INVARIANT NothingStaysApproved
\* INVARIANT ApprovedIsClean
\* PROPERTY ScoresKeepDecisions
