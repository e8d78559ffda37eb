CHECK_DEADLOCK FALSE
CONSTANTS
    Teams = {t1, t2}
    Supervisors = {s1}
    Rows = {k1}
    Handlers = {h1, h2}
    Default = 2
    MaxLimit = 1
    None = None
    Bound = 3
CONSTRAINT FewThings
SPECIFICATION SelectionSpec
\* By hand, one property at a time: each has a counterexample.
INVARIANT SelectedHasSupervisor
\* PROPERTY DecisionsAreFinal
