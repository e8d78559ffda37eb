CHECK_DEADLOCK FALSE
CONSTANTS
    Teams = {t1, t2, t3}
    Supervisors = {s1}
    Rows = {k1, k2}
    Handlers = {h1, h2}
    Default = 1
    MaxLimit = 1
    None = None
    Bound = 3
CONSTRAINT FewThings
SYMMETRY Symmetry
SPECIFICATION SelectionSpec
INVARIANTS SelectionTypeOK ApprovedIsComplete LoadIsBounded
