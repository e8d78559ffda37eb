SPECIFICATION Spec
CONSTANTS
    Users = {u1, u2}
    Teams = {t1, t2}
    NoTeam = NoTeam
    MaxSize = 2
    Callers = {c1}
SYMMETRY Symmetry
CONSTRAINT Undisturbed
CHECK_DEADLOCK FALSE
INVARIANT OneLeader
