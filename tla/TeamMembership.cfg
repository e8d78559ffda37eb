SPECIFICATION Spec
CONSTANTS
    Users = {u1, u2, u3}
    Teams = {t1}
    NoTeam = NoTeam
    MaxSize = 2
    Callers = {c1, c2}
SYMMETRY Symmetry
CONSTRAINT FewAnswers
CHECK_DEADLOCK FALSE
INVARIANTS
    TypeOK
    SizeLimit
    OneLeader
    NoGhosts
PROPERTY LockedStaysTheSame
