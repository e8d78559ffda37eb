SPECIFICATION Spec
CONSTANTS
    Users = {u1, u2}
    Teams = {t1}
    NoTeam = NoTeam
    MaxSize = 2
    Callers = {c1}
CHECK_DEADLOCK FALSE
PROPERTY LockForbidsAnyChange
