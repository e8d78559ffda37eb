CONSTANTS
    r1 = r1
    r2 = r2
    r3 = r3
    dean = dean
    clerk = clerk
    Reviewers = {r1, r2, r3}
    RolesOf <- MCRoles
    ReviewerRoles = {"commission", "teacher"}
    MinReviewers = 0
    GradeType = "score"
    PassingScore = 50
    Grades = {40, 60}
    Staff = {dean, clerk}
    Finalizers = {dean}
    Exits = {"pass", "fail"}
    To <- MCTo
    Needs <- Unconditioned
    MaxRollbacks = 1
SPECIFICATION Spec
INVARIANT OldVotesDoNotDecide
