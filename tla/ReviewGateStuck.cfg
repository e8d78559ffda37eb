CONSTANTS
    r1 = r1
    r2 = r2
    r3 = r3
    dean = dean
    clerk = clerk
    Reviewers = {r1, r2}
    RolesOf <- MCRoles
    ReviewerRoles = {"commission", "teacher"}
    MinReviewers = 0
    GradeType = "score"
    PassingScore = 50
    Grades = {40, 60}
    Staff = {dean, clerk}
    Finalizers = {dean}
    Exits = {"pass", "fail"}
    To <- MCTo
    Needs <- Conditioned
    MaxRollbacks = 1
SPECIFICATION FairSpec
PROPERTY VotedIsFinalized
