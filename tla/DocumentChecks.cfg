CHECK_DEADLOCK FALSE
CONSTANTS
    Documents = {d1, d2}
    Issues = {i1}
    Handlers = {h1, h2}
CONSTRAINTS FewExceptions OneWriter
SYMMETRY Symmetry
SPECIFICATION Spec
INVARIANTS TypeOK ApprovedHasMoved PassedStaysApproved SubmissionAgrees
