CONSTANTS
    Submissions = {s1, s2, s3}
    Handlers = {h1, h2}
    Bound = 2
CONSTRAINT FewEarly
SYMMETRY Symmetry
SPECIFICATION Spec
INVARIANTS TypeOK FirstPhaseIsHeard CompletedInTimeMeansMoved
