CONSTANTS
    Files = {f1, f2}
    Deleters = {d1}
    Readers = {r1}
    MaxParts = 2
    Nobody = Nobody
    Nothing = Nothing
SPECIFICATION Spec
CHECK_DEADLOCK FALSE
\* By hand, one property at a time: each has a counterexample.
INVARIANT NoFileWithoutRow
\* INVARIANT DownloadsAreWhole
\* INVARIANT WholeUploadsAreSaved
