CONSTANTS
    Files = {f1, f2}
    Deleters = {d1}
    Readers = {r1}
    MaxParts = 2
    Nobody = Nobody
    Nothing = Nothing
SPECIFICATION FairSpec
INVARIANTS TypeOK
PROPERTIES ImplementsCatalog TempFilesGo
CONSTRAINT LargeOnly
CHECK_DEADLOCK FALSE
