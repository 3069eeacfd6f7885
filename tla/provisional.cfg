SPECIFICATION Spec
CONSTANTS
    Sessions = {"a", "b"}
    NoSession = "none"
    NoFile = NoFile
    ChunkCount = 2
    Encrypted = TRUE
    MaxCrashes = 1
INVARIANTS
    CursorCovered
    RowsHaveFiles
    PublishedWhole
CHECK_DEADLOCK FALSE
