SPECIFICATION Spec
CONSTANTS
    Sessions = {"a", "b"}
    NoSession = "none"
    NoFile = NoFile
    ChunkCount = 1
    Encrypted = FALSE
    MaxCrashes = 0
INVARIANT RowsHaveFiles
CHECK_DEADLOCK FALSE
