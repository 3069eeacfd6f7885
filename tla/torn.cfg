SPECIFICATION Spec
CONSTANTS
    Sessions = {"a", "b"}
    NoSession = "none"
    NoFile = NoFile
    ChunkCount = 1
    Encrypted = TRUE
    MaxCrashes = 1
INVARIANT RowsBacked
CHECK_DEADLOCK FALSE
