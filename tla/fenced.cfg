SPECIFICATION Spec
CONSTANTS
    Sessions = {"a", "b"}
    NoSession = "none"
    NoFile = NoFile
    ChunkCount = 1
    Encrypted = TRUE
    MaxCrashes = 0
PROPERTY StaleSessionsFenced
CHECK_DEADLOCK FALSE
