SPECIFICATION FairSpec
CONSTANTS
    Sessions = {"a", "b"}
    NoSession = "none"
    NoFile = NoFile
    ChunkCount = 1
    Encrypted = TRUE
    MaxCrashes = 1
PROPERTY AdoptedUploadEnds
CHECK_DEADLOCK FALSE
