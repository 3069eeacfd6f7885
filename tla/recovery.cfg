SPECIFICATION FairSpec
CONSTANTS
    u1 = u1  u2 = u2
    o1 = o1  o2 = o2
    m1 = m1  m2 = m2
    NoManifest = NoManifest
    NoObject = NoObject
    Uploads = {u1}
    Imports = {}
    Objects = {o1, o2}
    Contents = {"c1", "c2"}
    Manifests = {m1, m2}
    Prefixes = {"p"}
    Readers = {}
    Leases = {}
    Evictors = {"e1"}
    ContentOf <- TwoContents
    Carries <- SoloCarries
    Batches <- SoloBatches
    ChunksOf <- DeltaChunks
    ParentOf <- NoParents
    PrefixOf <- OnePrefix
    ChunkBytes = 1
    ManifestBytes = 1
    ExpectedBytes = 4
    Quota = 4
    StagingQuota = 4
    GcBatch = 2
    Ladder = FALSE
    AuditRoom = 5
    MaxOverdue = 1
    MaxCrashes = 2
PROPERTIES
    RecoveryCompletes
CHECK_DEADLOCK FALSE
