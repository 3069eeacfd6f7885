SPECIFICATION Spec
CONSTANTS
    u1 = u1  u2 = u2
    o1 = o1  o2 = o2
    m1 = m1  m2 = m2
    NoManifest = NoManifest
    NoObject = NoObject
    Uploads = {"writer", "import1", "import2"}
    Imports = {"import1", "import2"}
    Objects = {o1, o2}
    Contents = {"c"}
    Manifests = {m1, m2}
    Prefixes = {"p"}
    Readers = {}
    Leases = {}
    Evictors = {"e1"}
    ContentOf <- OneContent
    Carries <- SharedCarries
    Batches <- SharedBatches
    ChunksOf <- DedupChunks
    ParentOf <- NoParents
    PrefixOf <- OnePrefix
    ChunkBytes = 1
    ManifestBytes = 1
    ExpectedBytes = 2
    Quota = 6
    StagingQuota = 6
    GcBatch = 2
    Ladder = FALSE
    AuditRoom = 0
    MaxOverdue = 0
    MaxCrashes = 0
INVARIANTS
    ServableBytesPresent
CHECK_DEADLOCK FALSE
