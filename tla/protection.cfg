SPECIFICATION Spec
CONSTANTS
    u1 = u1  u2 = u2
    o1 = o1  o2 = o2
    m1 = m1  m2 = m2
    NoManifest = NoManifest
    NoObject = NoObject
    Uploads = {u1, u2}
    Imports = {u2}
    Objects = {o1, o2}
    Contents = {"c"}
    Manifests = {m1, m2}
    Prefixes = {"p"}
    Readers = {"r"}
    Leases = {"l"}
    Evictors = {"e1"}
    ContentOf <- OneContent
    Carries <- DedupCarries
    Batches <- DedupBatches
    ChunksOf <- DedupChunks
    ParentOf <- NoParents
    PrefixOf <- OnePrefix
    ChunkBytes = 1
    ManifestBytes = 1
    ExpectedBytes = 2
    Quota = 3
    StagingQuota = 4
    GcBatch = 1
    Ladder = FALSE
    AuditRoom = 1
    MaxOverdue = 0
    MaxCrashes = 1
INVARIANTS
    PinnedChunksReadable
    LeasedObjectsKept
    QuotaRespected
    ReservationExact
    EvictingUnreferenced
CHECK_DEADLOCK FALSE
