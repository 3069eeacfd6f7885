SPECIFICATION Spec
CONSTANTS
    u1 = u1  u2 = u2
    o1 = o1  o2 = o2
    m1 = m1  m2 = m2
    NoManifest = NoManifest
    NoObject = NoObject
    Uploads = {u1, u2}
    Imports = {u2}
    Objects = {o1, o2}
    Contents = {"c1", "c2"}
    Manifests = {m1, m2}
    Prefixes = {"p1", "p2"}
    Readers = {}
    Leases = {}
    Evictors = {"e1"}
    ContentOf <- TwoContents
    Carries <- DeltaCarries
    Batches <- DeltaBatches
    ChunksOf <- DeltaChunks
    ParentOf <- DeltaParents
    PrefixOf <- TwoPrefixes
    ChunkBytes = 1
    ManifestBytes = 1
    ExpectedBytes = 4
    Quota = 8
    StagingQuota = 8
    GcBatch = 1
    Ladder = FALSE
    AuditRoom = 0
    MaxOverdue = 0
    MaxCrashes = 0
INVARIANTS
    ParentsRemain
CHECK_DEADLOCK FALSE
