SPECIFICATION Spec
CONSTANTS
    p = p  q = q
    Procs = {p, q}
    Configs <- MCConfigs
    Tenants = {"a", "b"}
    Manifests <- MCManifests
    TenantOf <- MCTenantOf
    EpochOf <- MCEpochOf
    Chunks <- MCChunks
    ChunksOf <- MCChunksOf
    Dests = {"d"}
    BlockRows = 2
    MaxBlocks = 3
    MaxEntries = 4
    Seconds = {1, 2}
    MaxCalls = 6
    MaxFaults = 1
SYMMETRY MCSymmetry
INVARIANTS RestoredOpens ReportExact EvidenceKept
PROPERTIES NeverReplaces
CHECK_DEADLOCK FALSE
