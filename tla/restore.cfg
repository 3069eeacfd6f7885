SPECIFICATION MCFairSpec
CONSTANTS
    r1 = r1
    r2 = r2
    a = a
    b = b
    c = c
    Restores = {r1, r2}
    Workers = {w1, w2}
    Chunks = {a, b, c}
    Mode <- MCMode
    Manifests <- MCManifests
    Requests <- MCRequests
    Limits <- MCLimits
    MaxFaults = 1
    MaxDeltaDepth = 2
    MaxScatterFds = 2
    MaxChunkTokens = 2
INVARIANTS PinnedWithinLimits AllOrNothing FailedLeavesNoPins
PROPERTIES RestoreReturns
CHECK_DEADLOCK FALSE
