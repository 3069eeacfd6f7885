CONSTANTS
    Stores = {p1, p2}
    MaxPending = 2
    MaxRetained = 1
    MaxBatch = 2
    MaxSegments = 2
    MaxFaults = 1
    Cuts = {c1}
    Uploads = {u1}
    MaxEpoch = 2
    MaxRetire = 2
    Files = {f1}
SPECIFICATION MCFairSpec
INVARIANTS NothingUnexportedLost PendingBounded TombstonesAudited
PROPERTIES AckedOnDiskOrAged RetirementFinishes
CHECK_DEADLOCK FALSE
