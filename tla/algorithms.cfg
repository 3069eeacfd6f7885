SPECIFICATION MCSpec
CONSTANTS
    Keys = {1, 2, 3, 4}
    SketchCells <- MCSketchCells
    CapacityBytes = 3
    ResetAfterAccesses = 4
    ProtectedFractionMillis = 800
    MaxCounter = 3
    NsPerSecond = 1
    Policies = {"Lru", "Lfu", "TinyLfu", "Arc", "ClockPro"}
    Tiers = {"local", "gateway"}
    Profile <- MCProfile
    MaximumEntries = 2
    Accesses <- MCAccesses
    MaximumEvents = 5
    MaximumObjects = 3
    MaximumStates = 7
    MaximumTransitions = 40
INVARIANTS BeginsStream PlansExact SizedStoreRetains OracleIsLowerBound
CHECK_DEADLOCK FALSE
