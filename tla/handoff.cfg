SPECIFICATION MCFairSpec
CONSTANTS
    MaxFrameBytes = 64
    MaxTotalBytes = 64
    MaxLayers = 8
    MaxCachedTokens = 8
    MaxContextTokens = 8
    U64Max = 1000
    Begin <- ThreeLayers
    Scripts <- AllScripts
    Begins <- V2Begins
    Descriptors <- V2Descriptors
    Seals <- V2Seals
    Capacity = 2
    Faults = 1
INVARIANTS AckedBundleWhole InstalledDisjoint
PROPERTIES EndsUnlessStarved RefinesTransfer RefinesTransferV2 HonestNotRefused
CHECK_DEADLOCK FALSE
