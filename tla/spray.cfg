SPECIFICATION MCFairSpec
CONSTANTS
    MaxFrameBytes = 64
    MaxTotalBytes = 64
    MaxLayers = 8
    MaxCachedTokens = 8
    MaxContextTokens = 8
    U64Max = 1000
    Begin <- SixLatentLayers
    Scripts <- RoundRobin
    Begins = {}
    Descriptors = {}
    Seals = {}
    Capacity = 2
    Faults = 0
PROPERTIES SessionEnds
CHECK_DEADLOCK FALSE
