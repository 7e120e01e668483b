SPECIFICATION MemorySpec
CONSTANTS
    MaxSlots = 3
    MaxGeneration = 2
    MaxObjects = 4
    MaxRefs = 1
    MaxRoots = 1
    Sizes = {1, 2}
    MinThreshold = 2
    Growth = 2
    MemoryLimit = 3
    Thresholds = {1, 3}
    InPlaceGrowth = TRUE
PROPERTY
    MemoryCeiling
