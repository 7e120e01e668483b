SPECIFICATION Spec
CONSTANTS
    MaxSlots = 3
    MaxGeneration = 2
    MaxObjects = 4
    MaxRefs = 1
    MaxRoots = 2
    Sizes = {1}
    MinThreshold = 8
    Growth = 2
INVARIANTS
    TypeOK
    NoAlias
    SlotsAccounted
    CollectsExactlyGarbage
PROPERTIES
    HeldRefsSurvive
    CollectionEnds
    ImplementsStore
CHECK_DEADLOCK FALSE
