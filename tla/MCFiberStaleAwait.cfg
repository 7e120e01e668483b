SPECIFICATION Spec
CONSTANTS
    MaxFibers = 2
    MaxTokens = 1
    MaxWait = 1
    Deltas = {0, 1}
    Sync = FALSE
    MayFail = FALSE
    AwaitDirectly = FALSE
PROPERTY
    ParksForNoOther
CHECK_DEADLOCK FALSE
