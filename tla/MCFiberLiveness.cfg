SPECIFICATION TurnsSpec
CONSTANTS
    MaxFibers = 3
    MaxTokens = 1
    MaxWait = 2
    Deltas = {0, 1}
    Sync = FALSE
    MayFail = FALSE
    AwaitDirectly = TRUE
INVARIANTS
    WaitsAsAsked
    ParksForOwnCall
    IdsDistinct
    
PROPERTIES
    RunReadyReturns
    NoStarvation
CHECK_DEADLOCK FALSE
