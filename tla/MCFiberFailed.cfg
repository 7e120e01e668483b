SPECIFICATION Spec
CONSTANTS
    MaxFibers = 2
    MaxTokens = 1
    MaxWait = 1
    Deltas = {0, 1}
    Sync = FALSE
    MayFail = TRUE
    AwaitDirectly = FALSE
PROPERTY
    ErrorTerminates
CHECK_DEADLOCK FALSE
