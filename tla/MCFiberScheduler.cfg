SPECIFICATION Spec
CONSTANTS
    MaxFibers = 3
    MaxTokens = 1
    MaxWait = 1
    Deltas = {0, 1}
    Sync = TRUE
    MayFail = TRUE
    AwaitDirectly = FALSE
INVARIANTS
    TypeOK
    OnePlace
    FinishedOnce
    IoLedger
    StatusTruthful
PROPERTY
    ImplementsLifecycle
CHECK_DEADLOCK FALSE
