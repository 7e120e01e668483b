SPECIFICATION Spec
CONSTANTS
    Programs <- AllPrograms
    CodeOf <- MCCodeOf
    PolicyOf <- MCPolicyOf
    ShapesOf <- MCShapesOf
    MaxFrames = 5
    MaxUpvalues = 4
INVARIANTS
    TypeOK
    LocalsInTheirSlots
    UpvaluesSeeTheirVariable
    CatchPointsNested
    MatchTakesFirst
    CompiledCodeVerified
PROPERTY
    InnermostTryCatches
    CallsNearestMethod
CHECK_DEADLOCK FALSE
