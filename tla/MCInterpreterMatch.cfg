SPECIFICATION Spec
CONSTANTS
    Programs <- AlternativePrograms
    CodeOf <- MCCodeOf
    PolicyOf <- MCPolicyOf
    ShapesOf <- MCShapesOf
    MaxFrames = 4
    MaxUpvalues = 4
INVARIANT
    MatchTakesFirst
CHECK_DEADLOCK FALSE
