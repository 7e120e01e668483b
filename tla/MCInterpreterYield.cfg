SPECIFICATION Spec
CONSTANTS
    Programs <- YieldPrograms
    CodeOf <- MCCodeOf
    PolicyOf <- MCPolicyOf
    ShapesOf <- MCShapesOf
    MaxFrames = 4
    MaxUpvalues = 4
INVARIANT
    LocalsInTheirSlots
CHECK_DEADLOCK FALSE
