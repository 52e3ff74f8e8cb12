SPECIFICATION Spec
CONSTANTS
    FunctionNames = {}
    MaxInstructions = 6
    MaxDepth = 4
    MaxLocals = 0
INVARIANTS ElseIfJumpsExact
