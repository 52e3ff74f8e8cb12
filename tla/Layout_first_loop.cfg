SPECIFICATION Spec
CONSTANTS
    FunctionNames = {}
    MaxInstructions = 4
    MaxDepth = 3
    MaxLocals = 0
INVARIANTS FirstLoopsExact
