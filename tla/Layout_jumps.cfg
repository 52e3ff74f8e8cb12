SPECIFICATION Spec
CONSTANTS
    FunctionNames = {"f"}
    MaxInstructions = 7
    MaxDepth = 4
    MaxLocals = 1
INVARIANTS TypeOK EmissionOrder ProgramAddressExact ConditionsExact ElseJumpsExact LaterLoopsExact CallsExact
