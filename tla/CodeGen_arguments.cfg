SPECIFICATION Spec
CONSTANTS
    LastGeneral = 2
    WordSize = 6
    Names = {"p", "q"}
    FunctionNames = {"f"}
    Literals = {0}
    BinaryOps = {}
    ParameterLists <- TwoParameters
    RegisterFiles <- FlatRegisters
    Memories <- FlatMemories
    MAX_FUNCTIONS = 1
    MAX_FUNCTION_PARAMETERS = 2
    MAX_CALL_DEPTH = 1
    MaxSymbols = 2
    MaxScopes = 1
PROPERTIES ImplementsSource
CONSTRAINT OneFunctionFewWrites
