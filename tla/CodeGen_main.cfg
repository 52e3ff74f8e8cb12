SPECIFICATION Spec
CONSTANTS
    LastGeneral = 2
    WordSize = 3
    Names = {"x", "y"}
    FunctionNames = {}
    Literals = {0}
    BinaryOps = {"LT"}
    ParameterLists <- NoParameters
    RegisterFiles <- FlatRegisters
    Memories <- FlatMemories
    MAX_FUNCTIONS = 0
    MAX_FUNCTION_PARAMETERS = 0
    MAX_CALL_DEPTH = 0
    MaxSymbols = 2
    MaxScopes = 1
INVARIANTS CacheSound TopIsFresh
PROPERTIES ImplementsSource
