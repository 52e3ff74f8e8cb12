SPECIFICATION Spec
CONSTANTS
    LastGeneral = 2
    WordSize = 3
    Names = {"x"}
    FunctionNames = {"f"}
    Literals = {0}
    BinaryOps = {"LT"}
    ParameterLists <- NoParameters
    RegisterFiles <- FlatRegisters
    Memories <- FlatMemories
    MAX_FUNCTIONS = 1
    MAX_FUNCTION_PARAMETERS = 1
    MAX_CALL_DEPTH = 1
    MaxSymbols = 3
    MaxScopes = 2
INVARIANTS TypeOK RegisterDiscipline StackBelowLocals CacheSound SlotsOwned BasesAgree
PROPERTIES ImplementsSource
CONSTRAINT BlocksOrFunctions
