SPECIFICATION Spec
CONSTANTS
    LastGeneral = 3
    WordSize = 4
    Names = {"p"}
    FunctionNames = {"f"}
    Literals = {0}
    BinaryOps = {}
    ParameterLists <- OneParameter
    RegisterFiles <- FlatRegisters
    Memories <- FlatMemories
    MAX_FUNCTIONS = 1
    MAX_FUNCTION_PARAMETERS = 1
    MAX_CALL_DEPTH = 2
    MaxSymbols = 1
    MaxScopes = 1
INVARIANTS ListsNest RegisterDiscipline
PROPERTIES ImplementsSource
CONSTRAINT OneFunctionFewWrites
