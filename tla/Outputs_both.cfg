SPECIFICATION Spec
CONSTANTS
    LastGeneral = 1
    WordSize = 6
    Opcodes = {"NOP", "AFC", "COP", "SUB", "DIV", "NOT", "LOAD", "STORE", "LOADR", "STORER", "JMP", "JMF", "JMPR", "PRI"}
    UsedRegisters = {0, 1}
    Literals <- EdgeLiterals
    Targets = {1, 6}
    MaxProgram = 7
    MaxCycles = 4
INVARIANTS SameExecution ExecutesAsAsked EditorKeepsBinary
CONSTRAINT LongProgramsOnlyJump
