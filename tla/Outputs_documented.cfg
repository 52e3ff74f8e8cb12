SPECIFICATION Spec
CONSTANTS
    LastGeneral = 1
    WordSize = 6
    Opcodes = {"AFC", "SUB", "STORER", "PRI"}
    UsedRegisters = {1}
    Literals = {3}
    Targets = {}
    MaxProgram = 2
    MaxCycles = 2
INVARIANTS DocumentedFormsWork
