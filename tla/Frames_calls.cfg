SPECIFICATION Spec
CONSTANTS
    LastGeneral = 2
    WordSize = 8
    Literals = {1}
    ReturnAddresses = {2, 3}
    StackLimit = 0
    MaxLocals = 2
    MaxParameters = 2
    MaxBlocks = 2
INVARIANTS TypeOK StackBelowLocals FramesAbut
PROPERTIES ImplementsActivations
CHECK_DEADLOCK FALSE
VIEW LiveState
CONSTRAINT BlocksOrParameters
