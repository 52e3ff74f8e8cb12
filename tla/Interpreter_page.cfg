SPECIFICATION Spec
CONSTANTS
    LastGeneral = 1
    WordSize = 6
    Files <- AllFiles
    Texts <- AllTexts
    SAMPLE <- SampleText
    TimerIds = {1, 2}
    MaxReads = 2
    MaxCycles = 5
INVARIANTS TypeOK OneTimer HaltedAtEnd Replay
PROPERTIES LoadEndsRun ImplementsExecution Progress
