\* A command that failed, and the same program run again afterwards.
SPECIFICATION RetrievalSpec
CONSTANTS
    make = make
    test = test
    NoCommand = NoCommand
    Commands = {make, test}
    FilesOf <- MCFilesOf
    ProgramOf <- MCProgramOf
    MaxSteps = 4
    WallClock = 1
    MaxRetries = 0
    RetryDelay <- NoDelay
    CallTimes = {0}
    CommandTimes = {0}
    Usage = {1}
    MaxTailExchanges = 1
    V2TailExchanges = 1
    V2MaxFiles = 1
    V2MaxPriorAttempts = 2
    EnablePromptCaching = TRUE
INVARIANTS
    PriorAttemptsAreEarlier
