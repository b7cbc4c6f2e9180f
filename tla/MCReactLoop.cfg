\* Untimed: three turns, every kind of answer, every failure.
SPECIFICATION Spec
CONSTANTS
    make = make
    test = test
    NoCommand = NoCommand
    Commands = {make, test}
    FilesOf <- MCFilesOf
    MaxSteps = 3
    WallClock = 1
    MaxRetries = 1
    RetryDelay <- NoDelay
    CallTimes = {0}
    CommandTimes = {0}
    Usage = {1}
INVARIANTS
    IInv
    ExactlyOneFeedback
    FailuresAlternate
    CommandsWrittenAhead
    
    ErrorChains
    RetriesBounded
    TerminalIsLast
    RecorderLag
    TurnsConsistent
    ResultMatchesLog
PROPERTY ImplementsLedger
