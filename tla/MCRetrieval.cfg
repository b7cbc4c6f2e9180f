\* Windows of one turn (v1) and of one turn (v2) slide over four turns.
SPECIFICATION RetrievalSpec
CONSTANTS
    make = make
    test = test
    NoCommand = NoCommand
    Commands = {make, test}
    FilesOf <- MCFilesOf
    ProgramOf <- MCProgramOf
    MaxSteps = 4
    WallClock = 1
    MaxRetries = 0
    RetryDelay <- NoDelay
    CallTimes = {0}
    CommandTimes = {0}
    Usage = {1}
    MaxTailExchanges = 1
    V2TailExchanges = 1
    V2MaxFiles = 1
    V2MaxPriorAttempts = 2
    EnablePromptCaching = TRUE
INVARIANTS
    RetrievalInv
    TranscriptComplete
    CacheHits
    HistoryOnce
    DigestTruthful
    ActiveErrorCurrent
    FilesAccounted
    CachedPrefixStable
    TruncationExact
