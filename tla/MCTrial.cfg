\* Two turns, every way a trial can end; requests of up to 2 ticks, backoffs of 1,
\* commands of up to 3, a budget of 2.
SPECIFICATION FairTrialSpec
CONSTANTS
    make = make
    NoCommand = NoCommand
    Commands = {make}
    FilesOf <- MCFilesOf
    MaxSteps = 2
    WallClock = 2
    MaxRetries = 1
    RetryDelay <- DoublingDelay
    CallTimes = {0, 2}
    CommandTimes = {0, 3}
    Usage = {1, 2}
INVARIANTS
    TrialTypeOK
    SummaryAgrees
    FinishReasonHonest
    ArtifactsComplete
    StoreClosed
    TokensLag
    OverrunBounded
PROPERTY CleanedUp
