\* A trial whose export fails.
SPECIFICATION TrialSpec
CONSTANTS
    make = make
    NoCommand = NoCommand
    Commands = {make}
    FilesOf <- MCFilesOf
    MaxSteps = 2
    WallClock = 1
    MaxRetries = 1
    RetryDelay <- NoDelay
    CallTimes = {0}
    CommandTimes = {0}
    Usage = {1, 2}
INVARIANTS
    SummaryAlways
