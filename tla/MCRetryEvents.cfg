\* Untimed: a call that fails on every attempt.
SPECIFICATION Spec
CONSTANTS
    make = make
    test = test
    NoCommand = NoCommand
    Commands = {make}
    FilesOf <- OneCommandFiles
    MaxSteps = 3
    WallClock = 1
    MaxRetries = 1
    RetryDelay <- NoDelay
    CallTimes = {0}
    CommandTimes = {0}
    Usage = {1}
INVARIANTS
    RetryEventsAreRetries
