\* Untimed: an answer that says done and still carries a command.
SPECIFICATION Spec
CONSTANTS
    make = make
    test = test
    NoCommand = NoCommand
    Commands = {make}
    FilesOf <- OneCommandFiles
    MaxSteps = 3
    WallClock = 1
    MaxRetries = 1
    RetryDelay <- NoDelay
    CallTimes = {0}
    CommandTimes = {0}
    Usage = {1}
INVARIANTS
    DoneEndsLoop
