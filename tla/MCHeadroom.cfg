\* One tick is 60 s: a budget of 840 s, commands of up to 180 s.
SPECIFICATION Spec
CONSTANTS
    make = make
    test = test
    NoCommand = NoCommand
    Commands = {make}
    FilesOf <- OneCommandFiles
    MaxSteps = 5
    WallClock = 14
    MaxRetries = 0
    RetryDelay <- NoDelay
    CallTimes = {1}
    CommandTimes = {3}
    Usage = {1}
INVARIANTS
    HeadroomHolds
