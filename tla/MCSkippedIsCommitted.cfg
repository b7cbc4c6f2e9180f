\* Same bounds as MCChunkRunner; the queue really stops.
SPECIFICATION RunnerSpec
CONSTANTS
    r1 = r1
    r2 = r2
    c1 = c1
    c2 = c2
    Runners = {r1, r2}
    NoRunner = NoRunner
    Chunks = {c1, c2}
    Queue <- MCQueue
    MaxRuns = 4
    MaxLaunches = 4
    MaxResets = 3
PROPERTY SkippedIsCommitted
CHECK_DEADLOCK FALSE
