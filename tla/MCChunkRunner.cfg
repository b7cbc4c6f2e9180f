\* Two runners over two chunks, four starts and four harbor runs in all, three resets:
\* enough for a chunk to be run, lost, run again by the other runner, and reset
\* under it.  The queue really stops once its starts are used up.
SPECIFICATION RunnerSpec
CONSTANTS
    r1 = r1
    r2 = r2
    c1 = c1
    c2 = c2
    Runners = {r1, r2}
    NoRunner = NoRunner
    Chunks = {c1, c2}
    Queue <- MCQueue
    MaxRuns = 4
    MaxLaunches = 4
    MaxResets = 3
INVARIANTS ChunkTypeOK NoCleanUnderRun PushedComplete UnpushedHasRunDir
PROPERTIES PushedNotRunAgain ImplementsRunLedger
CHECK_DEADLOCK FALSE
