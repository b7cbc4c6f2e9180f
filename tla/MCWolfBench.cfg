\* Two configs over two tasks, four trials in all: a task run once, twice or
\* three times next to one run less often, under every cap.  The exploration
\* stops when the trials are used up.
SPECIFICATION MetricsSpec
CONSTANTS
    A = A
    B = B
    t1 = t1
    t2 = t2
    Configs = {A, B}
    Tasks = {t1, t2}
    Results <- MCResults
    MaxTrials = 4
SYMMETRY Alike
INVARIANTS
    FiveOrdered
    FailuresExplained
    ArtifactsAgree
    
 
CHECK_DEADLOCK FALSE
