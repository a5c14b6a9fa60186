\* Three threads, so that a waiter can lose to another waiter; queues of sizes
\* 0 to 3, with elements to go around every data_ at least twice; three
\* workers.  No symmetry: liveness.
CONSTANTS
    Threads = {t1, t2, t3}
    MaxIterations = 2
    MaxRuns = 2
    NoThread = NoThread
    Sizes = {0, 1, 2, 3}
    MaxItems = 9
    Workers = {w1, w2, w3}
    Elements = 2
SPECIFICATION MCSpec
INVARIANTS
    CountsExact
PROPERTIES
    ImplementsMutex
    ImplementsFifo
    WorkersFinish
