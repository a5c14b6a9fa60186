\* Three threads.  They stop when their calls have returned; stopping earlier
\* violates SyncCallsReturn.  No symmetry: liveness.
CONSTANTS
    Groups = {"once", "spin", "flag", "registry", "barrier", "counter",
              "notification", "sem", "locks2", "locks3"}
    t1 = t1
    t2 = t2
    t3 = t3
    va = va
    vb = vb
    vc = vc
    m1 = m1
    m2 = m2
    m3 = m3
    NoValue = NoValue
    NoThread = NoThread
    FlagPrograms <- AllFlagPrograms
SPECIFICATION Spec
CHECK_DEADLOCK FALSE
INVARIANTS
    RunsOnce
    AssertionsHold
    RestoreSkipsUnchanged
    CallbackUpToDate
    
    ObjectsOutliveUsers
    GraphSound
    DetectorExact
PROPERTIES
    SpinLockExcludes
    FlagReadsWhole
    SyncCallsReturn
