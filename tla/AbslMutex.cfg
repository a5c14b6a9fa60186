\* Three threads, two conditions; t3 has the higher priority.
CONSTANTS
    t1 = t1
    t2 = t2
    t3 = t3
    c = c
    d = d
    Threads = {t1, t2, t3}
    NoThread = NoThread
    NoCond = NoCond
    Conditions = {c, d}
    Programs <- MCPrograms
    OsPriority <- MCPriority
\* The threads stop when their calls have returned; stopping before that
\* violates CallsReturn.
CHECK_DEADLOCK FALSE
SPECIFICATION Spec
INVARIANTS
    WordMatchesQueue
    DesignatedWaker
    SkipsSound
    ChecksHold
PROPERTIES
    ImplementsRWLock
    CallsReturn
