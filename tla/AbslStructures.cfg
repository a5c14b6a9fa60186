\* Two sampled cords, with two collectors, or with one while their trees are
\* replaced; three clients of the sample recorder.
\* The threads stop when they are done.  No symmetry: liveness.
CONSTANTS
    i1 = i1
    i2 = i2
    s1 = s1
    s2 = s2
    c1 = c1
    c2 = c2
    c3 = c3
    r1 = r1
    None = None
SPECIFICATION Spec
CHECK_DEADLOCK FALSE
INVARIANTS
    CollectorSafe
    LookupExact
    CountersExact
PROPERTIES
    VisitedUnchanged
    AllReleased
