\* A default is set while another thread sets the value and then parses with
\* SET_FLAG_IF_DEFAULT.
CONSTANTS
    Groups = {"flag"}
    t1 = t1
    t2 = t2
    t3 = t3
    va = va
    vb = vb
    vc = vc
    m1 = m1
    m2 = m2
    m3 = m3
    NoValue = NoValue
    NoThread = NoThread
    FlagPrograms <- DefaultPrograms
SPECIFICATION Spec
CHECK_DEADLOCK FALSE
INVARIANTS
    IfDefaultKeepsSetValue
