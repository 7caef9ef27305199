SPECIFICATION Spec
CONSTANTS
    Procs = {p1, p2, p3, p4}
    NoProc = NoProc
    NoDir = NoDir
    IOFaults = FALSE
SYMMETRY Symmetry
INVARIANT
    OneLiveOwner
CHECK_DEADLOCK FALSE
