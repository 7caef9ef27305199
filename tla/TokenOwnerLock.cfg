SPECIFICATION Spec
CONSTANTS
    Procs = {p1, p2, p3, p4}
    NoProc = NoProc
    NoDir = NoDir
    IOFaults = TRUE
SYMMETRY Symmetry
INVARIANTS
    MutualExclusion
    OneReclaimer
    NoLeftovers
CHECK_DEADLOCK FALSE
