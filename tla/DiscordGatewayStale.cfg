SPECIFICATION Spec
CONSTANTS
    Messages = {m1, m2}
    Ready = Ready
    Conns = {c1, c2}
    NoConn = NoConn
    MaxSessions = 2
    QuickCallbacks = FALSE
    Invalidates = TRUE
SYMMETRY Symmetry
PROPERTY
    NoResurrection
CHECK_DEADLOCK FALSE
