SPECIFICATION FairSpec
CONSTANTS
    Messages = {m1, m2, m3}
    Ready = Ready
    Conns = {c1, c2}
    NoConn = NoConn
    MaxSessions = 2
    QuickCallbacks = TRUE
    Invalidates = TRUE
INVARIANTS
    CheckpointCovered
PROPERTIES
    ImplementsFeed
    EventuallyHandled
CHECK_DEADLOCK FALSE
