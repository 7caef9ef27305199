SPECIFICATION TimedSpec
CONSTANTS
    m1 = m1
    m2 = m2
    Messages <- MCMessages
    Ready = Ready
    MaxSessions = 2
    Faults = TRUE
INVARIANTS
    ReceiptEarned
PROPERTIES
    ImplementsFeed
    StopEnds
CHECK_DEADLOCK FALSE
