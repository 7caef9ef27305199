SPECIFICATION FairSpec
CONSTANTS
    j1 = j1
    j2 = j2
    m1 = m1
    m2 = m2
    a1 = a1
    a2 = a2
    s1 = s1
    Jobs = {j1, j2}
    NoJob = NoJob
    Messages = {m1}
    Attempts = {a1}
    NoAttempt = NoAttempt
    NoScope = NoScope
    ScopeOf <- OneScope
    MaxConcurrent = 1
    MaxQueued = 1
    MaxScopeQueued = 1
    AutoRetry = TRUE
    SlowHook = TRUE
    StoreFaults = FALSE
    MaxStarts = 2
CHECK_DEADLOCK FALSE
INVARIANTS
    NoOrphan
PROPERTIES
    EveryJobEnds
    StopEnds
