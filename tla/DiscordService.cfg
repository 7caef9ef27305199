SPECIFICATION Spec
CONSTANTS
    j1 = j1
    j2 = j2
    m1 = m1
    m2 = m2
    a1 = a1
    a2 = a2
    s1 = s1
    Jobs = {j1, j2}
    NoJob = NoJob
    Messages = {m1, m2}
    Attempts = {a1, a2}
    NoAttempt = NoAttempt
    NoScope = NoScope
    ScopeOf <- OneScope
    MaxConcurrent = 2
    MaxQueued = 1
    MaxScopeQueued = 1
    AutoRetry = TRUE
    SlowHook = FALSE
    StoreFaults = TRUE
    MaxStarts = 2
CHECK_DEADLOCK FALSE
SYMMETRY Symmetry
INVARIANTS
    ScopeSerial
    OneAnswer
    TruthfulOutcome
    WritableRunsOnce
PROPERTIES
    SendEarned
    CleanStop
    NoRunAfterSend
