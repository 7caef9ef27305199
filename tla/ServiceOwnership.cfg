\* Two launches, two credentials, one job, one canary, one stop command.
SPECIFICATION OwnershipSpec
CONSTANTS
    t1 = t1
    t2 = t2
    NoToken = NoToken
    Tokens = {t1, t2}
    Launches = {1, 2}
    MaxTime = 2
    StaleAfter = 0
    FreshFor = 1
INVARIANTS CanaryTrue StoppedIsSilent
SYMMETRY Credentials
CHECK_DEADLOCK FALSE
