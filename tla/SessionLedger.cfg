SPECIFICATION Spec
CONSTANTS
    j1 = j1
    j2 = j2
    a1 = a1
    a2 = a2
    m1 = m1
    m2 = m2
    NoJob = NoJob
    NoAttempt = NoAttempt
    Jobs <- MCJobs
    Attempts <- MCAttempts
    Messages <- MCMessages
INVARIANTS
    OneDelivery
    RecoveryCannotFail
    DeliveryTablesAgree
    EnvelopeOnlyWhileUseful
    OneJobPerMessage
SYMMETRY Symmetry
CHECK_DEADLOCK FALSE
PROPERTIES
    FinishedIsFinal
