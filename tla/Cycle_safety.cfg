CONSTANTS
    Instance = {i1, i2}
    Run = {r1, r2}
    NoRun = NoRun
    Timeout = 1
    LeaseTTL = 2
    AnswerWithin = 1
    StartBy = 2
    MaxCrashes = 1
SPECIFICATION Spec
INVARIANTS
    TypeOK
    LeaseHeld
    ExclusiveWhileLeased
    OwnSession
    AuditTruth
SYMMETRY CycleSymmetry
CHECK_DEADLOCK FALSE
PROPERTIES
    NotClosedByOthers
    ImplementsLedger
