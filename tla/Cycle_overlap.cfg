CONSTANTS
    Instance = {i1}
    Run = {r1, r2}
    NoRun = NoRun
    Timeout = 1
    LeaseTTL = 2
    AnswerWithin = 0
    StartBy = 2
    MaxCrashes = 0
SPECIFICATION Spec
INVARIANTS
    NoOverlap
CHECK_DEADLOCK FALSE
