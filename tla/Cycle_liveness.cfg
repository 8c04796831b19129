CONSTANTS
    Instance = {i1}
    Run = {r1, r2}
    NoRun = NoRun
    Timeout = 1
    LeaseTTL = 2
    AnswerWithin = 1
    StartBy = 1
    MaxCrashes = 1
SPECIFICATION FairSpec
PROPERTIES
    EveryRunEnds
    LeaseFreed
CHECK_DEADLOCK FALSE
