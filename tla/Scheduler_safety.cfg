CONSTANTS
    i1 = i1
    i2 = i2
    d1 = d1
    Off = Off
    NoDirective = NoDirective
    Often = Often
    Rarely = Rarely
    Broken = Broken
    Instance = {i1, i2}
    Directive = {d1}
    Schedule = {Often, Rarely, Broken}
    Cron <- MCCron
    LeaseTTL = 2
    MaxTime = 2
    MaxEdits = 2
    MaxDowns = 1
SPECIFICATION Spec
INVARIANTS
    TypeOK
    ClaimsApart
    NoRestartRefire
SYMMETRY InstanceSymmetry
