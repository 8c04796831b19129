CONSTANTS
    i1 = i1
    d1 = d1
    Off = Off
    NoDirective = NoDirective
    Often = Often
    Rarely = Rarely
    Broken = Broken
    Instance = {i1}
    Directive = {d1}
    Schedule = {Rarely}
    Cron <- MCCron
    LeaseTTL = 1
    MaxTime = 2
    MaxEdits = 0
    MaxDowns = 1
SPECIFICATION Spec
INVARIANTS
    SlotRunsOnce
