CONSTANTS
    i1 = i1
    d1 = d1
    d2 = d2
    Off = Off
    NoDirective = NoDirective
    Often = Often
    Rarely = Rarely
    Broken = Broken
    Instance = {i1}
    Directive = {d1, d2}
    Schedule = {Often, Broken}
    Cron <- MCCron
    LeaseTTL = 1
    MaxTime = 2
    MaxEdits = 1
    MaxDowns = 1
SPECIFICATION FairSpec
PROPERTIES
    CatchesUp
