CONSTANTS
    Request = {r1, r2, r3}
    Menu <- MCMenu
    InitialDocs <- MCInitialDocs
    Id = {"d1", "d2", "k", "a", "b", "p", "me"}
    Default = Default
    Missing = Missing
    DefaultIds <- MCDefaultIds
    Profile = {"p"}
    ProfileRefs <- MCProfileRefs
    MaxFailures = 1
SPECIFICATION Spec
INVARIANTS
    TypeOK
    CreatedOnce
    AnswerTruth
    CyclesNeedRace
SYMMETRY LibrarySymmetry
CHECK_DEADLOCK FALSE
PROPERTIES
    AloneIsAtomic
    SeedComplete
    SeedSparesEdits
