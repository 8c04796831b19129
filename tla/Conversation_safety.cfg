CONSTANTS
    Request = {q1, q2, q3}
    First = First
    NoSession = NoSession
    MaxViews = 1
    MaxBudget = 1
    MaxRestarts = 1
SPECIFICATION Spec
INVARIANTS
    TypeOK
    ResourcesOwned
    BudgetHasSession
    DeletedStaysDeleted
    DeletionComplete
    ViewsCapped
PROPERTIES
    TitleStays
SYMMETRY RequestSymmetry
CHECK_DEADLOCK FALSE
