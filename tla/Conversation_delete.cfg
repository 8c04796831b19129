CONSTANTS
    Request = {q1, q2, q3}
    First = First
    NoSession = NoSession
    MaxViews = 1
    MaxBudget = 1
    MaxRestarts = 1
SPECIFICATION Spec
INVARIANTS
    DeletedLeavesNothing
CHECK_DEADLOCK FALSE
