SPECIFICATION FairSpec
CONSTANTS
    k1 = k1
    k2 = k2
    LastId = 2
    Connectors = {k1, k2}
    Budgets <- ClientBudgets
CHECK_DEADLOCK FALSE
INVARIANT ClosedOnce
INVARIANT AnswersArrive
INVARIANT NoLeak
PROPERTY WaitersLeave
PROPERTY ReaderFree
PROPERTY DeadNoticed
