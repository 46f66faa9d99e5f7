SPECIFICATION FairSpec
CONSTANTS
    n1 = n1
    n2 = n2
    Nil = Nil
    Nodes = {n1, n2}
    LastEvent = 2
    Filters <- FirstOnly
    QueueCap = 1
    Budgets <- ServiceBudgets
CHECK_DEADLOCK FALSE
INVARIANT TypeOK
INVARIANT InOrder
INVARIANT ConnectsAccurate
INVARIANT ExactlyOnce
PROPERTY SendAllReturns
