SPECIFICATION FairSpec
CONSTANTS
    Conns = 2
    Callers = {"canal"}
    QueueCap = 1
    Budgets <- ServerBudgets
CHECK_DEADLOCK FALSE
INVARIANT SliceExact
INVARIANT BroadcastExact
PROPERTY GoneRemoved
PROPERTY BroadcastReturns
PROPERTY WritersEnd
