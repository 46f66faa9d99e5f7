SPECIFICATION FairSpec
CONSTANTS
    s1 = s1
    s2 = s2
    t1 = t1
    t2 = t2
    None = None
    Servers = {s1, s2}
    Topics = {t1, t2}
    Budgets <- ClientBudgets
CHECK_DEADLOCK FALSE
INVARIANT TypeOK
INVARIANT TopicsReach
INVARIANT OfflineCause
INVARIANT OneConnection
INVARIANT CloseStays
PROPERTY Reconnects
