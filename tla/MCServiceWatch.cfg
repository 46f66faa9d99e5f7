SPECIFICATION FairSpec
CONSTANTS
    s1 = s1
    s2 = s2
    Servers = {s1, s2}
    ServiceName = "wing-binlog-go-subscribe"
    ClientName = "wing-binlog-go-subscribe"
    Budgets <- WatchBudgets
CHECK_DEADLOCK FALSE
PROPERTY ServicesFollow
PROPERTY HeartbeatHeals
PROPERTY ListenerKnows
