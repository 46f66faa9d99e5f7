SPECIFICATION FairSpec
CONSTANTS
    LastEvent = 3
    RowCount <- OneTransaction
    BadRows <- NoBadRows
    PeerPos <- SomePeers
    r1 = r1
    r2 = r2
    Runners = {r1, r2}
    ChanCap = 4
    Standalone = FALSE
    Limit <- ClusterLimit
    Spent <- ClusterSpent
CHECK_DEADLOCK FALSE
INVARIANT TypeOK
INVARIANT OneStream
PROPERTY DurableFeed
PROPERTY ShutdownCompletes
