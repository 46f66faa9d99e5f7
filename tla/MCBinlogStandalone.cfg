SPECIFICATION FairSpec
CONSTANTS
    LastEvent = 5
    RowCount <- TwoTransactions
    BadRows <- OneBadRow
    PeerPos <- NoPeers
    r1 = r1
    r2 = r2
    Runners = {r1}
    ChanCap = 2
    Standalone = TRUE
    Limit <- StandaloneLimit
    Spent <- NothingSpent
CHECK_DEADLOCK FALSE
INVARIANT NoRowSkipped
INVARIANT IndexStable
PROPERTY PositionMonotone
PROPERTY EventuallyDelivered
