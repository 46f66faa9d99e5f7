SPECIFICATION Spec
CONSTANTS
    LastEvent = 3
    RowCount <- OneTransaction
    BadRows <- NoBadRows
    PeerPos <- NoPeers
    r1 = r1
    r2 = r2
    Runners = {r1, r2}
    ChanCap = 4
    Standalone = FALSE
    Limit <- SignalLimit
    Spent <- NothingSpent
CHECK_DEADLOCK FALSE
INVARIANT OnlyLeaderWorks
