SPECIFICATION Spec
CONSTANTS
    n1 = n1
    n2 = n2
    Nodes = {n1, n2}
    Limit <- SafetyLimit
CHECK_DEADLOCK FALSE
INVARIANT TypeOK
INVARIANT NoSplitBrain
INVARIANT LeaderHoldsLock
SYMMETRY NodeSymmetry
