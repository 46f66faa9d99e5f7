SPECIFICATION FairSpec
CONSTANTS
    n1 = n1
    n2 = n2
    Nodes = {n1, n2}
    Limit <- LivenessLimit
CHECK_DEADLOCK FALSE
PROPERTY ElectsLeader
