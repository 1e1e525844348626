SPECIFICATION FairSpec
CONSTANTS
    a1 = a1
    a2 = a2
    n1 = n1
    n2 = n2
    p1 = p1
    NoWait = NoWait
    Agents = {a1, a2}
    Polling = {a1}
    AsyncNodes = {n1, n2}
    Positions = {p1}
    Bits = {0}
    Counts = {1}
    MaxObjects = 1
    Sweeps = FALSE
PROPERTIES
    WaitEnds
    AsyncWaitEnds
CHECK_DEADLOCK FALSE
