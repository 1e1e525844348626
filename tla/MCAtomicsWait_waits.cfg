SPECIFICATION Spec
CONSTANTS
    a1 = a1
    a2 = a2
    n1 = n1
    p1 = p1
    p2 = p2
    NoWait = NoWait
    Agents = {a1, a2}
    Polling = {a1, a2}
    AsyncNodes = {n1}
    Positions = {p1, p2}
    Bits = {0, 1}
    Counts = {1, 3}
    MaxObjects = 1
    Sweeps = TRUE
SYMMETRY AgentSymmetry
INVARIANTS
    TypeOK
    NoLostWakeup
    NoDeadNode
    BlockOutlivesWaits
PROPERTIES
    KeepsContract
CHECK_DEADLOCK FALSE
