SPECIFICATION Spec
CONSTANTS
    a1 = a1
    a2 = a2
    n1 = n1
    p1 = p1
    NoWait = NoWait
    Agents = {a1, a2}
    Polling = {a1, a2}
    AsyncNodes = {n1}
    Positions = {p1}
    Bits = {0, 1}
    Counts = {3}
    MaxObjects = 1
    Sweeps = FALSE
SYMMETRY AgentSymmetry
INVARIANTS
    NoLostAsyncWakeup
CHECK_DEADLOCK FALSE
