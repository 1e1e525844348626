SPECIFICATION Spec
CONSTANTS
    g1 = g1
    g2 = g2
    m1 = m1
    m2 = m2
    m3 = m3
    h1 = h1
    Gens = {g1, g2}
    Modules = {m1, m2, m3}
    HostPromises = {h1}
    MaxRequests = 3
    MaxImports = 2
    Workloads <- AllWorkloads
SYMMETRY GenSymmetry
INVARIANTS
    TypeOK
    OneResumer
    NoneStranded
    RequestsAccounted
    ImportsWait
    NothingLeftBehind
PROPERTIES
    KeepsContract
    ReturnSurfaces
    BodyAfterDeps
CHECK_DEADLOCK FALSE
