SPECIFICATION Spec
CHECK_DEADLOCK FALSE
CONSTANTS
    Tasks <- MCTasks
    Sizes <- MCSizes
    Keys = {1, 2, 3, 4, 5, 6, 7}
    kSplayTreeSize = 5
    kSplayTreeModifications = 3
    Loads = {1, 2}
    MaxCalls = 3
    BI_DB = 4
    HalfBits = 2
    BI_FP = 7
    MontBits = 3
    Cap = 13
    InvSteps <- MCInvSteps
    HexBits = 2
    Lefts <- MCLefts
    Rights <- MCRights
    Bases <- MCBases
    Exponents <- MCExponents
    Moduli <- MCModuli
    Primes <- MCPrimes
    PublicExponents = {3, 257}
    Texts = {0, 1, 100, 1023}
INVARIANTS
    PacketsConserved
    RunnableIffQueued
    HighestPriorityRuns
    DataflowConsistent
    RelationsHold
    NothingBetterLeft
    TreeHoldsPresent
    AnswersOwnCall
    ArithmeticAgrees
    ProgramsCheckThemselves
