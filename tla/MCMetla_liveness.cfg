CONSTANTS
    Null = Null
    Cells = {c1, c2}
    Registers = {r1, r2}
    Handles = {}
    Slots = {a}
    Kinds = {"object"}
    SlicedMajors = TRUE
    FullEveryNMinor = 2
SPECIFICATION FairSpec
PROPERTIES CycleTerminates GarbageReclaimed
