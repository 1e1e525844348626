CONSTANTS
    Null = Null
    Cells = {c1, c2, c3, c4}
    Registers = {r1, r2}
    Handles = {}
    Slots = {a}
    Kinds = {"object", "generator"}
    SlicedMajors = TRUE
    FullEveryNMinor = 1
SPECIFICATION Spec
SYMMETRY Symmetry
INVARIANTS SuspendedFrameSurvives
