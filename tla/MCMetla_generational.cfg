CONSTANTS
    Null = Null
    Cells = {c1, c2, c3}
    Registers = {r1, r2}
    Handles = {}
    Slots = {a}
    Kinds = {"array", "function", "generator"}
    SlicedMajors = FALSE
    FullEveryNMinor = 1
SPECIFICATION Spec
SYMMETRY Symmetry
INVARIANTS NoDangling RememberedSetComplete
