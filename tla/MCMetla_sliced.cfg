CONSTANTS
    Null = Null
    Cells = {c1, c2, c3}
    Registers = {r1}
    Handles = {h1}
    Slots = {a}
    Kinds = {"object", "rope"}
    SlicedMajors = TRUE
    FullEveryNMinor = 2
SPECIFICATION Spec
SYMMETRY Symmetry
INVARIANTS IInv NoHiddenWhite
PROPERTIES ExplicitCollectIsPrecise KeepsHeapPromise
