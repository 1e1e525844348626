SPECIFICATION HoldersSpec
CONSTANTS
    p1 = p1
    p2 = p2
    p3 = p3
    p4 = p4
    Promises = {p1, p2, p3, p4}
    Limit = 3
    Null = Null
    c1 = c1
    c2 = c2
    c3 = c3
    Cells = {c1, c2, c3}
    Menus <- MCMenus
SYMMETRY CellSymmetry
INVARIANTS
    NoMissedRejection
    IInv
PROPERTIES
    ReleasedOnlyWhenHandled
    WeakSlotsStayValid
    ClearedOnlyWhenDead
    DeadAreCollected
