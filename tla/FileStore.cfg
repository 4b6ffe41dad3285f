SPECIFICATION FileSpec
CONSTANTS
    None = None
    c1 = c1
    c2 = c2
    t1 = t1
    t2 = t2
    t3 = t3
    x = x
    y = y
    Copies = {c1, c2}
    Writers = {t1, t2, t3}
    Home <- Pair
    Items = {x, y}
    Editors = {c1, c2}
    Faults = {"save"}
    MaxWrites = 2
INVARIANTS StoreInv ChangesKept
PROPERTIES NothingOverwritten
CHECK_DEADLOCK FALSE
SYMMETRY Symmetry
