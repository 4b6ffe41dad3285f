SPECIFICATION FairSpec
CONSTANTS
    x = x
    y = y
    z = z
    p1 = p1
    p2 = p2
    Nobody = Nobody
    Procs = {p1, p2}
    Tasks = {x, y, z}
    ProcOf <- TwoProcs
    Keys = {1, 2}
    Wants <- CrossWants
    MaxRequests = 4
    Threshold = 1
INVARIANTS LockInv
PROPERTIES Served
CHECK_DEADLOCK FALSE
