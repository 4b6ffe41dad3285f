SPECIFICATION EditSpec
CONSTANTS
    a = a
    b = b
    c = c
    d = d
    t1 = t1
    t2 = t2
    NewChunk = NewChunk
    Entities = {a, b, c, d}
    Tasks = {t1, t2}
    Start <- Starting
    MaxRequests = 2
    MaxFaults = 1
INVARIANTS GraphInv StoresAgree ChunksFollow
SYMMETRY Symmetry
CHECK_DEADLOCK FALSE
