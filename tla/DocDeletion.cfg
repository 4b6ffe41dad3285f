SPECIFICATION Spec
CONSTANTS
    None = None
    a = a
    b = b
    a1 = a1
    a2 = a2
    b1 = b1
    x = x
    y = y
    r = r
    Docs = {a, b}
    Chunks = {a1, a2, b1}
    Entities = {x, y}
    Relations = {r}
    Chunkings <- Cuts
    Ends <- Joins
    Extracts <- Finds
    MaxFaults = 2
INVARIANTS DeletionInv TracesOnlyUnseen
PROPERTIES CacheRecoverable
CHECK_DEADLOCK FALSE
