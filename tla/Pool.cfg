SPECIFICATION FairSpec
CONSTANTS
    x = x
    y = y
    z = z
    Null = Null
    Tasks = {x, y, z}
    Workspaces = {"a", "b", "c"}
    Default = "a"
    MaxSize = 2
    MinSize = 1
    MaxRequests = 3
INVARIANTS PoolInv InUseKept
PROPERTIES MinKept Served
CHECK_DEADLOCK FALSE
