SPECIFICATION FairSpec
CONSTANTS
    u = u
    v = v
    w = w
    p1 = p1
    p2 = p2
    Null = Null
    Workers = {u, v, w}
    ProcOf <- TwoAndOne
    Jobs = {1, 2}
    WorkspaceOf <- OneWorkspace
    ClaimCount = 2
    Troubles = {"crash", "raise"}
    MaxTroubles = 1
INVARIANTS JobInv ForgottenOnlyByTrouble
PROPERTIES JobsSettle
CHECK_DEADLOCK FALSE
