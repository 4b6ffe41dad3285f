SPECIFICATION FairSpec
CONSTANTS
    t1 = t1
    t2 = t2
    t3 = t3
    t4 = t4
    t5 = t5
    t6 = t6
    t7 = t7
    Tasks = {t1, t2, t3, t4, t5, t6, t7}
    Kind <- EveryKind
    Docs = {"a"}
    Faults = {"run", "pool", "preflight"}
    CancelAllowed = TRUE
    MaxArrivals = 3
INVARIANTS GateInv TeardownIsolated AcceptedWorkNotRefused
PROPERTIES ImplementsAdmission OnlyPendingTaken PipelineReleased
CHECK_DEADLOCK FALSE
