SPECIFICATION FairSpec
CONSTANTS
    t1 = t1
    t2 = t2
    t3 = t3
    t4 = t4
    t5 = t5
    t6 = t6
    t7 = t7
    Tasks = {t1, t2, t3, t4, t5}
    Kind <- HandoffKind
    Docs = {"a", "b"}
    Faults = {}
    CancelAllowed = FALSE
    MaxArrivals = 3
INVARIANTS SlotsAccounted FlagsHaveOwners NoDocumentStranded
PROPERTIES PendingTreated
CHECK_DEADLOCK FALSE
