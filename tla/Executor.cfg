SPECIFICATION FairSpec
CONSTANTS
    ann = ann
    bob = bob
    cid = cid
    w1 = w1
    w2 = w2
    Callers = {ann, bob, cid}
    Workers = {w1, w2}
    MaxQueue = 1
    Priority <- Urgency
    Impatient = {bob}
    Hasty = {cid}
    Results = {"ok", "error"}
    MaxStuck = 1
INVARIANTS ExecutorInv NoLostWakeup
PROPERTIES AbandonedNotStarted Answered
CHECK_DEADLOCK FALSE
