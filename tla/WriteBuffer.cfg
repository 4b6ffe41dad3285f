SPECIFICATION Spec
CONSTANTS
    p1 = p1
    p2 = p2
    t1 = t1
    t2 = t2
    t3 = t3
    d1 = d1
    r1 = r1
    v1 = v1
    v2 = v2
    Procs = {p1, p2}
    HostOf <- OwnHosts
    Tasks = {t1, t2, t3}
    ProcOf <- TwoInOne
    Keys = {d1, r1}
    Related = {r1}
    Values = {v1, v2}
    MaxRequests = 4
    MaxFaults = 2
SYMMETRY Symmetric
INVARIANTS BufferInv ReadsCurrent RelationsStayGone
CHECK_DEADLOCK FALSE
