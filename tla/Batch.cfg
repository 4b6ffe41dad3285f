SPECIFICATION FairSpec
CONSTANTS
    a = a
    b = b
    wn = wn
    wm = wm
    wd = wd
    wa = wa
    wp = wp
    NoDoc = NoDoc
    Docs = {a, b}
    Body <- PairBody
    Engine <- PairEngine
    Initially <- PairInitially
    Workers = {wn, wm, wd, wa, wp}
    Serves <- OneWorkerEach
    QueueSize <- SmallQueues
    MaxChunks = 1
    Faults = {"stage", "store"}
    Buffered = FALSE
    MaxRuns = 2
    MaxCrashes = 1
INVARIANTS BatchInv ProcessedComplete HashesUnique
PROPERTIES BatchSettles BatchEnds
CHECK_DEADLOCK FALSE
