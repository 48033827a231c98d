\* The server, a provider and a reseed at the auxiliary pool; or a CUSE daemon
\* with two clients that poll and are interrupted, and a slot for each of them;
\* or the three processes at the segment itself, two segments long.
SPECIFICATION StatusSpec
CONSTANTS
    pr = pr
    w1 = w1
    w2 = w2
    s1 = s1
    None = None
    Server = {pr, w1, w2}
    Provider = pr
    CuseSems <- MCSems
    AuxOps <- MCOps
    DIGEST = 3
    OSR = 1
    WAKEUP = 1
    WORD = 8
    Amounts = {0, 3}
    Requests = {1}
    Fhs = {f1, f2}
    Workers = {k1, k2}
    EventSets <- MCEvents
    MAX_PH = 2
    SServer = sv
    SCuse = cu
    SProvider = pv
    MaxSegs = 2
    MaxSem = 1
    NoSeg = NoSeg
INVARIANTS EntropyOnce ProviderTold SleeperRegistered NoMissedEvent SegmentShared
SYMMETRY AlikeFiles
