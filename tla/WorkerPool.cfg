SPECIFICATION FairSpec
CONSTANTS
    Worker = {w1, w2, w3}
    Request = {r1, r2}
    Watched = {r1}
    Caller = {c1}
    NoWorker = NoWorker
    NoRequest = NoRequest
    InitPools = 1
    MaxPools = 2
    wthread_min = 2
    wthread_max = 3
    QueueMaxPct = 0
    add_threshold = 0
    TimelyStart = TRUE
    TimelyExit = TRUE
INVARIANTS
    PoolSound
PROPERTIES
    HerdKept
