SPECIFICATION FairSpec
CONSTANTS
    Key = {k1}
    Sess = {s1, s2, s3}
    Obj = {o1, o2, o3}
    Timer = timer
    None = none
    Kinds = {"normal"}
    TTL = {0, 1}
    Grace = 0
    MaxTime = 0
    RushExponent = 1
    NukeLimit = 0
    QueueMayFill = FALSE
    StorageMayFail = FALSE
    VclPurges = FALSE
    VclSetsTtl = FALSE
INVARIANTS
    OneFetchPerHead
    NoLostWakeup
PROPERTY WaitersLeave
CHECK_DEADLOCK FALSE
