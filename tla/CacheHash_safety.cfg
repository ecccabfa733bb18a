SPECIFICATION Spec
CONSTANTS
    Key = {k1}
    Sess = {s1, s2}
    Obj = {o1, o2, o3}
    Timer = timer
    None = none
    Kinds = {"normal", "ignore_busy", "always_miss", "esi"}
    TTL = {1}
    Grace = 1
    MaxTime = 1
    RushExponent = 2
    NukeLimit = 1
    QueueMayFill = TRUE
    StorageMayFail = TRUE
    VclPurges = TRUE
    VclSetsTtl = TRUE
SYMMETRY Symmetric
CHECK_DEADLOCK FALSE
INVARIANTS
    Refcounts
    NoneFreedInUse
    ListsAgree
