SPECIFICATION FairSpec
CONSTANTS
    Worker = {w1}
    Lurker = lurker
    Inserter = {i1, i2}
    Obj = {o1}
    None = none
    ObjSpec = {ox}
    ReqSpec = {rx}
    MaxBan = 2
    BanDups = TRUE
    LurkerOn = TRUE
    VclSetsTtl = TRUE
    CliLists = TRUE
CHECK_DEADLOCK FALSE
INVARIANTS
    BanRefcnt
    NoDanglingBan
    BanNotForgotten
PROPERTIES
    LurkerWorks
