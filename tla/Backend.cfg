SPECIFICATION Spec
CONSTANTS
    Vcl = {v1, v2}
    Uses = {"nothing", "probe"}
    Worker = {w1, w2}
    Sess = {s1, s2}
    Conn = {c1}
    None = none
    MaxConn = 1
    LoadAfterRace = FALSE
SYMMETRY Symmetric
INVARIANTS
    VclSound
    BackendSound
    ProbesSound
    JoinEnds
