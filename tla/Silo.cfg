SPECIFICATION Spec
CONSTANTS
    Media = 5
    SegLen = 2
    Reserve = 1
    Sizes = {2, 3}
    NewBans = {1}
    MaxSegments = 3
    MaxDeaths = 2
    BanChildren = 1
    Ready = FALSE
INVARIANTS
    TablesUsable
    BansSurvive
    ListSurvives
    SpaceKept
