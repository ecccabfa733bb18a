SPECIFICATION FairSpec
CONSTANTS
    MaxRestarts = 2
    MaxEsiDepth = 1
    MaxIncludes = 1
    MaxBytes = 4
    GzipSupport = TRUE
INVARIANTS
    EngineSound
    FetchSound
    FramingSound
PROPERTIES
    ReuseAfterResponse
    RequestEnds
