SPECIFICATION LeafSpec
CONSTANTS
    Circular = 128
    Window = 16
    MaxLost = 18
    Imin = 2
    MaxInterval = 4
    K = 1
    MaintEvery = 2
    InitialMax = 1
    RetryDelays <- Ladder
    Refresh = 12
    MaxTimeout = 26
    MaxTime = 26
    Late = 2
    MaxSend = 1
    Rebinds = TRUE
INVARIANTS
    DeadlinesKept
    TrickleOnTime
    ParentChangeAnnounced
    StallBounded
