SPECIFICATION FragSpec
CONSTANTS
    h = h
    a = a
    b = b
    c = c
    d = d
    e = e
    x = x
    y = y
    NoTile = NoTile
    WindowSize = 4
    MaxAckRequests = 2
    Packets <- PacketsAlike
    Retransmission = 1
    Inactivity = 2
    HoldDown = 3
    Latency = 1
    PollFirst = TRUE
    Pause = 1
    Patient = FALSE
    MaxFlight = 2
    MaxCounter = 30
INVARIANT
    SuccessMeansDelivered
