SPECIFICATION FragSpec
CONSTANTS
    h = h
    a = a
    b = b
    c = c
    d = d
    e = e
    x = x
    y = y
    NoTile = NoTile
    WindowSize = 4
    MaxAckRequests = 2
    Packets <- PacketsTwo
    Retransmission = 1
    Inactivity = 2
    HoldDown = 2
    Latency = 1
    PollFirst = TRUE
    Pause = 1
    Patient = TRUE
    MaxFlight = 2
    MaxCounter = 30
INVARIANTS
    RepairPossible
PROPERTIES
    ImplementsTransfer
    AnswersSuffice
    ReservationsEnd
