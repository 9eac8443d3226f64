SPECIFICATION RootSpec
CONSTANTS
    Circular = 128
    Window = 16
    Payloads = {p1, p2}
    NoPayload = np
    Clients = {c1, c2}
    MaxGen = 6
    Origins = {a, b, c, d}
    Parents = {a, b, c, d, r}
    Root = r
    MaxSeq = 2
    NoDao = nodao
    NoEdge = none
    Lifetime = 1
    Forever = forever
    TicksPerSecond = 2
    MaxNow = 4
    Capacity = 3
    MaxHops = 2
    MaxDaos = 3
CONSTRAINT FewDaos
SYMMETRY OriginSymmetry
INVARIANTS
    HandleCoherent
    EdgesMatchFloor
    RoutesSound
    Loopless
PROPERTIES
    AtomicRecord
    EdgesStay
