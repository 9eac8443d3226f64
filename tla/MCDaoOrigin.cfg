SPECIFICATION Spec
CONSTANTS
    Circular = 3
    Window = 1
    Self = n
    Parents = {p1, p2}
    NoParent = none
    Unpinned = unpinned
    NoDao = nodao
    MaxSeq = 4
    MaxFaults = 3
INVARIANTS
    OneDaoPerSequence
    SendsDurableNewest
PROPERTIES
    PromisesKept
    ParentAnnounced
