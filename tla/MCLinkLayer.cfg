SPECIFICATION Spec
CONSTANTS
    k1 = k1
    k2 = k2
    k3 = k3
    k4 = k4
    i1 = i1
    i2 = i2
    i3 = i3
    Keys = {k1, k2, k3, k4}
    Iids = {i1, i2, i3}
    IidOf <- MCIidOf
    MaxPeers = 2
    Window = 2
    Epochs = {0}
    SeqNums = {0, 1}
    MaxGens = 3
    MaxOwners = 2
    NoPeer = NoPeer
    NoKey = NoKey
    NoReplay = NoReplay
    Nothing = Nothing
SYMMETRY Symmetry
INVARIANTS
    AcceptedOnce
    EvidenceAgrees
    DurableSerialsFresh
PROPERTIES
    PinsHold
