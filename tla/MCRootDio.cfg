SPECIFICATION Spec
CONSTANTS
    Keys = {k1, k2}
    LocalRoots = {k1}
    FirstSeq = 1
    Capacity = 1
    Ttl = 1
    MaxDios = 3
    MaxNow = 1
    MaxFaults = 2
INVARIANTS
    VerifiedInOrder
    MarksCoherent
    MarksEarned
    RefusedLocal
