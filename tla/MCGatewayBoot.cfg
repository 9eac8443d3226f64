SPECIFICATION Spec
CONSTANTS
    Peers = {p, q}
    MaxEpoch = 4
    MaxCrashes = 4
    MaxGeneration = 3
    MaxClaim = 2
INVARIANTS
    NeverRefused
PROPERTIES
    Recovers
    EpochFresh
    ClaimFresh
CHECK_DEADLOCK FALSE
