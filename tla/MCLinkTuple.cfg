SPECIFICATION Spec
CONSTANTS
    MinEpoch = 1
    MaxEpoch = 3
    MaxSeq = 2
    MaxBoots = 3
CHECK_DEADLOCK FALSE
INVARIANT TuplesFresh
