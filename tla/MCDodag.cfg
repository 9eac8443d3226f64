SPECIFICATION Spec
CONSTANTS
    a = a  b = b  c = c  r = r
    Leaves = {a, b, c}
    Root = r
    Links <- Crowded
    MinHop = 4
    MaxInc = 8
    Threshold = 3
    Infinite = 40
    MaxNeighbors = 2
    MaxEvents = 1
INVARIANTS NoCreep CandidatesTracked
PROPERTIES OrphansLeave
