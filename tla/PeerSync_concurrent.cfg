CONSTANTS
    Peers = {p1, p2}
    NoPeer = NoPeer
    Workers = {w1, w2}
    Serial = FALSE
    LateFailures = TRUE
    MaxFailures = 1
    MaxCrashes = 1
    MaxTime = 0
SPECIFICATION Spec
SYMMETRY Interchangeable
PROPERTY SyncHeals
CHECK_DEADLOCK FALSE
