CONSTANTS
    Peers = {p1, p2}
    NoPeer = NoPeer
    Workers = {w1}
    Serial = TRUE
    LateFailures = FALSE
    MaxFailures = 3
    MaxCrashes = 0
    MaxTime = 2
SPECIFICATION Spec
PROPERTY ImplementsRegistry
CHECK_DEADLOCK FALSE
