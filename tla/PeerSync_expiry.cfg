CONSTANTS
    Peers = {p1, p2}
    NoPeer = NoPeer
    Workers = {w1}
    Serial = TRUE
    LateFailures = FALSE
    MaxFailures = 0
    MaxCrashes = 1
    MaxTime = 2
SPECIFICATION FairSpec
PROPERTY ExpiryEnforced
CHECK_DEADLOCK FALSE
