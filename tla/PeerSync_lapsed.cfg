CONSTANTS
    Peers = {p1}
    NoPeer = NoPeer
    Workers = {w1}
    Serial = TRUE
    LateFailures = FALSE
    MaxFailures = 1
    MaxCrashes = 0
    MaxTime = 1
SPECIFICATION FairSpec
PROPERTY ExpiryEnforced
CHECK_DEADLOCK FALSE
