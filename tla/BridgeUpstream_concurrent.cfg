CONSTANTS
    Bridges = {b1, b2}
    Targets = {t1, t2}
    NoTarget = NoTarget
    NoPeer = NoPeer
    Reserved = {t1}
    MaxMade = 1
    Workers = {w1, w2}
    Serial = FALSE
    Fragile = {"creating", "disconnecting", "connecting", "routing", "revoking", "undoing"}
    MaxFaults = 1
    MaxRestarts = 0
    MaxReboots = 1
SPECIFICATION Spec
SYMMETRY Interchangeable
PROPERTY SwitchRepairs
CHECK_DEADLOCK FALSE
