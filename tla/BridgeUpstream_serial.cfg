CONSTANTS
    Bridges = {b1, b2}
    Targets = {t1, t2}
    NoTarget = NoTarget
    NoPeer = NoPeer
    Reserved = {t1}
    MaxMade = 3
    Workers = {w1}
    Serial = TRUE
    Fragile = {"creating", "disconnecting", "connecting"}
    MaxFaults = 3
    MaxRestarts = 1
    MaxReboots = 1
SPECIFICATION Spec
SYMMETRY Interchangeable
INVARIANTS SeparateKeys NoOrphanPeers
PROPERTY ImplementsService
CHECK_DEADLOCK FALSE
