CONSTANTS
    main = main
    spare = spare
    Bridges = {b1}
    Targets = {main, spare}
    NoTarget = NoTarget
    NoPeer = NoPeer
    Reserved = {main}
    MaxMade = 3
    Workers = {p1}
    Pollers = {p1}
    Serial = FALSE
    Fragile = {"creating", "disconnecting", "connecting", "routing", "revoking", "undoing"}
    MaxFaults = 1
    MaxRestarts = 1
    MaxReboots = 1
    Consecutive = 3
    Candidates <- MainThenSpare
    MaxFlips = 3
    MaxHiccups = 1
SPECIFICATION FailoverSpec
PROPERTIES Settles SteadyUpstreamKept
