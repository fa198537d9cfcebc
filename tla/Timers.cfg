SPECIFICATION TimersSpec
CONSTANTS
    b1 = b1
    b2 = b2
    AutoBridges = {b1, b2}
    u1 = u1
    u2 = u2
    u3 = u3
    Upstreams = {u1, u2, u3}
    Spare = {u2}
    Capacity <- MCCapacity
    MaxClients = 4
    MaxChanges = 1
    Consecutive = 3
    MaxProbes = 9
    d1 = d1
    d2 = d2
    Destinations = {d1, d2}
    DomainNames = {d2}
    MaxEdits = 2
    MaxTroubles = 2
    Ports = {1, 2}
    Secrets = {1, 2, 3, 4, 5, 6}
    NoProxy = NoProxy
    MaxFailures = 3
    RouteBridges = {b1, b2}
    NoBridge = NoBridge
    MaxChoices = 3
    MaxRouteTroubles = 3
    Updates = {b1, b2}
    MaxCommit = 3
    MaxBreakages = 3
INVARIANTS
    ReachableIsLastRun
    NginxKeepsRunning
    RoutedOrOnTheWay
PROPERTIES
    BalancingSettles
    MovesLast
    BypassConverges
    NoGap
    LinkOpensAgain
    TelegramThroughChosen
    UpdateCompletes
CHECK_DEADLOCK FALSE
