SPECIFICATION PanelSpec
CONSTANTS
    x1 = x1
    x2 = x2
    x3 = x3
    y1 = y1
    y2 = y2
    Rows = {x1, x2, x3}
    BridgeRows = {y1, y2}
    Kinds = {wg}
    wg = wg
    Nothing = Nothing
    a1 = a1
    Admins = {a1}
    OneAdmin = TRUE
    Neighbours = FALSE
    MaxTable = 2
    MaxIncidents = 1
    ProtocolRows = {y1, y2}
    Interfaces = {"wg0", "awg0", "br"}
    KindOf <- MCKindOf
    NoRow = NoRow
    Installers = {a1}
    OneInstaller = TRUE
    MaxPort = 2
    MaxInstalls = 3
    MaxInstallFaults = 2
    d1 = d1
    d2 = d2
    Domains = {d1, d2}
    NoDomain = NoDomain
    Requests = {y1, y2}
    MaxRequests = 3
    MaxMishaps = 2
    Guesses = {a1}
    Pages = {y1, y2}
    MaxFailedAttempts = 2
    NoToken = NoToken
    MaxPasswords = 1
    MaxLapses = 2
    Polls = {y1, y2}
    NotSeen = NotSeen
    MaxTraffic = 3
    MaxPollMishaps = 3
    NoPeerRequest = NoPeerRequest
    MaxIssues = 2
    MaxPending = 1
    MaxDeskFaults = 1
    Sockets = {y1, y2}
    Shells = {x1, x2, x3}
    NoShell = NoShell
    Attempts = 2
SYMMETRY MCSymmetry
INVARIANTS
    ActiveBridgeHasUpstream
    ChosenUpstreamLeavesHost
    RouteTablesDistinct
    ActiveProtocolAnswers
    ServesOwnCertificate
    NoRequestRejected
    ReportsOnlyWhatMoved
    OldConfigStops
    ShellsEndWithSocket
PROPERTIES
    NginxFollowsSettings
    OldSessionsEnd
CHECK_DEADLOCK FALSE
