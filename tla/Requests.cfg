SPECIFICATION RequestsSpec
CONSTANTS
    Keys = {k1, k2}
    Workers = {w1, w2}
    Serial = FALSE
    FirstOctet = 2
    MaxOctet = 3
    RowWriters = {}
    MaxFaults = 1
    g1 = g1
    s1 = s1
    s2 = s2
    Gates = {g1}
    Hosts = {s1, s2}
    SelfHost = s1
    Limit = 1
    HostLimit = 1
    Clerks = {c1, c2}
    Revokers = {"v1"}
    Unguarded = FALSE
    MaxPlaced = 2
    MaxDecisions = 2
    MaxRefusals = 2
    Nowhere = Nowhere
    MaxEdits = 2
    MaxUpsets = 1
    Chats = {"c1", "c2"}
    Mails = {"m1", "m2"}
    Removers = {"r1", "r2"}
    NoMail = NoMail
    MaxMailFaults = 2
    Stores = {"users", "peers"}
    Users = "users"
    Restores = {"d1", "d2"}
    MaxWrites = 1
    MaxDbFaults = 1
    Clients = {"c"}
    Transits = {"t"}
    SampledServers = {"s1", "s2"}
    Organizations = {"o1", "o2"}
    NoOrganization = NoOrganization
    Year = 2
    MaxSamples = 2
    MaxChanges = 2
SYMMETRY Interchangeable
INVARIANTS
    CreatedAddressesUnique
    AccessRespected
    LimitNearlyKept
    ToldIsShown
    MessagesCanBeTakenBack
    RestoredIsTheDump
    ReportsShowWhatWasRecorded
PROPERTY
    CounterNeverFallsBack
CHECK_DEADLOCK FALSE
