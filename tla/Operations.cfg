SPECIFICATION AllSpec
CONSTANTS
    r1 = r1
    r2 = r2
    r3 = r3
    w1 = w1
    w2 = w2
    c1 = c1
    c2 = c2
    d1 = d1
    k1 = k1
    k2 = k2
    t1 = t1
    g1 = g1
    None = None
    Admin = Admin
    Free = Free
    FetchRemotes = {r1, r2, r3}
    Remotes = {r1, r2, r3}
    Workers = {w1, w2}
    Configured = {r1, r2}
    Requests <- SdnRequests
    Single = {r3}
    FetchNodes = {n1, n2}
    Localhost = n1
    MaxConnections = 2
    MaxConnectionsPerRemote = 1
    Calls = {c1, c2}
    Ops <- HostingOps
    Domains = {d1}
    MailKinds <- SpfOnly
    Attempts = 2
    MaxEdits = 1
    MaxBlind = 1
    CoreCalls = {k1, k2}
    Asks <- CoreAsks
    Targets = {t1}
    Guests = {g1}
    TargetOf <- CoreTarget
    VerifyAttempts = 1
    MaxFaults = 1
INVARIANTS ConnectionsBounded LockCoversPending RolledBackLeavesNothing NothingReplacedUnasked PublishedFollowsTargets WindowsTracked AuditedOnce
PROPERTIES NoPartialCommit EverythingEnds
CHECK_DEADLOCK FALSE
