SPECIFICATION Spec
CONSTANTS
    r1 = r1
    r2 = r2
    r3 = r3
    h1 = h1
    h2 = h2
    h3 = h3
    NoRemote = NoRemote
    NoHost = NoHost
    NoName = NoName
    Remotes = {r1}
    Hosts = {h1, h2, h3}
    Names = {"a"}
    Pve = {r1}
    BaseTime = 1
    MaxBackOff = 2
    MinFail = 1
    MaxTime = 1
    Requests = {"get", "post"}
    RemoteOf <- AllToFirst
    Method <- OneGet
    Layouts <- Cluster
    NameTask = FALSE
    Outcomes = {"ok", "connect", "client", "timeout"}
INVARIANTS NeverRepeatsPost
CHECK_DEADLOCK FALSE
