SPECIFICATION EitherSpec
CONSTANTS
    r1 = r1
    r2 = r2
    r3 = r3
    h1 = h1
    h2 = h2
    h3 = h3
    NoRemote = NoRemote
    NoHost = NoHost
    NoName = NoName
    Remotes = {r1, r2, r3}
    Hosts = {h1, h2, h3}
    Names = {"a", "b"}
    Pve = {r1}
    BaseTime = 1
    MaxBackOff = 2
    MinFail = 1
    MaxTime = 2
    Requests = {"get", "post"}
    RemoteOf <- OnlyGet
    Method <- OneGet
    Layouts <- Edited
    NameTask = TRUE
    Outcomes = {"ok", "connect"}
INVARIANTS PostOnce IndexSound BackOffBounded
PROPERTIES EachHostOnce CanaryWatch
CHECK_DEADLOCK FALSE
