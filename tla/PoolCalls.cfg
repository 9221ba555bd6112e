SPECIFICATION CallsSpec
CONSTANTS
    k1 = k1
    k2 = k2
    r1 = r1
    r2 = r2
    r3 = r3
    n1 = n1
    h1 = h1
    w1 = w1
    Keys = {k1, k2}
    Remotes = {r1, r2, r3}
    Nodes = {n1}
    KeyType <- MCKeyType
    RemoteType <- MCRemoteType
    Handlers = {h1}
    Workers = {w1}
    Ops = {"add", "set", "adopt", "adopt_all", "auto", "check", "revert", "discard", "queue_clear", "apply"}
    Digests = {TRUE, FALSE}
    Volatile = {r1}
    Flaky = {r1, r2}
    Foreign <- MCForeign
    Unbound = Unbound
    NoKey = NoKey
 
PROPERTIES ClearNeverMoves  WorkerTerminates
