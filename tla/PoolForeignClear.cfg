SPECIFICATION Spec
CONSTANTS
    k1 = k1
    k2 = k2
    r1 = r1
    r2 = r2
    n1 = n1
    h1 = h1
    h2 = h2
    Keys <- MCKeys
    Remotes = {r1}
    Nodes = {n1}
    KeyType <- AllPve
    RemoteType <- AllPveRemotes
    Handlers = {h1}
    Workers = {w1}
    Ops <- WorkerOps
    Digests = {FALSE}
    Volatile = {}
    Flaky = {}
    Foreign <- FirstTarget
    Unbound = Unbound
    NoKey = NoKey
PROPERTY ClearHitsOwnKey
