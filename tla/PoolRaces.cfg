SPECIFICATION RacesSpec
CONSTANTS
    k1 = k1
    k2 = k2
    r1 = r1
    r2 = r2
    n1 = n1
    h1 = h1
    h2 = h2
    Keys <- MCKeys
    Remotes <- MCRemotes
    Nodes = {n1}
    KeyType <- AllPve
    RemoteType <- AllPveRemotes
    Handlers = {h1, h2}
    Workers = {}
    Ops <- BindingOps
    Digests = {FALSE}
    Volatile = {}
    Flaky = {}
    Foreign <- NoTargets
    Unbound = Unbound
    NoKey = NoKey
SYMMETRY AllAlike
INVARIANT TypeOK
INVARIANT NoDoubleBinding
PROPERTY NoOrphan
