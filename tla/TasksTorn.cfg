SPECIFICATION Spec
CONSTANTS
    Tasks = {1, 2, 3}
    Nodes = {n1}
    NodeOf <- SameNode
    Start <- StartTimes
    MaxFiles = 2
    Uncompressed = 1
    RotateAfter = 2
    RemoteOf <- OneRemote
    Flaky = {}
    Ours = {2}
    Manual = {}
    Boot = 4
    MaxTime = 6
    MaxCrashes = 1
    MaxDamage = 0
    TornLines = {FALSE, TRUE}
    n1 = n1
    r1 = r1
INVARIANTS NoGap
