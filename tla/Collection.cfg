SPECIFICATION AllSpec
CONSTANTS
    m1 = m1
    m2 = m2
    n1 = n1
    u1 = u1
    Task = Task
    Nothing = Nothing
    None = None
    PveRemotes = {m1, m2}
    Clusters = {f1}
    Nodes = {n1, n2}
    MaxChanges = 1
    MaxAdmin = 3
    Remotes = {m1}
    Waiters = {w1}
    MinInterval = 1
    Interval = 2
    Tolerance = 1
    MaxSkew = 2
    MaxTime = 4
    MaxPoints = 2
    MaxCrashes = 1
INVARIANTS NoPointSkipped ClustersHaveMembers
PROPERTIES TriggerIsServed  TriggerIsAnswered DetectedInTheEnd SummaryConverges
CHECK_DEADLOCK FALSE
