SPECIFICATION AllSpec
CONSTANTS
    u1 = u1
    u2 = u2
    v1 = v1
    v2 = v2
    NoAge = NoAge
    Nothing = Nothing
    Garbage = Garbage
    Err = Err
    Users = {u1, u2}
    Keys = {"key"}
    Values = {v1, v2}
    Times = {0, 1}
    MaxAges = {0, NoAge}
    Callers = {u1, u2}
    Kinds = {"subscription", "complete", "invalidate"}
    InfoKeys = {"subscription-state"}
    InfoAges = {0, 1}
    MaxVersion = 1
    MaxTime = 2
    MaxDelay = 1
    Never = Never
    NoValue = NoValue
    Failed = Failed
    Unreadable = Unreadable
    AnyAge = AnyAge
    Remotes = {"m1", "m2"}
    TypeOfRemote <- MCTypeOfRemote
    NameHits <- MCNameHits
    Beginnings <- MCBeginnings
    Resources <- MCResources
    ViewConfig <- MCViewConfig
    Queries <- MCQueries
    None = None
    Calls = {u1, u2}
    Ids = {p1, p2}
    Tokens = {t1}
    Machines = {k1}
    Legacy = {l1}
    MaxCounter = 1
    Seeds = {0}
    MaxEdits = 2
    MaxCrashes = 1
    Absent = Absent
SYMMETRY Symmetry
INVARIANTS AnswerIsRight FreshEnough 
PROPERTIES ImplementsStore LegacyKept
CHECK_DEADLOCK FALSE
