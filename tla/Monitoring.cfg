SPECIFICATION Spec
CONSTANTS
    d1 = d1
    d2 = d2
    w1 = w1
    w2 = w2
    w3 = w3
    c1 = c1
    c2 = c2
    Devices = {d1, d2}
    Calls = {c1, c2}
    Windows = {w1}
    NoDevice = NoDevice
    NoId = NoId
    NoCall = NoCall
SYMMETRY AllAlike
INVARIANTS DowntimeTracked TrackedIsLive CollectorFollows
