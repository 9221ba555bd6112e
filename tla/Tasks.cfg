SPECIFICATION EitherSpec
CONSTANTS
    Tasks = {2, 3}
    Nodes = {n1}
    NodeOf <- SameNode
    Start <- StartTimes
    MaxFiles = 2
    Uncompressed = 1
    RotateAfter = 2
    RemoteOf <- OneRemote
    Flaky = {}
    Ours = {2}
    Manual = {}
    Boot = 4
    MaxTime = 6
    MaxCrashes = 1
    MaxDamage = 1
    TornLines = {FALSE}
    n1 = n1
    r1 = r1
 
PROPERTY RecordedIsKept
