SPECIFICATION FairSpec
CONSTANTS
    c1 = c1
    c2 = c2
    None = None
    Conns = {c1, c2}
    Fds = {5, 6}
    ServerFd = 3
    Program <- Clients
    Window <- OneAhead
    Fragmented = {c2}
    Hurried = {c2}
    SendRoom = 1
    Policies = {"always", "everysec"}
    DBs <- OneDB
    Kinds = {"write"}
    BufferSize = 3
    MaxOps = 3
    MaxQueue = 2
    MaxCrashes = 1
    Faults = {"kill", "powercut"}
INVARIANTS
    HeardWritesSurvive
PROPERTIES
    RequestsAnswered
    HeardWritesReachDisk
CHECK_DEADLOCK FALSE
