SPECIFICATION Spec
CONSTANTS
    Policies = {"always"}
    DBs <- OneDB
    Kinds = {"write"}
    BufferSize = 3
    MaxOps = 3
    MaxQueue = 2
    MaxCrashes = 2
    Faults = {"powercut"}
INVARIANTS
    AlwaysIsSafest
