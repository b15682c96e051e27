SPECIFICATION Spec
CONSTANTS
    Policies = {"always"}
    DBs <- OneDB
    Kinds = {"write", "flushall"}
    BufferSize = 3
    MaxOps = 2
    MaxQueue = 2
    MaxCrashes = 1
    Faults = {"signal"}
PROPERTIES
    RestartRestoresState
