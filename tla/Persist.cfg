SPECIFICATION Spec
CONSTANTS
    Policies = {"always", "everysec", "no"}
    DBs <- TwoDBs
    Kinds = {"write", "flushdb", "flushall"}
    BufferSize = 3
    MaxOps = 3
    MaxQueue = 2
    MaxCrashes = 2
    Faults = {"kill", "powercut", "signal", "diskfull"}
INVARIANTS
    TypeOK
    EffectsOnceInOrder
    AckedWritesSurvive
    SyncedWritesSurvive
PROPERTIES
    RestartFindsPrefix
    ShutdownKeepsState
