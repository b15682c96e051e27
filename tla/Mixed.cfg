SPECIFICATION Spec
CONSTANTS
    a = a
    b = b
    Key = {k1, k2}
    Ref = {r1, r2, r3}
    Text <- TextAB
    Half = 2
    Never = Never
    Commands <- MixedWorkload
    Args <- TextAB
    Deltas <- OneDelta
    Amounts <- AtOnce
    Instants <- NoInts
    MaxTime = 1
    Second = 1
    MaxLen = 1
    Scores <- OneScore
    FlagSets <- NoFlags
INVARIANTS
    TypeOK
    MapsAreNeverEmpty
    SharingIsTyped
PROPERTIES
    OnlyAliasesFollow
VIEW DataOnly
CHECK_DEADLOCK FALSE
