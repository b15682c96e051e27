SPECIFICATION Spec
CONSTANTS
    a = a
    b = b
    Key = {k1, k2}
    Ref = {r1, r2, r3}
    Text <- TextAB
    Half = 2
    Never = Never
    Commands <- CollectionWorkload
    Args <- TextAB
    Deltas <- BothWays
    Amounts <- AtOnce
    Instants <- NoInts
    MaxTime = 1
    Second = 1
    MaxLen = 2
    Scores <- OneScore
    FlagSets <- ZFlagSets
PROPERTIES
    ImplementsContract
    MovesConserve
VIEW DataOnly
CHECK_DEADLOCK FALSE
