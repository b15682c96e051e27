SPECIFICATION Spec
CONSTANTS
    a = a
    b = b
    Key = {k1, k2}
    Ref = {r1, r2, r3}
    Text <- TextA
    Half = 2
    Never = Never
    Commands <- ScalarWorkload
    Args <- TextA
    Deltas <- OneDelta
    Amounts <- NowOrLater
    Instants <- NoInts
    MaxTime = 1
    Second = 3
    MaxLen = 1
    Scores <- OneScore
    FlagSets <- NoFlags
PROPERTIES
    ImplementsContract
VIEW DataOnly
CHECK_DEADLOCK FALSE
