SPECIFICATION Spec
CONSTANTS
    a = a
    b = b
    Key = {k1, k2}
    Ref = {r1, r2, r3}
    Text <- TextA
    Half = 2
    Never = Never
    Commands <- MoveWorkload
    Args <- TextA
    Deltas <- OneDelta
    Amounts <- OneSecond
    Instants <- NoInts
    MaxTime = 1
    Second = 1
    MaxLen = 2
    Scores <- OneScore
    FlagSets <- NoFlags
PROPERTIES
    MovesKeepElements
VIEW DataOnly
CHECK_DEADLOCK FALSE
