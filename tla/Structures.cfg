SPECIFICATION MCSpec
CONSTANTS
    v1 = v1
    v2 = v2
    k1 = k1
    k2 = k2
    k3 = k3
    k4 = k4
    Addr = {k1, k2, k3, k4}
    Value = {v1, v2}
    Ints <- Indices
    Null = Null
    Pending = Pending
    Member = {0, 1, 2}
    Score = {1, 2}
    NaN = NaN
    MaxLevel = 3
    Copies = 2
    Header = Header
    Nil = Nil
    Key = {k1, k2, k3}
    Filters <- Matches
    Counts = {0, 1, 2}
    MaxChanges = 1
    Texts <- Nasty
    Lines <- PlainLines
    Numbers <- Small
    Words <- Typed
    MaxWritten = 2
INVARIANTS
    Linked
    SkiplistShape
    PairsAgree
    QueriesAgree
    TakenAsWritten
    StopsAtTheCut
PROPERTIES
    ImplementsList
    CallsReturn
    PopsTakeTheEnd
    CallsReturnKeys
    QuietScansEnd
CHECK_DEADLOCK FALSE
