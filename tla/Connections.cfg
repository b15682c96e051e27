SPECIFICATION Spec
CONSTANTS
    c1 = c1
    c2 = c2
    c3 = c3
    None = None
    Conns = {c1, c2, c3}
    Fds = {5}
    Program <- Transactions
    Window <- TwoAhead
    Fragmented = {c1}
    Hurried = {c1, c3}
    ServerFd = 3
    SendRoom = 1
INVARIANTS
    TypeOK
    RepliesInOrder
    ExecutedAsSent
CHECK_DEADLOCK FALSE
