SPECIFICATION FairSpec
CONSTANTS
    c1 = c1
    c2 = c2
    c3 = c3
    None = None
    Conns = {c1}
    Fds = {5}
    Program <- Plain
    Window <- TwoAhead
    Fragmented = {}
    Hurried = {}
    ServerFd = 3
    SendRoom = 2
PROPERTIES
    RequestsAnswered
CHECK_DEADLOCK FALSE
