SPECIFICATION FairSpec
CONSTANTS
    Marked = {e1}
    Plain = {e2}
    Processes = {p1, p2}
    Sockets = {s1, s2}
    NoEvent = NoEvent
    MaxAttempts = 2
    MaxUpsets = 1
CHECK_DEADLOCK FALSE
INVARIANTS
    TypeOK
    AtMostOncePerSocket
PROPERTIES
    PlainReachesAll
