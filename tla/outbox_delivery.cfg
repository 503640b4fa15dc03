SPECIFICATION Spec
CONSTANTS
    p1 = p1
    p2 = p2
    Events = {1, 2, 3}
    Publishers = {p1, p2}
    NoEvent = NoEvent
    Limit = 2
    MaxAttempts = 2
    Faults = {"publish", "crash"}
    MaxCrashes = 1
    MayStall = FALSE
INVARIANTS
    TypeOK
    PublishedWasGiven
    CopiesWithinAttempts
    SpentIsDead
PROPERTIES
    KeepsPromise
