SPECIFICATION Spec
CONSTANTS
    r1 = r1
    r2 = r2
    w1 = w1
    w2 = w2
    q1 = q1
    q2 = q2
    t1 = t1
    t2 = t2
    t3 = t3
    Recipients = {r1, r2}
    Workers = {w1}
    Requests = {q1}
    Tokens = {t1, t2, t3}
    NoToken = NoToken
    NoRecipient = NoRecipient
    BatchSize = 2
    Ops = {"approve", "start", "pause", "cancel", "retry", "recover"}
    Unsteady = {r1}
    Contended = {r1}
    Faults = {"lost", "throttled", "worker", "request"}
    MaxCrashes = 1
    MayStall = TRUE
    ScheduledAhead = FALSE
SYMMETRY Symmetry
CHECK_DEADLOCK FALSE
INVARIANTS
    AtMostOneCopy
    CompletedIsDrained
    NoResendInDoubt
