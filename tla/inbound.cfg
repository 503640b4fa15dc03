SPECIFICATION FairSpec
CONSTANTS
    h1 = h1
    h2 = h2
    m1 = m1
    m2 = m2
    m3 = m3
    c1 = c1
    Hooks = {h1, h2}
    Messages = {m1, m2, m3}
    Contacts = {c1}
    Content <- MCContent
    Sender <- MCSender
    Invalid = {m3}
    Events = {e1, e2}
    Requests = {q1, q2}
    Workers = {w1, w2}
    NoHook = NoHook
    NoEvent = NoEvent
    MaxRetries = 1
    Upsets = {"request", "worker", "outage", "effects", "broker", "delete", "status", "account"}
    MaxCalls = 2
    MaxUpsets = 1
    MaxCopies = 1
CHECK_DEADLOCK FALSE
INVARIANTS
    TypeOK
    EffectsAtMostOnce
    ProcessedIsStored
    

    
