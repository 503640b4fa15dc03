SPECIFICATION Spec
CONSTANTS
    Requests = {q1, q2}
    Accounts = {a1, a2}
    NoAccount = NoAccount
    MaxSessions = 3
    MaxChanges = 2
    MaxSecond = 1
SYMMETRY MCSymmetry
CHECK_DEADLOCK FALSE
INVARIANTS
    TypeOK
    OneLivePerFamily
    ReuseEndsFamily
    ChangeEndsSessions
    StaleTokensRefused
