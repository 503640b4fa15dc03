SPECIFICATION Spec
CONSTANTS
    i1 = i1
    i2 = i2
    o1 = o1
    o2 = o2
    Messages = {i1, i2, o1, o2}
    Kind <- MCKind
    Contact <- MCContact
    Lengths <- MCLengths
    Horizon = 8
    Subscription <- MCSubscription
    Offers <- MCOffers
    MaxChanges = 1
SYMMETRY MCSymmetry
CHECK_DEADLOCK FALSE
INVARIANTS
    TypeOK
    ChargedOncePerDay
    ActivityCounted
    PeriodFitsToday
