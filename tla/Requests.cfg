SPECIFICATION Spec
CONSTANTS
    u1 = u1
    u2 = u2
    a1 = a1
    a2 = a2
    b1 = b1
    p1 = p1
    p2 = p2
    k1 = k1
    Users <- MCUsers
    Calls <- MCCalls
    UserOf <- MCUserOf
    DayOf <- MCDayOf
    Plain <- MCPlain
    Keys <- MCKeys
    KeyOf <- MCKeyOf
    HitLimit <- MCHitLimit
    HitWindow = 2
    PoolSize = 3
    MinuteLimit = 1
    DayLimit = 1
    GlobalLimit = 2
    LastMinute = 2
SYMMETRY RequestSymmetry
INVARIANTS
    NobodyWaitsForever
    QuotasHold
    CountersAreExact
    WindowNeverOverfull
CHECK_DEADLOCK FALSE
