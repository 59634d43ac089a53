SPECIFICATION FairSpec
CONSTANTS
    t1 = t1
    t2 = t2
    t3 = t3
    c1 = c1
    c2 = c2
    NoThread = NoThread
    Threads = {t1, t2, t3}
    Stored = {t1}
    Callers = {c1, c2}
    Limit = 1
    Scopes <- ResidencyScopes
    MaxCancels = 1
CHECK_DEADLOCK FALSE
INVARIANTS
    TypeOK
    SlotsAreHeld
    LoadedIsTracked
    OvershootIsBounded
PROPERTY CallsReturn
