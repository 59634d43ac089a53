SPECIFICATION Spec
CONSTANTS
    s1 = s1
    s2 = s2
    s3 = s3
    t1 = t1
    t2 = t2
    t3 = t3
    t4 = t4
    p1 = p1
    p2 = p2
    Root = Root
    RootPath = RootPath
    NoKey = NoKey
    NoThread = NoThread
    NoPath = NoPath
    Absent = Absent
    Reserved = Reserved
    Spawners = {s1, s2}
    Threads = {t1, t2, t3, t4}
    Paths = {p1, p2}
    Stored = {t1}
    MaxThreads = 2
    MaxCloses = 2
    Scopes <- PassScopes
SYMMETRY Symmetry
CHECK_DEADLOCK FALSE
INVARIANTS
    TypeOK
    MapsAgree
    ReservedPathsAreHeld
    CountCoversAgents
    LimitHolds
