SPECIFICATION Spec
CONSTANTS
    r1 = r1
    r2 = r2
    t1 = t1
    t2 = t2
    NoRun = NoRun
    Runs = {r1, r2}
    Threads = {t1, t2}
    MaxUpdate = 2
    Lease = 3
    Backoff = 1
    Cooldown = 1
    Retries = 1
    MaxRunning = 1
    MaxForgets = 1
SYMMETRY Symmetry
INVARIANT OneConsolidation
