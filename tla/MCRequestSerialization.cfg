SPECIFICATION FairSpec
CONSTANTS
    r1 = r1
    r2 = r2
    r3 = r3
    c1 = c1
    Requests = {r1, r2, r3}
    Conns = {c1}
    Scopes <- MCScopes
    NoConn = NoConn
    NoKey = NoKey
CHECK_DEADLOCK FALSE
INVARIANTS
    QuietAfterCleanup
    ExclusiveRunsAlone
    EntryIsItsDrainer
    FifoPerKey
PROPERTIES
    NoStartAfterClose
    EveryRequestSettles
