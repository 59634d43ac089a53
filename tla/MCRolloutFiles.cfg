SPECIFICATION Spec
CONSTANTS
    p1 = p1
    p2 = p2
    l1 = l1
    l2 = l2
    f1 = f1
    f2 = f2
    f3 = f3
    x1 = x1
    x2 = x2
    NoProc = NoProc
    NoInode = NoInode
    NoFile = NoFile
    Old = Old
    Procs = {p1, p2}
    LockInodes = {l1, l2}
    FileInodes = {f1, f2, f3}
    Items = {x1, x2}
    MaxDeaths = 2
SYMMETRY Symmetry
INVARIANTS
    OneRecorder
    PlainIsNewest
PROPERTY ReadersLoseNothing
