SPECIFICATION FairSpec
CONSTANTS
    i1 = i1
    i2 = i2
    Items = {i1, i2}
    Meta = Meta
    MaxFaults = 2
    MaxLosses = 1
    MaxQueue = 1
CHECK_DEADLOCK FALSE
INVARIANTS
    TypeOK
    OrdinalsCountRecords
    ProjectionIsPrefix
    ProjectionNotWedged
PROPERTIES
    ImplementsThreadLog
    OperationsReturn
