SPECIFICATION FairSpec
CONSTANTS
    o1 = o1
    o2 = o2
    o3 = o3
    o4 = o4
    Objects = {o1, o2, o3, o4}
    Size <- Sizes
    Expected = 4
    MinSegment = 1
    MaxSegments = 3
    MaxAttempts = 2
    ReadsFail = FALSE
    MaxFaults = 2
CHECK_DEADLOCK FALSE
INVARIANTS
    TypeOK
    NothingMisplaced
PROPERTIES
    KeepsProgress
    KeepsContract
    HealsItself
