SPECIFICATION FairSpec
CONSTANTS
    Engines = {e1, e2, e3}
    Nobody = Nobody
    PollLimit = 2
    CalmUpdates = TRUE
    MaxCrashes = 1
    MaxUpdates = 1
    MaxLaunches = 2
    MaxByHand = 1
CHECK_DEADLOCK FALSE
INVARIANTS
    TypeOK
    OneEngine
    Found
PROPERTY Reattaches
