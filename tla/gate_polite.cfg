SPECIFICATION FairSpec
CONSTANTS
    Downloader = Downloader
    Main = Main
    Free = Free
    Callers = {c1, c2}
    Requests = {r1, r2}
    Calls = {"download", "restart", "status", "stop"}
    Polite = TRUE
    MaxAttempts = 3
CHECK_DEADLOCK FALSE
INVARIANTS
    TypeOK
    DetectorAlone
PROPERTIES
    CallsReturn
    
    StopEnds
    KeepsModelContract
