SPECIFICATION Spec
CONSTANTS
    Downloader = Downloader
    Main = Main
    Free = Free
    Callers = {c1, c2}
    Requests = {r1}
    Calls = {"download", "restart", "status", "stop"}
    Polite = FALSE
    MaxAttempts = 2
SYMMETRY Symmetry
CHECK_DEADLOCK FALSE
PROPERTIES
    LiftedByModel
    LeavesQuietly
