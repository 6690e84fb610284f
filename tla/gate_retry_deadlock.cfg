SPECIFICATION FairSpec
CONSTANTS
    Downloader = Downloader
    Main = Main
    Free = Free
    Callers = {c1, c2}
    Requests = {r1}
    Calls = {"download"}
    Polite = FALSE
    MaxAttempts = 2
CHECK_DEADLOCK FALSE
PROPERTY CallsReturn
