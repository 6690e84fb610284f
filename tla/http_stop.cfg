SPECIFICATION FairSpec
CONSTANTS
    Conns = {c1, c2, c3}
    None = None
\* A stopped server with no connection left does nothing more.
CHECK_DEADLOCK FALSE
INVARIANTS
    TypeOK
    CountMatches
    SocketOutlivesListener
PROPERTIES
    KeepsContract
    ThreadsEnd
