SPECIFICATION Spec
CONSTANTS
    None = None
    Torn = Torn
    Empty = Empty
    Same = Same
    Ids = {i1, i2}
    Threads = {t1, t2}
    Secrets = {s1}
    Rules = {r1}
    Edits = {"add", "put", "delete"}
    EditWhileLocked = TRUE
    LockAllowed = TRUE
    SaveIsAtomic = TRUE
    MaxKeys = 1
SYMMETRY Symmetry
INVARIANTS
    RestartLosesNothing
    SealedAtRest
