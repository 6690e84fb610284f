SPECIFICATION Spec
CONSTANTS
    None = None
    Torn = Torn
    Empty = Empty
    Same = Same
    Ids = {i1, i2}
    Threads = {t1}
    Secrets = {s1, s2}
    Rules = {r1, r2}
    Edits = {"add", "put"}
    EditWhileLocked = TRUE
    LockAllowed = FALSE
    SaveIsAtomic = TRUE
    MaxKeys = 1
INVARIANT SecretsSurvive
