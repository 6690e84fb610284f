SPECIFICATION Spec
CONSTANTS
    p1 = p1
    p2 = p2
    t1 = t1
    t2 = t2
    mail = mail
    key = key
    c1 = c1
    c2 = c2
    f1 = f1
    f2 = f2
    None = None
    Torn = Torn
    Profiles = {p1}
    Clients = {t1}
    ProfileOf <- Alone
    Entities = {mail, key}
    Fragments = {f1, f2}
    Configs = {c1, c2}
    Holds <- HoldsBoth
    Misses <- MissesMail
    Finds <- FindsMixed
    Confident <- ConfidentAll
    Bodies <- BodiesAll
    Forms = {"json", "text"}
    DetectorStart = {TRUE}
    SaveIsAtomic = TRUE
    MaxLabel = 3
INVARIANTS
    FoundIsRestorable
    NothingLeaks
PROPERTIES
    KeepsLedger
    KnownSlipsFromCacheOnly
