SPECIFICATION Spec
CONSTANTS
    p1 = p1
    p2 = p2
    t1 = t1
    t2 = t2
    mail = mail
    key = key
    c1 = c1
    c2 = c2
    f1 = f1
    f2 = f2
    None = None
    Torn = Torn
    Profiles = {p1, p2}
    Clients = {t1, t2}
    ProfileOf <- Apart
    Entities = {mail, key}
    Fragments = {f1, f2}
    Configs = {c1, c2}
    Holds <- HoldsBoth
    Misses <- MissesMail
    Finds <- FindsMixed
    Confident <- ConfidentAll
    Bodies <- BodiesOne
    Forms = {"json"}
    DetectorStart = {TRUE, FALSE}
    SaveIsAtomic = TRUE
    MaxLabel = 1
SYMMETRY Symmetry
INVARIANTS
    TypeOK
    NeverReissued
    PersistedBeforeForward
    LabelsDistinct
    NeverMisrestored
