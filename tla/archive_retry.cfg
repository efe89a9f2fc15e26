SPECIFICATION Spec
CONSTANTS
    Threads = {t1, t2}
    src = src
    one = one
    two = two
    Volumes = {one}
    Uids = {}
    NoUid = NoUid
    NoVolume = NoVolume
    KrbUid <- NoKerberos
    Healths = {"ok"}
    SafeNotMounted = TRUE
    KrbFaults = FALSE
    CanRestart = TRUE
    MaxStack = 1
    MaxLate = 1
    Existing = {one}
    Source <- NoClones
    OnDelete <- ToBeArchived
    DefaultOnDelete = ""
    WithSecrets = {one}
    SubDirOrGuest = {}
    RemoveArchived = TRUE
    CacheExpires = TRUE
SYMMETRY GoroutineSymmetry
PROPERTIES
    DataIsKept
