SPECIFICATION Spec
CONSTANTS
    Threads = {t1, t2}
    src = src
    one = one
    two = two
    Volumes = {src}
    Uids = {}
    NoUid = NoUid
    NoVolume = NoVolume
    KrbUid <- NoKerberos
    Healths = {"ok"}
    SafeNotMounted = TRUE
    KrbFaults = FALSE
    CanRestart = TRUE
    MaxStack = 1
    MaxLate = 1
    Existing = {src}
    Source <- NoClones
    OnDelete <- ToBeDeleted
    DefaultOnDelete = "retain"
    WithSecrets = {src}
    SubDirOrGuest = {}
    RemoveArchived = FALSE
    CacheExpires = TRUE
SYMMETRY GoroutineSymmetry
INVARIANTS
    DeletedIsGone
