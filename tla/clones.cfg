SPECIFICATION Spec
CONSTANTS
    Threads = {t1, t2}
    src = src
    one = one
    two = two
    Volumes = {src, one, two}
    Uids = {}
    NoUid = NoUid
    NoVolume = NoVolume
    KrbUid <- NoKerberos
    Healths = {"ok"}
    SafeNotMounted = TRUE
    KrbFaults = FALSE
    CanRestart = TRUE
    MaxStack = 2
    MaxLate = 1
    Existing = {src}
    Source <- ClonesOfSrc
    OnDelete <- OneRetained
    DefaultOnDelete = ""
    WithSecrets = {src, one}
    SubDirOrGuest = {}
    RemoveArchived = FALSE
    CacheExpires = FALSE
SYMMETRY GoroutineSymmetry
INVARIANTS
    TypeOK
    CloneIsComplete
    WorksOnShare
PROPERTIES
    KeepsVolumeContract
