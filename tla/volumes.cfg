SPECIFICATION Spec
CONSTANTS
    Threads = {t1, t2}
    src = src
    one = one
    two = two
    Volumes = {src, one, two}
    Uids = {}
    NoUid = NoUid
    NoVolume = NoVolume
    KrbUid <- NoKerberos
    Healths = {"ok"}
    SafeNotMounted = TRUE
    KrbFaults = FALSE
    CanRestart = TRUE
    MaxStack = 2
    MaxLate = 2
    Existing = {src, one}
    Source <- NoClones
    OnDelete <- OneOfEach
    DefaultOnDelete = ""
    WithSecrets = {src, one, two}
    SubDirOrGuest = {}
    RemoveArchived = FALSE
    CacheExpires = TRUE
SYMMETRY GoroutineSymmetry
INVARIANTS
    CreatedIsOnShare
    DeletedIsGone
PROPERTIES
    DataIsKept
