SPECIFICATION FairSpec
CONSTANTS
    Threads = {t1, t2}
    Volumes = {v1, v2}
    Uids = {u1, u2}
    NoUid = NoUid
    NoVolume = NoVolume
    KrbUid <- OneUidEach
    Healths = {"ok", "unreadable", "corrupted"}
    SafeNotMounted = FALSE
    KrbFaults = TRUE
    CanRestart = TRUE
    MaxStack = 2
    MaxLate = 2
INVARIANTS
    TypeOK
    StagedIsMounted
    UnstagedIsClean
    LocksAreHeld
    OwnTicketServed
PROPERTIES
    KeepsContract
    CallsReturn
