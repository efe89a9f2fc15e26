SPECIFICATION Spec
CONSTANTS
    Threads = {t1, t2}
    Volumes = {v1, v2}
    Uids = {u1}
    NoUid = NoUid
    NoVolume = NoVolume
    KrbUid <- SharedUid
    Healths = {"ok"}
    SafeNotMounted = TRUE
    KrbFaults = FALSE
    CanRestart = FALSE
    MaxStack = 1
    MaxLate = 1
SYMMETRY GoroutineSymmetry
INVARIANTS
    TicketServed
