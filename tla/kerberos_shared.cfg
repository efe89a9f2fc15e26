SPECIFICATION Spec
CONSTANTS
    Threads = {t1, t2, t3}
    Volumes = {v1, v2, v3}
    Uids = {u1}
    NoUid = NoUid
    NoVolume = NoVolume
    KrbUid <- SharedUidButOne
    Healths = {"ok"}
    SafeNotMounted = TRUE
    KrbFaults = FALSE
    CanRestart = TRUE
    MaxStack = 1
    MaxLate = 1
SYMMETRY GoroutineSymmetry
INVARIANTS
    LinksLeadToTickets
    UnstagedHasNoTicket
