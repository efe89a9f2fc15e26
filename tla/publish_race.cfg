CONSTANTS
    t1 = t1
    t2 = t2
    v1 = v1
    a = a
    b = b
    inline = inline
    NoTarget = NoTarget
    Threads = {t1, t2}
    Volumes = {v1}
    Targets = {a, b}
    Inline = {}
    VolumeOf <- TwoPods
    SafeNotMounted = FALSE
    Overlap = TRUE
    MaxStack = 2
    MaxLate = 2
SPECIFICATION Spec
SYMMETRY Symmetry
INVARIANTS
    PublishedServesShare
