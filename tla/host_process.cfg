SPECIFICATION Spec
CONSTANTS
    Threads = {t1, t2, t3}
    Volumes = {v1, v2}
    NoVolume = NoVolume
SYMMETRY Symmetry
INVARIANTS
    TypeOK
    StagedIsLinked
PROPERTIES
    BetweenCalls
