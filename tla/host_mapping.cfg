SPECIFICATION Spec
CONSTANTS
    Threads = {t1, t2}
    Volumes = {v1, v2}
    NoVolume = NoVolume
SYMMETRY Symmetry
PROPERTIES
    MappingIsKept
