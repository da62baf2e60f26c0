SPECIFICATION Spec
CONSTANTS
    Users = {u1, u2}
    Names = {n1, n2}
SYMMETRY Symmetric
CHECK_DEADLOCK FALSE
INVARIANTS
    WrkSound
    StatsSound
    BenchmpSound
    ZoneSound
    MasterSound
    FileCacheSound
PROPERTY CycleSound
