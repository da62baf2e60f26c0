SPECIFICATION Spec
CONSTANTS
    Users = {u1, u2}
    Names = {n1, n2}
    Nodes = {i1, i2}
SYMMETRY Symmetric
INVARIANTS
    UpstreamSound
    ResolverSound
    PipeSound
    OpenFilesSound
    LimitsSound
PROPERTY StepsSound
