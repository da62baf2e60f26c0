SPECIFICATION Spec
CONSTANTS
    Slots = {s1, s2, s3}
    Listens = {l1, l2}
SYMMETRY Symmetric
INVARIANTS
    EventLoopSound
    HttpConnSound
    BodySound
    SubrequestsSound
    Http2Sound
