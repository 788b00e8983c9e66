CONSTANTS
    Conns = {c1, c2, c3}
    Profiles = {p, q}
    NoConn = noConn
    NoProfile = noProfile
    MaxEpoch = 6
    Pipelined = FALSE

SPECIFICATION Spec
INVARIANT NoOrphanServices
INVARIANT OneBootAtATime
INVARIANT RefcountHoldsSession
INVARIANT AttachersAgree
PROPERTY ImplementsLadder
CHECK_DEADLOCK FALSE
