CONSTANTS
    Conns = {c1, c2, c3}
    Profiles = {p}
    NoConn = noConn
    NoProfile = noProfile
    MaxEpoch = 3
    Pipelined = FALSE

SPECIFICATION ServerSpec
INVARIANT SocketsAreCovered
INVARIANT ExitLeavesNothing
PROPERTY UnwantedComesDown
CHECK_DEADLOCK FALSE
