CONSTANTS
    Clients = {c1, c2}
    Daemons = {d0, d1, d2, d3}
    Old = {d0}
    None = none
    Concurrent = FALSE
    Hasty = FALSE
    MaxSessions = 2
    MaxLogs = 2
    Filtered = FALSE

SPECIFICATION MCSpec
INVARIANT OneDaemonUntilRobbed
INVARIANT ServingDaemonIsFound
INVARIANT GateTellsTruth
INVARIANT LossIsToldOnce
INVARIANT OnlySilenceStalls
PROPERTY CallsEnd
CHECK_DEADLOCK FALSE
