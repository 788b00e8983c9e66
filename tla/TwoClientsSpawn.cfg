CONSTANTS
    Clients = {c1, c2}
    Daemons = {d0, d1, d2, d3}
    Old = {d0}
    None = none
    Concurrent = TRUE
    Hasty = FALSE

SPECIFICATION SpawnSafety
INVARIANT OneDaemonPerWorktree
CHECK_DEADLOCK FALSE
