SPECIFICATION ManagerSafety
CONSTANTS
    Callers = {c1}
    MaxSpawns = 2
INVARIANT LiveIsMapped
CHECK_DEADLOCK FALSE
