CONSTANTS
    Callers = {c1, c2}
    MaxSpawns = 3
    Fires <- ThreeFires
    Slot <- ThreeSlots
    Cap = 2

SPECIFICATION MCSpec
INVARIANT HardHookStops
INVARIANT AccountsAreTrue
PROPERTY ModulesAreServed
PROPERTY SubprocessesSettle
CHECK_DEADLOCK FALSE
