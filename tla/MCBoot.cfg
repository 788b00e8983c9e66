CONSTANTS
    MaxBoots = 2
    LastPort = 2
    Calls = {1, 2}
    MaxStates = 3
    MaxProxies = 3
    BuiltIn = {"session/init", "build/custom"}
    Overrides = {"build/custom"}
    ModuleSlots = {"ext/slot"}
    Typos = {}
    InitSlot = "session/init"
    MaxEdits = 1
    MaxLoads = 2
    MaxDeaths = 1

SPECIFICATION MCSpec
INVARIANT SignalsOwn
INVARIANT LeftoversAreNamed
INVARIANT ProxiesAreTheirs
INVARIANT HooksAreTheBoots
PROPERTY EndedStaysEnded
CHECK_DEADLOCK FALSE
