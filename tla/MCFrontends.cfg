CONSTANTS
    Plugins = {"p", "q"}
    Enabled = {}
    Suppressed = {"q"}
    MaxVersion = 2
    MaxEvents = 2
    TabProfiles = {"a", "b"}
    MaxOpens = 3
    MaxDeaths = 1
    Panels = {"x", "y"}
    MaxSwitches = 4
    MaxBridges = 2
    MaxWizards = 1
    MaxAsks = 2
    Ports = {1, 2}
    MaxLines = 2
    MaxNotices = 1
    MaxClicks = 2
    MaxReloads = 1
    Calls = {1, 2}
    MaxConnections = 2
    MaxChanges = 1
    MaxSets = 2
    MaxSaves = 1
    MaxStarts = 2
    Permissions = {"p"}
    Documents = {1, 2}
    MaxOrders = 1
    MaxCommands = 1

SPECIFICATION MCSpec
INVARIANT ListsFollowEvents
INVARIANT DepsAreLive
INVARIANT PanelsAreAsBelieved
INVARIANT ProfilesFit
INVARIANT EveryLineOnce
INVARIANT RunningModuleIsCurrent
INVARIANT ConsentGoverns
CHECK_DEADLOCK FALSE
