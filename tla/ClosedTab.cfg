SPECIFICATION ElectronSpec
CONSTANTS
    TabProfiles = {"a", "b"}
    MaxOpens = 2
    MaxDeaths = 1
INVARIANT ClosedTabStops
CHECK_DEADLOCK FALSE
