CONSTANTS
    a = a
    b = b
    Writers <- MCWriters
    RotateAt = 2
    Keep = 2
    MaxEntries = 5
    MaxCrashes = 1
    Daemons = {1, 2, 3}
    Worktrees = {1, 2}
    WorktreeOf <- MCWorktreeOf
    NoDaemon = 0
    Modules = {"any", "new", "tree"}
    PerWorktree = {"tree"}
    HostRange = {"any", "new", "tree"}
    AnyRange = {"any", "tree"}
    Requests = {1, 2}
    MaxVersion = 2
    MaxOutside = 1
    Checks = {"java-home", "node-modules-sync", "env-file"}
    MaxRuns = 2
SYMMETRY WritersAlike

SPECIFICATION MCSpec
INVARIANT RowKept
INVARIANT CatalogAgrees
INVARIANT CleanLeavesWhole
PROPERTY EvidenceIsKept
CHECK_DEADLOCK FALSE
