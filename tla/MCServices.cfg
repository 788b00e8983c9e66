CONSTANTS
    RequestIds = {1, 2}
    RingCapacity = 1
    Concurrency = 1
    QueueCap = 1
    MaxRows = 2
    MaxEpochs = 2
    MaxTaps = 2
    f = f
    g = g
    r1 = r1
    r2 = r2
    r3 = r3
    noRequest = noRequest
    Files <- MCFiles
    OnSave <- MCOnSave
    MaxPipelines = 3
    MaxWatches = 2
    Requests <- MCRequests
    NoRequest = noRequest
    MaxSessions = 2
    Capacity = 3
    Limit = 2
    MaxLines = 5
    MaxEpoch = 3

SPECIFICATION MCSpec
INVARIANT OnlyNewestRuns
INVARIANT BuildsAreApart
INVARIANT ReadersMissNothing
PROPERTY EveryChangeIsRun
PROPERTY BodiesArrive
CHECK_DEADLOCK FALSE
