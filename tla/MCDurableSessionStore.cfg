SPECIFICATION MCSpec
CONSTANTS
    Ids = {a}
    Users = {u}
    Threads = {t1, t2}
    Ops = {"update", "consume"}
    None = None
    Timeout = 2
    Granularity = 1
    MaxRequest = 1
    MaxTime = 4
    MaxObjs = 3
    MaxStamp = 1
    MaxTasks = 2
    MaxRestarts = 1
    MayFail = TRUE
    RowIds = {x, y}
    NoTime = NoTime
    IdleTimeout = 1
    Grace = 2
    StartupDelay = 1
    MinSpacing = 2
    RetryDelay = 3
    WriteLag = 1
    SweepLag = 1
    MayRefuse = TRUE
    Horizon = 8
    MaxReboots = 1
    Parts = {"plain", "durable", "schedule"}
CHECK_DEADLOCK FALSE
SYMMETRY Symmetry
INVARIANTS
    ExpiredStaysGone
    RowsAreScheduled
    RowsDoNotLinger
