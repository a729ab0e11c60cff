SPECIFICATION MCSpec
CONSTANTS
    Ids = {a}
    Users = {u1, u2}
    Threads = {t1, t2}
    Ops = {"mutate", "cancel", "consume"}
    Mixes = {{"mutate", "cancel"}, {"consume"}}
    None = None
    Timeout = 2
    Granularity = 1
    MaxRequest = 1
    MaxTime = 6
    MaxObjs = 2
    MaxStamp = 2
CHECK_DEADLOCK FALSE
INVARIANTS
    
    WriteLostOnlyIfIdle
PROPERTIES
    KeepsPromise
    IdleSessionsExpire
