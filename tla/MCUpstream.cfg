SPECIFICATION Spec
CONSTANTS
    c1 = c1
    c2 = c2
    c3 = c3
    none = none
    Calls <- MCCalls
    NoCall = none
    Limit = 2
    Window = 3
    MaxTokens = 4
    Prompt = FALSE
    MCScenarios = {"paced", "writers", "dropbox", "mixed", "locks"}
    Sessions = {a, b}
    Requests = {r1, r2}
    Sweep = sweep
    Map = map
    Nobody = nobody
    Rounds = 1
CHECK_DEADLOCK FALSE
INVARIANTS
    WindowIsRespected
    WritesHappenOnce
    LockOrder
PROPERTIES
    EveryoneIsServed
