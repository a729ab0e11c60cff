SPECIFICATION MCSpec
CONSTANTS
    u1 = u1
    u2 = u2
    Updates <- MCUpdates
    Zones <- MCZones
    Schedules <- MCSchedules
    Configs = {"c1", "env"}
    NameLists <- MCNameLists
    FoldName <- MCFoldName
    StartHour = 20
    MaxHour = 110
    MaxSaves = 2
    RunHours = {0, 1, 30}
    MaxActs = 3
    Labels = {"a", "b"}
    Filters <- MCFilters
    PageLimit = 1
    RowCap = 1
    Nobody = "nobody"
    MCParts = {"config"}
    s1 = s1
    s2 = s2
    q1 = q1
    q2 = q2
    Sessions <- MCSessions
    Requests <- MCRequests
    Versions = {1, 2}
    MaxExports = 4
    MaxMinutes = 1
    Steps = {1, 2}
    CommentOnlyFrom = 2
    MCScenarios = {"none"}
CHECK_DEADLOCK FALSE
INVARIANTS
    StartRunsOnThePage
