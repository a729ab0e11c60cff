SPECIFICATION FairSpec
CONSTANTS
    r1 = r1
    r2 = r2
    m1 = m1
    m2 = m2
    q1 = q1
    q2 = q2
    NoRun = NoRun
    Companies = {c1}
    Facilities = {f1, f2}
    Fields = {"contact", "folder"}
    FolderField = "folder"
    IntakeRuns = {r1, r2}
    MerchantRuns = {m1, m2}
    Requests = {q1, q2}
    MaxVersion = 2
    Answered <- MCAnswered
    Scenarios <- MCScenarios
    BatchSize = 1
    MaxListing = 4
    MaxRestarts = 1
CHECK_DEADLOCK FALSE
INVARIANTS
    OneRunner
    CompletionIsHonest
    RecordedIsApplied
PROPERTIES
    
    SyncEnds
