SPECIFICATION MCSpec
CONSTANTS
    Canonical <- MCCanonical
    Placeholders = {"n/a"}
    ShortNumbers = {"911"}
    Alike = {{"ann", "anne"}}
    MAX_CLUSTER_SIZE = 2
    MAX_HOUSEHOLD_SIZE = 3
    Formats <- MCFormats
    Fold <- MCFold
    RETRY_FIRST_DELAY = 1
    RETRY_MAX_DELAY = 3
    MaxLetters = 4
    VARIANT_SURFACE_THRESHOLD = 60
    NumberOf <- MCNumberOf
    Lower <- MCLower
    Score <- MCScore
    RARE_GROUP_MAX_OCCURRENCES = 1
    CellTexts = {"", "10", "20"}
    NewDimensions <- MCNewDimensions
    NewWords <- MCNewWords
    MaxEdits = 2
    MCParts = {"report", "files", "names", "units"}
CHECK_DEADLOCK FALSE
INVARIANTS
    HouseholdsAreComponents
    EveryLeaseOnce
    BoundDropsNothing
    IssueLeadsToItsFix
    ExportedFilesAgree
