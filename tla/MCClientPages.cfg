SPECIFICATION MCSpec
CONSTANTS
    s1 = s1
    s2 = s2
    Saves <- MCSaves
    Forms <- MCForms
    MaxRows = 10
    f1 = f1
    f2 = f2
    Facilities <- MCFacilities
    MaxRequests = 3
    Bodies <- MCBodies
    Indexes <- MCIndexes
    OwnerLists <- MCOwnerLists
    Fold <- MCFold
    MaxPeople = 3
    Companies = {"c1", "c2"}
    Sites = {"f1", "f2", "f3"}
    OwnerOf <- MCOwner
    RawStates <- MCRaw
    UsStates = {"ca"}
    Systems = {"p", "q"}
    MaxEdits = 1
    Runs = {"r1", "r2", "r3"}
    MaRuns = {"m1", "m2", "m3"}
    FirstTitles <- MCFirst
    MaxFailures = 1
    FirstSynced <- MCSynced
    Titles <- MCTitles
    LongWords <- MCLong
    Queries <- MCQueries
    AccountInfos <- MCAccounts
    PersonSets <- MCPersons
    PersonLimit = 1
    MaxRenames = 1
    NoValue = NoValue
    Places = {1, 2, 3}
    Lists = {1, 2, 3}
    ListScores = {0, 70, 92}
    CANDIDATES_PER_FACILITY = 2
    Steps <- MCSteps
    SourceTasks <- MCSources
    TargetTasks <- MCTargets
    CheckTasks <- MCChecks
    Nothing = Nothing
    MCParts = {"fees", "taxes", "coverage", "specials", "edit", "tab", "sister", "listing",
               "search", "preview", "matching"}
CHECK_DEADLOCK FALSE
INVARIANTS
    NoMutualWait
    NoMoreLegalOwnersThanListed
    
    TabAgreesWithSearch
    FirstChoiceGoesToTheStronger
