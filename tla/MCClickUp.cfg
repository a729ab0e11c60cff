SPECIFICATION Spec
CHECK_DEADLOCK FALSE
CONSTANTS
    q1 = q1  q2 = q2  none = none  workspace = workspace  l1 = l1
    f1 = f1  f2 = f2  company = company  a = a  b = b  u1 = u1  u2 = u2
    k1 = k1  k2 = k2  t1 = t1  t2 = t2
    MCScenarios = {"token", "tasks", "batches", "parent", "bulk", "two_copies"}
    Tokens <- MCTokens
    Lists <- MCLists
    Workspace = workspace
    Requests <- MCRequests
    NoRequest = none
    MaxWrites = 2
    Facilities <- MCFacilities
    NoFacility = none
    Company = company
    LinkLists <- MCLinkLists
    NoList = none
    Users <- MCUsers
    NoUser = none
    Editors <- MCRequests
    NoEditor = none
    MaxLog = 4
    Copies <- MCCopies
    Tasks <- MCTasks
    Chunk = 2
    MaxItems = 2
    Budget = 6
INVARIANTS
    
    
    RowsArePostedOnce
PROPERTIES
    JobsAreSettled
