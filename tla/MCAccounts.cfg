SPECIFICATION Spec
CONSTANTS
    u1 = u1
    u2 = u2
    u3 = u3
    q1 = q1
    q2 = q2
    none = none
    Users <- MCUsers
    Requests <- MCRequests
    NoRequest = none
    MCScenarios = {"admins", "invites", "sessions", "totp", "gate", "permissions", "bootstrap"}
    MaxInvites = 3
    MaxCeremonies = 2
    MaxSessions = 4
    MaxRequests = 6
    MaxSecrets = 2
    MaxStep = 3
    MaxFailures = 2
SYMMETRY MCSymmetry
CHECK_DEADLOCK FALSE
INVARIANTS
    
    AnAdminRemains
    
PROPERTIES
    ReplacedAfterReverify
