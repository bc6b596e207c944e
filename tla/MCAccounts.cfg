SPECIFICATION MCAccountsSpec
CONSTANTS
    TheBranch = br
    Users = {a1, a2}
    NoUser = nobody
    Admins = {a1, a2}
    Branches = {br}
    NoBranch = nowhere
    HomeBranch <- AllAtTheBranch
    Requests = {q1, q2}
    RotateAfter = 1
    GraceFor = 0
    IdleFor = 2
    RefreshAfter = 0
    SessionTtl = 3
    RememberedTtl = 3
    TempTtl = 1
    MaxClock = 4
    MaxInstant = 3
    MaxTogether = 2
    MaxSessions = 3
    MaxPassword = 3
CHECK_DEADLOCK FALSE
SYMMETRY AccountsAndRequestsAlike
INVARIANTS
    SessionsMatchPassword
    AnActiveAdminRemains
    FamilyRevokedTogether
    FamilyIsAChain
