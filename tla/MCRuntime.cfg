SPECIFICATION RuntimeSpec
CONSTANTS
    Recipients = {alice}
    Processes = {p1, p2}
    Cycles = {c1}
    NoCycle = none
    MaxAttempts = 2
    LeaseTicks = 2
    MaxAge = 2
    Backoff = 1
    MaxMessages = 2
    MaxFaults = 1
    MaxOverruns = 1
    Servers = {s1, s2}
    Callers = {r1, r2}
    Limit = 1
    Window = 2
    Configurations <- Environments
    Followed = {"login-ph", "api"}
    MaxOutages = 1
CHECK_DEADLOCK FALSE
INVARIANTS
    OneCyclePerMessage
    
    LimitsAreKept
PROPERTIES
    VerdictsAreFinal
    MessagesSettle
    WindowsEnd
