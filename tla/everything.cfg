SPECIFICATION Spec
CONSTANTS
    Requests = {r1, r2, r3}
    Users = {u1}
    None = None
    Endpoints = {"login", "complete", "setup", "refresh", "logout", "forgot", "reset", "send", "verify"}
    MaxFailed = 1
    Lockout = 1
    AccessTtl = 1
    RefreshTtl = 1
    PreAuthTtl = 1
    LinkTtl = 1
    Volatile = TRUE
    MaxNow = 1
CHECK_DEADLOCK FALSE
INVARIANT TypeOK
PROPERTY EveryRequestEnds
