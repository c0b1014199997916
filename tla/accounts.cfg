SPECIFICATION Spec
CONSTANTS
    Requests = {r1, r2, r3, r4}
    Users = {u1}
    None = None
    Endpoints = {"login", "complete", "setup", "refresh", "logout", "forgot", "reset", "send", "verify"}
    MaxFailed = 5
    Lockout = 1
    AccessTtl = 1
    RefreshTtl = 1
    PreAuthTtl = 0
    LinkTtl = 0
    Volatile = TRUE
    MaxNow = 0
SYMMETRY RequestSymmetry
CHECK_DEADLOCK FALSE
INVARIANTS
    ResetEvicts
    Entitled
    LoginNeedsSecondFactor
    LateSetupsRefused
PROPERTIES
    ImplementsLifecycle
    HandlersAdvance
