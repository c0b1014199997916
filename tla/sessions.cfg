SPECIFICATION Spec
CONSTANTS
    Requests = {r1, r2, r3, r4}
    Users = {u1, u2}
    None = None
    Endpoints = {"login", "refresh", "logout"}
    MaxFailed = 2
    Lockout = 1
    AccessTtl = 1
    RefreshTtl = 1
    PreAuthTtl = 1
    LinkTtl = 1
    Volatile = FALSE
    MaxNow = 1
SYMMETRY Symmetry
CHECK_DEADLOCK FALSE
INVARIANTS
    SingleUse
    ReuseEvicts
    NoPrematureLock
    LockHolds
    OnlyMiscountsDefer
PROPERTY NoResurrection
