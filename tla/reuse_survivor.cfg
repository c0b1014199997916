SPECIFICATION Spec
CONSTANTS
    Requests = {r1, r2, r3}
    Users = {u1}
    None = None
    Endpoints = {"login", "refresh"}
    MaxFailed = 5
    Lockout = 1
    AccessTtl = 1
    RefreshTtl = 9
    PreAuthTtl = 1
    LinkTtl = 1
    Volatile = FALSE
    MaxNow = 0
SYMMETRY RequestSymmetry
CHECK_DEADLOCK FALSE
INVARIANT ReuseRevokesAll
