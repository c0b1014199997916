SPECIFICATION Spec
CONSTANTS
    Requests = {r1, r2, r3}
    Clients = {c1}
    Users = {u1, u2}
    None = None
    Endpoints = {"login", "refresh", "logout", "reset", "csrf", "optional", "publicOptional"}
    Configurations <- MCConfigurations
    Handlers = {h1}
    Watched = {"loggedIn"}
    MaxSubs = 2
SYMMETRY Symmetry
CHECK_DEADLOCK FALSE
INVARIANTS
    TypeOK
    SessionReachesClient
    CookieFollowsSession
    HandlersFinish
    ProtectedRoutes
