SPECIFICATION Spec
CONSTANTS
    Jobs = {j1, j2, j3}
    None = None
    Preset = preset
    ClientIds = {account, api, web}
    Account = account
    api = api
    web = web
    Operator = api
    Listing <- MCListing
    Life = 2
    Margin = 1
    MaxNow = 2
    MaxBusy = 2
    Handwritten <- MCFiles
    Options <- MCOptions
    MaxServers = 1
    Emails = {e1, e2}
    Names = {n1}
    NotAnEmail = bad
    Passwords <- MCPasswords
SYMMETRY Symmetry
CHECK_DEADLOCK FALSE
INVARIANTS
    TypeOK
    AdminTokenInTime
    RegisterAnswersOwn
    BuiltOnValidOptions
    SavedDataStays
    ImportConverges
PROPERTY
    ServersKeepAccess
