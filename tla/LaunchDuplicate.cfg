CONSTANTS
    Accounts = {a}
    Users = {u1, u2}
    Targets <- AnyAccount
    Watcher = w
    Prompt = TRUE
    Relaunches = FALSE
    FreeFile = FALSE
    MaxCalls = 2
    MaxEdits = 0
SPECIFICATION Spec
CHECK_DEADLOCK FALSE
INVARIANT NoDuplicateLaunch
