CONSTANTS
    Accounts = {a}
    Users = {u1}
    Targets <- AnyAccount
    Watcher = w
    Prompt = FALSE
    Relaunches = TRUE
    FreeFile = FALSE
    MaxCalls = 1
    MaxEdits = 1
SPECIFICATION FairSpec
CHECK_DEADLOCK FALSE
PROPERTY LaunchesSettle
PROPERTY OnlyReorderReorders
