CONSTANTS
    Accounts = {a}
    Macros = {m1}
    Users = {u}
    Watcher = w
    Nobody = Nobody
    MaxRuns = 2
    MaxListed = 2
    MaxStops = 1
    MaxDecisions = 1
    Switchers = {v1}
    MaxHolders = 2
    MaxLogins = 2
    MaxSignIns = 3
SPECIFICATION ServiceSpec
CHECK_DEADLOCK FALSE
INVARIANTS
    ServiceTypeOK
    StopReachesAll
    NothingAddedIsTrue
    OneSignIn
PROPERTIES
    MacrosEnd
    MutexIsTrue
    EverySignInEnds
