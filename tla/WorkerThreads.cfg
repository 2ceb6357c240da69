CONSTANTS
    MaxQueue = 3
    MaxBatches = 2
    WaveSize = 2
    MaxPolls = 1
    Runs = {r1, r2}
    Clients = {c1, c2}
    Keys = {k}
    NoClient = NoClient
    NoThread = NoThread
    MaxActions = 2
    Callers = {u1, u2}
    MaxGenerations = 2
    MaxCalls = 2
SPECIFICATION ThreadSpec
CHECK_DEADLOCK FALSE
INVARIANTS
    ThreadTypeOK
    ShownIsTrue CountsAgree WorkersFollow
    KeysAreOwners SessionFits
    OneWatcher
PROPERTIES
    OneQueue WorkersEnd
