CONSTANTS
    Accounts = {a, b}
    Users = {u1, u2}
    Targets <- OwnAccounts
    Watcher = w
    Prompt = TRUE
    Relaunches = TRUE
    FreeFile = TRUE
    MaxCalls = 2
    MaxEdits = 0
    Jobs = {j1, j2}
    Thresholds = {0, 1, 2}
    MaxAttempts = 3
    MaxAsks = 2
    Ids = {"a", "b", "c"}
    Requests <- RequestsAsked
    WaveSizes = {1, 2}
    PlannedAccounts = 2
    PlannedWindows = 2
    MaxChanges = 3
    Changers = {v1, v2}
    Updates <- UpdatesAsked
    MaxChangeCalls = 2
    MaxRefusals = 1
    Visitors = {v1, v2}
    ServerJobs = {j1, j2, j3}
    Home = {j1}
    MaxHistory = 2
    MaxBlacklist = 1
    FailureThreshold = 2
    Cooldown = 2
    MaxVisits = 3
    MaxUnread = 1
    a1 = a1
    a2 = a2
    a3 = a3
    a4 = a4
    Crew = {a1, a2, a3, a4}
    Places = {j1, j2}
    Selections <- SelectionsAsked
    Profiles = {p1, p2}
    MaxCoordinated = 3
    MaxParty = 2
    MaxProfiles = 1
    PerServer = {1, 2}
    MaxMeanwhile = 2
INIT DecisionInit
NEXT DecisionNext
SYMMETRY Exchanges
CHECK_DEADLOCK FALSE
INVARIANTS
    DecisionsTypeOK
    ClientGetsItsOwn
    UserIsObeyed
    PlansAreRight
PROPERTY DecisionsHold
