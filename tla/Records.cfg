CONSTANTS
    Callers = {c1, c2}
    Users = {1, 2}
    MaxAccounts = 3
    MaxCalls = 2
    MaxDepth = 3
    MaxBlocks = 6
    MaxContent = 2
    MaxBackups = 3
    MaxCrashes = 1
    Names = {1, 2}
    MaxRecords = 2
    MaxImports = 1
    Downloaders = {w, l}
    Helpers = {p1, p2}
    MaxRelease = 3
    MaxTogether = 1
    Scanners = {w, l}
    Kinds = {"disconnect", "start", "leave", "return"}
    MaxLines = 3
    MaxFiles = 2
    MaxScans = 2
    MaxRead = 2
    MaxEvents = 1
    TaskIds = {none, i1}
    DayLength = 3
    WeekLength = 2
    Grace = 1
    MaxTime = 6
    MaxSaves = 2
    Switchers = {v1, v2}
    MaxHolders = 2
    Lookers = {w, l}
    UserIds = {1, 2}
    Ttl = 1
    MaxCached = 1
    RetryAttempts = 1
    Patience = 1
    MaxHours = 4
    a1 = a1
    a2 = a2
    d1 = d1
    Folders = {d1, d2}
    Appliers = {x}
    FrameCaps = {1}
    ClientCaps = {3, 4}
    MaxFileFaults = 2
    MaxOutside = 2
    ProcessIds = {p1, p2}
    Owners = {a1, a2}
    Spots = {1, 2}
    RestoreTime = 1
    CaptureAge = 1
    GraceAge = 2
    MaxClock = 2
    MaxClients = 2
    MaxMoves = 1
SPECIFICATION RecordsSpec
SYMMETRY Exchanges
CHECK_DEADLOCK FALSE
INVARIANTS
    RecordsTypeOK
    CopiesFit
    BlocksAreAtomic
    ShownIsSo
PROPERTIES
    NothingIsLost
    ImplementsDurableStore
    RestoreIsSafe
    ImportsAreSafe
    UpdatesAreSafe
    ImplementsLock
