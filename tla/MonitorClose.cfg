CONSTANTS
    Pids = {1}
    Accounts = {a}
    Policies <- EveryExit
    Scanners = {s1, s2}
    Terminators = {t1}
    NoIntent = NoIntent
    MatchTimeout = 1
    MatchSlack = 0
    CrashWindow = 1
    MaxPending = 1
    MaxTracked = 1
    HiddenBirths = FALSE
    HiddenNames = FALSE
    MaxClock = 1
    MaxLaunches = 2
SPECIFICATION FairSpec
CHECK_DEADLOCK FALSE
INVARIANT TypeOK
INVARIANT NoLeakedRequest
PROPERTY ClosedNotRelaunched
PROPERTY GhostsDisappear
