CONSTANTS
    Pids = {1, 2}
    Accounts = {a}
    Policies <- OnePolicy
    Scanners = {s1}
    Terminators = {}
    NoIntent = NoIntent
    MatchTimeout = 0
    MatchSlack = 0
    CrashWindow = 0
    MaxPending = 2
    MaxTracked = 2
    HiddenBirths = FALSE
    HiddenNames = TRUE
    MaxClock = 1
    MaxLaunches = 2
SPECIFICATION Spec
CHECK_DEADLOCK FALSE
INVARIANT AttemptsBounded
INVARIANT OneCopyPerLaunch
PROPERTY NoFalseExit
