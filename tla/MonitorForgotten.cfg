CONSTANTS
    Pids = {1}
    Accounts = {a}
    Policies <- OnePolicy
    Scanners = {s1}
    Terminators = {t1}
    NoIntent = NoIntent
    MatchTimeout = 1
    MatchSlack = 0
    CrashWindow = 1
    MaxPending = 1
    MaxTracked = 1
    HiddenBirths = FALSE
    HiddenNames = FALSE
    MaxClock = 2
    MaxLaunches = 1
SPECIFICATION Spec
CHECK_DEADLOCK FALSE
INVARIANT ForgottenNotRestarted
