CONSTANTS
    Accounts = {a}
    Macros = {m1}
    Users = {u}
    Watcher = w
    Nobody = Nobody
    MaxRuns = 2
    MaxListed = 2
    MaxStops = 1
    MaxDecisions = 1
SPECIFICATION Spec
CHECK_DEADLOCK FALSE
PROPERTY StopStays
