CONSTANTS
    Callers = {ui, watcher}
    Values = {on, off}
    Unread = Unread
    MaxRevision = 2
    MaxRestores = 1
SPECIFICATION SettingsSpec
CHECK_DEADLOCK FALSE
INVARIANT SnapshotTrusted
