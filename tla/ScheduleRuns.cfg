CONSTANTS
    TaskIds = {none, i1}
    DayLength = 3
    WeekLength = 2
    Grace = 1
    MaxTime = 6
    MaxSaves = 2
INIT SchedulerInit
NEXT SchedulerNext
CHECK_DEADLOCK FALSE
INVARIANT DueTasksRun
