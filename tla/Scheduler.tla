------------------------------- MODULE Scheduler -------------------------------
(***************************************************************************)
(* Clock-driven tasks (automations/scheduler.py), saved and deleted by the *)
(* user and run by the tick of the watcher (services/fleet_features.py).   *)
(* Time is counted in quarters of a day; a task names one of them and the  *)
(* weekdays it is for.                                                     *)
(***************************************************************************)
EXTENDS Integers, FiniteSets

CONSTANTS
    TaskIds,        \* ids of tasks; the user interface sends none, so all of its tasks have the same
    DayLength,      \* moments of a day
    WeekLength,     \* days after which the weekdays come again
    Grace,          \* DEFAULT_GRACE_SECONDS, in moments
    MaxTime,        \* bound: the last moment
    MaxSaves        \* bound: tasks saved

ASSUME SchedulerAssumption ==
    /\ DayLength \in Nat \ {0} /\ WeekLength \in Nat \ {0}
    /\ Grace \in 0..(DayLength - 1) /\ MaxTime \in Nat /\ MaxSaves \in Nat

VARIABLES
    time,           \* the clock
    stored,         \* the schedule: [TaskIds -> task or NoTask]
    tickDue,        \* the tasks that the tick under way found due, with their slots
    saves,          \* tasks saved so far
    ran,            \* history: the tasks that ran, with their slots
    found           \* history: the tasks that a tick found due, with their slots

scheduleVars == <<time, stored, tickDue, saves, ran, found>>

Never == -1
Task == [at : 0..(DayLength - 1), days : SUBSET (0..(WeekLength - 1)), enabled : BOOLEAN, last : {Never} \cup Nat]
NoTask == [at |-> 0, days |-> {}, enabled |-> FALSE, last |-> Never]

SchedulerInit ==
    /\ time = 0 /\ stored = [i \in TaskIds |-> NoTask]
    /\ tickDue = {} /\ saves = 0 /\ ran = {} /\ found = {}

-----------------------------------------------------------------------------
(* The algorithms *)

Day(t) == t \div DayLength
SlotOn(task, day) == day * DayLength + task.at

\* due_tasks: today's slot, else yesterday's, if it has just passed and was not run.
InGraceSharply(slot, now) == slot < now /\ now <= slot + Grace
InGrace(slot, now) == slot <= now /\ now <= slot + Grace
DueOn(task, day, now) ==
    /\ day >= 0 /\ day % WeekLength \in task.days
    /\ InGrace(SlotOn(task, day), now)
    /\ task.last < SlotOn(task, day)
DueSlots(task, now) ==
    IF ~ task.enabled THEN {}
    ELSE IF DueOn(task, Day(now), now) THEN {SlotOn(task, Day(now))}
    ELSE IF DueOn(task, Day(now) - 1, now) THEN {SlotOn(task, Day(now) - 1)}
    ELSE {}

\* next_run_at: the first slot after now within a week and a day; none for a disabled task.
UpcomingDays(task, now) ==
    {d \in Day(now)..(Day(now) + WeekLength) : d % WeekLength \in task.days /\ SlotOn(task, d) > now}
NextRun(task, now) ==
    IF ~ task.enabled \/ UpcomingDays(task, now) = {} THEN Never
    ELSE SlotOn(task, CHOOSE d \in UpcomingDays(task, now) : \A e \in UpcomingDays(task, now) : d <= e)

-----------------------------------------------------------------------------
(* The user *)

TimePasses ==
    /\ time < MaxTime
    /\ time' = time + 1
    /\ UNCHANGED <<stored, tickDue, saves, ran, found>>

\* save_scheduled_task: a task with a new id is added.  One with the id of a stored task, or with
\* none beside another without one, should take its place and keep its last run; but assigning to
\* the frozen record raises, and nothing is saved.
SaveTask(i) ==
    /\ saves < MaxSaves /\ stored[i] = NoTask
    /\ \E at \in 0..(DayLength - 1), days \in SUBSET (0..(WeekLength - 1)) \ {{}}, enabled \in BOOLEAN :
          stored' = [stored EXCEPT ![i] = [at |-> at, days |-> days, enabled |-> enabled, last |-> Never]]
    /\ saves' = saves + 1
    /\ UNCHANGED <<time, tickDue, ran, found>>

DeleteTask(i) ==
    /\ stored[i] # NoTask
    /\ stored' = [stored EXCEPT ![i] = NoTask]
    /\ UNCHANGED <<time, tickDue, saves, ran, found>>

-----------------------------------------------------------------------------
(* run_due_scheduled_tasks *)

AllDue == {due \in TaskIds \X (0..time) : due[2] \in DueSlots(stored[due[1]], time)}

BeginRunDue ==
    /\ tickDue = {} /\ AllDue # {}
    /\ tickDue' = AllDue
    /\ found' = found \cup AllDue
    /\ UNCHANGED <<time, stored, saves, ran>>

\* due_tasks returns dictionaries of a task and its slot, and the loop takes each for a task.
ItemIsTask == FALSE

\* So _run_task catches an exception, the assignment of last_run_at raises a second one, and the
\* watcher loop ends the tick: nothing ran, and nothing is written.
RunDue ==
    /\ tickDue # {}
    /\ IF ItemIsTask
       THEN /\ ran' = ran \cup tickDue
            /\ stored' = [i \in TaskIds |-> IF \E s \in 0..MaxTime : <<i, s>> \in tickDue
                                           THEN [stored[i] EXCEPT !.last = time] ELSE stored[i]]
       ELSE UNCHANGED <<ran, stored>>
    /\ tickDue' = {}
    /\ UNCHANGED <<time, saves, found>>

SchedulerNext ==
    \/ TimePasses \/ BeginRunDue \/ RunDue
    \/ \E i \in TaskIds : SaveTask(i) \/ DeleteTask(i)

-----------------------------------------------------------------------------
(* Properties *)

ScheduleTypeOK ==
    /\ time \in 0..MaxTime /\ saves \in 0..MaxSaves /\ stored \in [TaskIds -> Task]
    /\ {tickDue, ran, found} \subseteq SUBSET (TaskIds \X (0..MaxTime))

\* "Run whatever the clock says is due": what a tick found due has run when the tick is over.
DueTasksRun == tickDue = {} => found \subseteq ran

\* The moment that the schedule shows for a task is one at which the task is then due, and no
\* earlier moment from now on is: the two algorithms agree over midnight, at the slot itself and
\* when the weekdays come round.
ShownSlotComesDue ==
    \A i \in TaskIds :
        LET next == NextRun(stored[i], time)
        IN  /\ next # Never => DueSlots(stored[i], next) = {next}
            /\ \A t \in (time + 1)..(IF next = Never THEN time + WeekLength * DayLength ELSE next - 1) :
                  \A s \in DueSlots(stored[i], t) : s <= time
=============================================================================
