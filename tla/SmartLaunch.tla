------------------------------- MODULE SmartLaunch -------------------------------
(***************************************************************************)
(* The smart launcher and the resource policy: watchers/launch_planner.py  *)
(* puts accounts in order, in waves, and leaves some alone;                *)
(* watchers/resource_plan.py decides about frames and memory; the service  *)
(* measures the machine, asks both, and hands a plan to the batch          *)
(* launcher.  Clients come and go while it does.                           *)
(***************************************************************************)
EXTENDS Integers, SequencesExt, RowOrder

CONSTANTS
    Ids,            \* accounts
    Requests,       \* lists of accounts a caller may ask for
    WaveSizes,      \* values of launcher.max_concurrent
    PlannedAccounts,    \* MAX_PLANNED_ACCOUNTS
    PlannedWindows,     \* MAX_PLANNED_INSTANCES
    MaxChanges      \* bound: clients that come or go while a call is under way

ASSUME SmartLaunchAssumption ==
    /\ Requests \subseteq Seq(Ids) /\ WaveSizes \subseteq Nat \ {0}
    /\ PlannedAccounts \in Nat /\ PlannedWindows \in Nat

VARIABLES
    config,         \* the settings of the launcher and of the resources
    opened,        \* the clients, as the monitor lists them
    machine,        \* what psutil measures
    starter,        \* start_smart_launch, plan_smart_launch or apply_resource_plan
    batch,          \* what the batch launcher was given
    cap,            \* the frame cap in the file of Roblox
    changes

smartVars == <<config, opened, machine, starter, batch, cap, changes>>

(***************************************************************************)
(* plan_launches                                                           *)
(***************************************************************************)

NoPlan == [steps |-> <<>>, skipped |-> <<>>]
SkipsRunning(c, id, running) == c.skip /\ id \in running

\* One account of the request after the other.
Named(plan) == {plan.steps[i].id : i \in DOMAIN plan.steps} \cup {plan.skipped[i].id : i \in DOMAIN plan.skipped}
Skip(plan, id, why) == [plan EXCEPT !.skipped = Append(@, [id |-> id, why |-> why])]
Step(plan, id, c) ==
    LET index == Len(plan.steps)
        wave == index \div c.size
        position == index % c.size
    IN  [plan EXCEPT !.steps = Append(@, [id |-> id, wave |-> wave, position |-> position,
                                          after |-> (wave * c.size + position) * c.delay])]
Seen(plan, id) == id \in Named(plan)

PlanOne(plan, id, running, c) ==
    IF Seen(plan, id) THEN Skip(plan, id, "duplicate")
    ELSE IF SkipsRunning(c, id, running) THEN Skip(plan, id, "already_running")
    ELSE IF Len(plan.steps) >= PlannedAccounts THEN Skip(plan, id, "over_limit")
    ELSE Step(plan, id, c)

PlanLaunches(request, running, c) == FoldLeft(LAMBDA plan, id : PlanOne(plan, id, running, c), NoPlan, request)

(***************************************************************************)
(* plan_resources.  Frames: a watched window deserves most, one with a     *)
(* macro less, an idle one least, unless the user set them otherwise.      *)
(***************************************************************************)

Listed == SubSeq(opened, 1, IF Len(opened) <= PlannedWindows THEN Len(opened) ELSE PlannedWindows)

Target(window, watched, c) ==
    IF window.pid = watched THEN c.watchedFps ELSE IF window.macro THEN c.macroFps ELSE c.idleFps
FpsTargets(watched, c) == {Target(Listed[i], watched, c) : i \in DOMAIN Listed}

NoCap == 0
LeastDemanding(fps) == CHOOSE f \in fps : \A g \in fps : f <= g     \* a plausible mistake
MostDemanding(fps) == CHOOSE f \in fps : \A g \in fps : f >= g
AppliedFps(watched, c) ==
    IF c.adaptive /\ Listed # <<>> THEN MostDemanding(FpsTargets(watched, c)) ELSE NoCap

\* The watchdog: unmeasured memory keeps it quiet.
Unmeasured == -1
Level(c) ==
    IF machine.percent = Unmeasured \/ machine.percent < c.warn THEN "ok"
    ELSE IF machine.percent >= c.critical THEN "critical" ELSE "warn"

\* How many clients still fit: each takes what the measured ones take on average.
Sizes == {i \in DOMAIN Listed : Listed[i].size > 0}
Measured == IF Sizes = {} THEN 0 ELSE FoldFunctionOnSet(+, 0, [i \in DOMAIN Listed |-> Listed[i].size], Sizes)
                                       \div Cardinality(Sizes)
WholeMemory(c) == machine.available     \* a plausible mistake
Usable(c) == machine.available - c.reserve
Capacity(c) ==
    LET each == IF Measured > 0 THEN Measured ELSE c.average
    IN  IF machine.available <= 0 THEN Unmeasured ELSE IF Usable(c) <= 0 THEN 0 ELSE Usable(c) \div each

(***************************************************************************)
(* The service.                                                            *)
(***************************************************************************)

RunningIds == {opened[i].id : i \in DOMAIN opened} \ {"nobody"}
IdleStarter == [at |-> "idle", plan |-> NoPlan, request |-> <<>>, running |-> {}]

\* validated_launcher_settings and validated_resource_settings accept these.
Accepted(c) == c.size \in WaveSizes /\ c.critical >= c.warn

\* Clients as they come: of an account or not, with a macro or not, measured or not.
Client(id, macro, size) == [id |-> id, macro |-> macro, size |-> size]
Clients == {Client(id, TRUE, 1) : id \in Ids} \cup {Client("nobody", FALSE, 3), Client("nobody", FALSE, 0)}

SmartInit ==
    /\ config \in {c \in [size : WaveSizes, delay : {2}, skip : BOOLEAN, adaptive : BOOLEAN,
                          watchedFps : {60}, macroFps : {20}, idleFps : {5},
                          warn : {2}, critical : {3}, reserve : {2}, average : {1}] : Accepted(c)}
    /\ opened = <<>>
    /\ machine = [percent |-> Unmeasured, available |-> 0]
    /\ starter = IdleStarter /\ batch = <<>> /\ cap = NoCap /\ changes = 0

\* Clients come and go, macros start and end, memory fills up.
Pids == {opened[i].pid : i \in DOMAIN opened}
ClientComes(w) ==
    /\ changes < MaxChanges /\ changes' = changes + 1
    /\ \E pid \in 1..3 \ Pids :
          /\ \A p \in 1..(pid - 1) : p \in Pids
          /\ opened' = Append(opened, [pid |-> pid, id |-> w.id, macro |-> w.macro, size |-> w.size])
    /\ UNCHANGED <<config, machine, starter, batch, cap>>
ClientGoes(i) ==
    /\ changes < MaxChanges /\ changes' = changes + 1
    /\ opened' = RemoveAt(opened, i)
    /\ UNCHANGED <<config, machine, starter, batch, cap>>
Measures(percent, available) ==
    /\ machine' = [percent |-> percent, available |-> available]
    /\ UNCHANGED <<config, opened, starter, batch, cap, changes>>

\* _smart_launch_plan, on behalf of a preview or of a launch.
SmartLaunchPlan(request) ==
    /\ starter.at = "idle" /\ batch = <<>> /\ request # <<>>
    /\ starter' = [at |-> "planned", plan |-> PlanLaunches(request, RunningIds, config),
                   request |-> request, running |-> RunningIds]
    /\ UNCHANGED <<config, opened, machine, batch, cap, changes>>

\* plan_smart_launch shows the plan and what the watchdog would do.
PlanSmartLaunch ==
    /\ starter.at = "planned"
    /\ starter' = IdleStarter
    /\ UNCHANGED <<config, opened, machine, batch, cap, changes>>

\* start_smart_launch: nothing left to launch, or no memory, refuses; the batch launcher gets
\* the order and the delay, and refuses while it works.
Vetoes == Level(config) = "critical"
StartSmartLaunch ==
    /\ starter.at = "planned"
    /\ starter' = IdleStarter
    /\ batch' = IF starter.plan.steps = <<>> \/ Vetoes THEN batch
                ELSE [i \in DOMAIN starter.plan.steps |-> starter.plan.steps[i].id]
    /\ UNCHANGED <<config, opened, machine, cap, changes>>

\* The batch launcher ends; what it launches is in ClientComes.
BatchEnds ==
    /\ batch # <<>> /\ batch' = <<>>
    /\ UNCHANGED <<config, opened, machine, starter, cap, changes>>

\* apply_resource_plan, for the window the user looks at.
ApplyResourcePlan(watched) ==
    /\ starter.at = "idle"
    /\ LET fps == AppliedFps(watched, config)
       IN  cap' = IF fps = NoCap THEN cap ELSE fps
    /\ UNCHANGED <<config, opened, machine, starter, batch, changes>>

SmartNext ==
    \/ \E w \in Clients : ClientComes(w)
    \/ \E i \in DOMAIN opened : ClientGoes(i)
    \/ Measures(Unmeasured, 0) \/ Measures(1, 9) \/ Measures(2, 4) \/ Measures(3, 1)
    \/ \E request \in Requests : SmartLaunchPlan(request)
    \/ PlanSmartLaunch \/ StartSmartLaunch \/ BatchEnds
    \/ \E watched \in 0..3 : ApplyResourcePlan(watched)

(***************************************************************************)
(* Properties.                                                             *)
(***************************************************************************)

SmartTypeOK ==
    /\ Accepted(config) /\ Len(opened) <= 3
    /\ machine.percent \in -1..3 /\ machine.available \in 0..9
    /\ starter.at \in {"idle", "planned"}
    /\ batch \in Seq(Ids) /\ cap \in Nat

\* Said without the loop: the accounts to launch are the first ones of the request that are
\* asked for once and not running, as many as a plan may hold.
FirstTime(s, i) == \A j \in 1..(i - 1) : s[j] # s[i]
Wanted(request, running, c) ==
    Taken(request, {i \in DOMAIN request : FirstTime(request, i) /\ ~ (c.skip /\ request[i] \in running)})

\* A plan launches whom it should, in the order asked for, tells of everybody else exactly
\* once for each time he was asked for, fills one wave after the other and never starts two
\* accounts at once.
PlanIsRight ==
    starter.at = "planned" =>
        LET steps == starter.plan.steps
            wanted == Wanted(starter.request, starter.running, config)
        IN  /\ Len(steps) = (IF Len(wanted) <= PlannedAccounts THEN Len(wanted) ELSE PlannedAccounts)
            /\ \A i \in DOMAIN steps : steps[i].id = wanted[i]
            /\ Len(steps) + Len(starter.plan.skipped) = Len(starter.request)
            /\ \A i, j \in DOMAIN steps : i < j => /\ steps[i].after < steps[j].after
                                                   /\ steps[i].wave <= steps[j].wave
            /\ \A w \in 0..Len(steps) :
                  LET wave == {i \in DOMAIN steps : steps[i].wave = w}
                  IN  /\ Cardinality(wave) <= config.size
                      /\ wave # {} /\ Cardinality(wave) < config.size => \A i \in DOMAIN steps : steps[i].wave <= w

\* As many clients as are said to fit leave the reserve alone.
CapacityFits ==
    Capacity(config) > 0 =>
        Capacity(config) * (IF Measured > 0 THEN Measured ELSE config.average) + config.reserve
            <= machine.available

\* No batch starts while memory is critical, and none starts an account twice.
VetoHolds ==
    [][batch' # batch /\ batch' # <<>> => Level(config) # "critical" /\ IsInjective(batch')]_smartVars

\* The one cap never throttles a window that is open and planned for.
NobodyIsThrottled ==
    [][\A watched \in 0..3 : cap' # cap /\ ApplyResourcePlan(watched) =>
          \A i \in DOMAIN Listed : cap' >= Target(Listed[i], watched, config)]_smartVars
=============================================================================
