---------------------------- MODULE FleetAutomation ----------------------------
(***************************************************************************)
(* What happens to macros without anybody clicking, and how                *)
(* the user stops it: the tick of the watcher thread (_watcher_tick in     *)
(* services/application_service.py) with its relaunches, pressure rules,   *)
(* macro ledger and macro resumes, the emergency stop of                   *)
(* services/fleet_features.py, and the macro controls of the user.         *)
(*                                                                         *)
(* A macro run is reduced to what other threads see of it: whether its     *)
(* thread acts, is parked by a pause or has finished, and its cancel and   *)
(* resumed events.  Macros run on one window at a time (the flag           *)
(* multi_window_macros is off, its default); dry runs are left out.        *)
(***************************************************************************)
EXTENDS Naturals, FiniteSets, FiniteSetsExt

CONSTANTS
    Accounts,   \* local account ids
    Macros,     \* stored macros
    Users,      \* bridge threads
    Watcher,    \* the watcher thread
    Nobody,     \* no macro is known for an account
    MaxRuns,    \* bound: macro runs
    MaxListed,  \* list_runs shows the newest so many runs (100)
    MaxStops,   \* bound: emergency stops
    MaxDecisions \* decisions of one evaluation of the rules (100)

ASSUME FleetAssumption ==
    /\ Watcher \notin Users /\ Nobody \notin Macros \cup Accounts
    /\ MaxRuns \in Nat /\ MaxListed \in Nat /\ MaxStops \in Nat
    /\ MaxDecisions \in Nat \ {0}

Threads == Users \cup {Watcher}
Run     == 1 .. MaxRuns      \* in the order the runs started
Loads   == {"high", "released", "between"}

VARIABLES
    watching,  \* does the watcher run?  (WatcherLoop says when)
    client,    \* accounts with a verified client
    due,       \* accounts whose relaunch is due
    covered,   \* accounts in the groups the rules cover (group_ids)
    run,       \* run[r]: a MacroRun, as other threads see it
    runs,      \* number of runs started
    start,     \* start[t]: the macro a thread is about to start, past the capacity check
    armed,     \* the setting rules.enabled
    byRule,    \* _rule_paused_runs
    last,      \* last[a]: state["last_macro"]
    resume,    \* resume[a]: the macro in state["resume"]
    tick,      \* local variables of the watcher's tick
    halt,      \* halt[u]: local variables of an emergency stop
    stops,     \* number of emergency stops
    human,     \* history: runs whose last pause or resume by the user was a pause
    quiet      \* history: an emergency stop is under way ("stopping"), has returned ("soon"), and
               \* a new tick has begun since ("yes"); "no" once the user asks for something else

world   == <<client, due, covered>>
macros  == <<run, runs, start>>
memory  == <<armed, byRule, last, resume>>
asked   == <<halt, stops, human, quiet>>
vars    == <<world, macros, memory, tick, asked>>

-----------------------------------------------------------------------------
NoRun   == [state |-> "none", account |-> Nobody, macro |-> Nobody, cancel |-> FALSE, paused |-> FALSE]
NoStart == [account |-> Nobody, macro |-> Nobody]
NoTick  == [pc |-> "scan", todo |-> {}]
NoHalt  == [pc |-> "idle", todo |-> {}, before |-> {}]

Live == {r \in Run : run[r].state \in {"acting", "parked"}}

\* list_runs: newest first, so many of them.
Listed == {r \in Run : r <= runs /\ runs - r < MaxListed}

\* _require_single_window_capacity
Busy == Live # {}

\* Anything the user asks for ends the quiet after an emergency stop.
UserActs == quiet' = "no"

-----------------------------------------------------------------------------
(* Clients and macro threads. *)

ClientSeen(a) ==
    /\ a \notin client
    /\ client' = client \cup {a}
    /\ UNCHANGED <<due, covered, macros, memory, tick, asked>>

\* A client goes; with a relaunch policy its account is due for a relaunch.
ClientGone(a) ==
    /\ a \in client
    /\ client' = client \ {a}
    /\ due' \in {due, due \cup {a}}
    /\ UNCHANGED <<covered, macros, memory, tick, asked>>

\* The thread of a run looks at its events before each action.  A pause parks it there ...
Parks(r) ==
    /\ run[r].state = "acting" /\ run[r].paused /\ ~ run[r].cancel
    /\ run' = [run EXCEPT ![r].state = "parked"]
    /\ UNCHANGED <<world, runs, start, memory, tick, asked>>

\* ... until it is resumed or cancelled.
Hears(r) == ~ run[r].paused \/ run[r].cancel
Wakes(r) ==
    /\ run[r].state = "parked" /\ Hears(r)
    /\ run' = [run EXCEPT ![r].state = "acting"]
    /\ UNCHANGED <<world, runs, start, memory, tick, asked>>

\* The run completes, fails, or hears that it is cancelled.  Nobody reads the events of a
\* run that has ended.
RunEnds(r) ==
    /\ run[r].state = "acting"
    /\ run' = [run EXCEPT ![r].state = "ended", ![r].cancel = FALSE, ![r].paused = FALSE]
    /\ human' = human \ {r}
    /\ UNCHANGED <<world, runs, start, memory, tick, halt, stops, quiet>>

-----------------------------------------------------------------------------
(* MacroEngine *)

Mentioned(t) == start[t].macro # Nobody

\* start: the capacity check ...
Checked(t, a, m) ==
    /\ ~ Mentioned(t)
    /\ a \in client
    /\ ~ Busy
    /\ start' = [start EXCEPT ![t] = [account |-> a, macro |-> m]]

\* ... and, after the window was verified, the registration of the run.
Registered(t) ==
    /\ Mentioned(t)
    /\ runs < MaxRuns
    /\ runs' = runs + 1
    /\ run' = [run EXCEPT ![runs + 1] = [NoRun EXCEPT !.state = "acting", !.account = start[t].account,
                                                      !.macro = start[t].macro]]
    /\ start' = [start EXCEPT ![t] = NoStart]

\* The window could not be verified.
StartFails(t) ==
    /\ Mentioned(t)
    /\ start[t].account \notin client \/ runs = MaxRuns
    /\ start' = [start EXCEPT ![t] = NoStart]
    /\ UNCHANGED <<run, runs>>

MarksStopped(r) == IF r \in Live THEN [run EXCEPT ![r].state = "stopped"] ELSE run

\* stop also releases a paused run.
Stopped(r) == IF r \in Live THEN [run EXCEPT ![r].cancel = TRUE, ![r].paused = FALSE] ELSE run

StartMacro(u, a, m) ==
    /\ u \in Users /\ halt[u].pc = "idle"
    /\ Checked(u, a, m)
    /\ UserActs
    /\ UNCHANGED <<world, run, runs, memory, tick, halt, stops, human>>

UserStarts(u) ==
    /\ u \in Users
    /\ Registered(u) \/ StartFails(u)
    /\ UserActs
    /\ UNCHANGED <<world, memory, tick, halt, stops, human>>

StopMacro(r) ==
    /\ r \in Live /\ ~ run[r].cancel
    /\ run' = Stopped(r)
    /\ human' = human \ {r}
    /\ UserActs
    /\ UNCHANGED <<world, runs, start, memory, tick, halt, stops>>

PauseMacro(r) ==
    /\ r \in Live
    /\ run' = [run EXCEPT ![r].paused = TRUE]
    /\ human' = human \cup {r}
    /\ UserActs
    /\ UNCHANGED <<world, runs, start, memory, tick, halt, stops>>

ResumeMacro(r) ==
    /\ r \in Live
    /\ run' = [run EXCEPT ![r].paused = FALSE]
    /\ human' = human \ {r}
    /\ UserActs
    /\ UNCHANGED <<world, runs, start, memory, tick, halt, stops>>

-----------------------------------------------------------------------------
(* emergency_stop *)

ToStopRunning == {r \in Live \cap Listed : ~ run[r].paused}
ToStop == Live \cap Listed

BeginHalt(u) ==
    /\ u \in Users
    /\ halt[u].pc = "idle" /\ ~ Mentioned(u)
    /\ stops < MaxStops
    /\ stops' = stops + 1
    /\ halt' = [halt EXCEPT ![u] = [pc |-> "macros", todo |-> ToStop, before |-> Live]]
    /\ quiet' = IF \A v \in Users : halt[v].pc = "idle" /\ ~ Mentioned(v) THEN "stopping" ELSE "no"
    /\ UNCHANGED <<world, macros, memory, tick, human>>

\* stop_all_macros: the runs listed as unfinished, one after the other.
HaltMacro(u, r) ==
    /\ halt[u].pc = "macros" /\ r \in halt[u].todo
    /\ run' = Stopped(r)
    /\ halt' = [halt EXCEPT ![u].todo = @ \ {r}]
    /\ human' = human \ {r}
    /\ UNCHANGED <<world, runs, start, memory, tick, stops, quiet>>

\* The queue of the batch launcher is cancelled (CancelBatch of BatchLauncher) and the
\* pending resumes are cleared; then the rules are disarmed.
HaltResumes(u) ==
    /\ halt[u].pc = "macros" /\ halt[u].todo = {}
    /\ resume' = [a \in Accounts |-> Nobody]
    /\ halt' = [halt EXCEPT ![u].pc = "rules"]
    /\ UNCHANGED <<world, macros, armed, byRule, last, tick, stops, human, quiet>>

HaltRules(u) ==
    /\ halt[u].pc = "rules"
    /\ armed' = FALSE
    /\ halt' = [halt EXCEPT ![u].pc = "returns"]
    /\ UNCHANGED <<world, macros, byRule, last, resume, tick, stops, human, quiet>>

HaltReturns(u) ==
    /\ halt[u].pc = "returns"
    /\ halt' = [halt EXCEPT ![u] = NoHalt]
    /\ quiet' = IF quiet = "stopping" THEN "soon" ELSE quiet
    /\ UNCHANGED <<world, macros, memory, tick, stops, human>>

-----------------------------------------------------------------------------
(* _watcher_tick: relaunches, rules, ledger, resumes, in this order. *)

\* The watcher goes on with its tick only when a call of start_macro has returned.
At(pc) == tick.pc = pc /\ ~ Mentioned(Watcher)

\* _dispatch_due_restarts claims what is due.
BeginTick ==
    /\ watching /\ At("scan")
    /\ tick' = [pc |-> "relaunch", todo |-> due]
    /\ due' = {}
    /\ quiet' = IF quiet = "soon" THEN "yes" ELSE quiet
    /\ UNCHANGED <<client, covered, macros, memory, halt, stops, human>>

\* launch_account accepts the relaunch, and the macro of the account is to be resumed; or
\* the relaunch fails.
Relaunch(a, accepted) ==
    /\ At("relaunch") /\ a \in tick.todo
    /\ tick' = [tick EXCEPT !.todo = @ \ {a}]
    /\ resume' = IF accepted /\ last[a] # Nobody THEN [resume EXCEPT ![a] = last[a]] ELSE resume
    /\ UNCHANGED <<world, macros, armed, byRule, last, asked>>

\* _account_facts knows one live run for each account with a client: the oldest listed one.
Known == {r \in Live \cap Listed : /\ run[r].account \in client
                                   /\ \A s \in Live \cap Listed : run[s].account = run[r].account => s >= r}

\* _decide: at most one action for each account the rules cover.  marked: the runs that meet
\* the limit the user has set, a priority low enough to be paused or a macro stuck so long.
Decision(r, load, marked) ==
    CASE run[r].account \notin covered -> "none"
      [] load = "high"     /\ ~ run[r].paused /\ r \in marked -> "pause"
      [] load = "released" /\ run[r].paused /\ r \in byRule -> "resume"
      [] load # "high"     /\ ~ run[r].paused /\ r \in marked -> "restart"
      [] OTHER -> "none"

\* The decisions of one evaluation.  It goes through the accounts by priority and ends with
\* the last decision allowed; a recommendation, which only the user applies, counts too.
Crowded == Cardinality(client \cap covered) > MaxDecisions
Decisions(load, marked) ==
    LET all == {d \in Known \X {"pause", "resume", "restart"} : d[2] = Decision(d[1], load, marked)}
    IN  IF Crowded THEN {part \in SUBSET all : Cardinality(part) <= MaxDecisions} ELSE {all}

\* What a rule paused and is gone by now is forgotten, but only while the rules are armed.
ForgetsWhenOff == IF armed THEN byRule \cap Live ELSE {}
StillByRule == IF armed THEN byRule \cap Live ELSE byRule

\* evaluate_rules
EvaluateRules(load, marked) ==
    /\ At("relaunch") /\ tick.todo = {}
    /\ \E todo \in IF armed THEN Decisions(load, marked) ELSE {{}} :
         tick' = [pc |-> "rules", todo |-> todo]
    /\ byRule' = StillByRule
    /\ UNCHANGED <<world, macros, armed, last, resume, asked>>

\* _apply_rule_decision.  A run that has finished meanwhile cannot be paused or resumed.
RulePauses(r) ==
    /\ At("rules") /\ <<r, "pause">> \in tick.todo
    /\ tick' = [tick EXCEPT !.todo = @ \ {<<r, "pause">>}]
    /\ IF r \in Live THEN run' = [run EXCEPT ![r].paused = TRUE] /\ byRule' = byRule \cup {r}
                     ELSE UNCHANGED <<run, byRule>>
    /\ UNCHANGED <<world, runs, start, armed, last, resume, asked>>

RuleResumes(r) ==
    /\ At("rules") /\ <<r, "resume">> \in tick.todo
    /\ tick' = [tick EXCEPT !.todo = @ \ {<<r, "resume">>}]
    /\ IF r \in Live THEN run' = [run EXCEPT ![r].paused = FALSE] /\ byRule' = byRule \ {r}
                     ELSE UNCHANGED <<run, byRule>>
    /\ UNCHANGED <<world, runs, start, armed, last, resume, asked>>

\* A stuck macro is stopped, and then started anew if its thread has ended by then.
RuleStops(r) ==
    /\ At("rules") /\ <<r, "restart">> \in tick.todo
    /\ run' = Stopped(r)
    /\ byRule' = byRule \ {r}
    /\ tick' = [tick EXCEPT !.todo = (@ \ {<<r, "restart">>}) \cup {<<r, "start">>}]
    /\ UNCHANGED <<world, runs, start, armed, last, resume, asked>>

RuleStarts(r) ==
    /\ At("rules") /\ <<r, "start">> \in tick.todo
    /\ tick' = [tick EXCEPT !.todo = @ \ {<<r, "start">>}]
    /\ \/ Checked(Watcher, run[r].account, run[r].macro)
       \/ (Busy \/ run[r].account \notin client) /\ UNCHANGED start
    /\ UNCHANGED <<world, run, runs, memory, asked>>

WatcherStarts ==
    /\ Registered(Watcher) \/ StartFails(Watcher)
    /\ resume' = IF tick.pc = "resumes" /\ runs' > runs
                 THEN [resume EXCEPT ![start[Watcher].account] = Nobody] ELSE resume
    /\ UNCHANGED <<world, armed, byRule, last, tick, asked>>

\* _update_macro_ledger: goes through the listed runs from the newest to the oldest.
Remembered(a) == {r \in Listed : run[r].account = a}
UpdateLedger ==
    /\ At("rules") /\ tick.todo = {}
    /\ last' = [a \in Accounts |-> IF Remembered(a) = {} THEN last[a] ELSE run[Min(Remembered(a))].macro]
    /\ tick' = [pc |-> "resumes", todo |-> {<<a, resume[a]>> : a \in {b \in Accounts : resume[b] # Nobody}}]
    /\ UNCHANGED <<world, macros, armed, byRule, resume, asked>>

\* _dispatch_macro_resumes: the request read at the start is what counts.
ResumeStarts(a, m) ==
    /\ At("resumes") /\ <<a, m>> \in tick.todo
    /\ Checked(Watcher, a, m)
    /\ tick' = [tick EXCEPT !.todo = @ \ {<<a, m>>}]
    /\ UNCHANGED <<world, run, runs, memory, asked>>

\* No client yet, or a macro is running: later.  After 40 attempts or 15 minutes: never.
ResumeWaits(a, m) ==
    /\ At("resumes") /\ <<a, m>> \in tick.todo
    /\ tick' = [tick EXCEPT !.todo = @ \ {<<a, m>>}]
    /\ \/ (a \notin client \/ Busy) /\ UNCHANGED resume
       \/ resume' = [resume EXCEPT ![a] = Nobody]
    /\ UNCHANGED <<world, macros, armed, byRule, last, asked>>

EndTick ==
    /\ At("resumes") /\ tick.todo = {}
    /\ tick' = NoTick
    /\ UNCHANGED <<world, macros, memory, asked>>

-----------------------------------------------------------------------------
\* The user arms or disarms the rules.
SetRules ==
    /\ armed' = ~ armed
    /\ UserActs
    /\ UNCHANGED <<world, macros, byRule, last, resume, tick, halt, stops, human>>

\* The user chooses other groups for the rules, or puts an account into another group.
Regroup(accounts) ==
    /\ covered' = accounts
    /\ UNCHANGED <<client, due, macros, memory, tick, asked>>

Init ==
    /\ watching \in BOOLEAN
    /\ client = {} /\ due = {} /\ covered \in SUBSET Accounts
    /\ run = [r \in Run |-> NoRun] /\ runs = 0
    /\ start = [t \in Threads |-> NoStart]
    /\ armed \in BOOLEAN /\ byRule = {}
    /\ last = [a \in Accounts |-> Nobody] /\ resume = [a \in Accounts |-> Nobody]
    /\ tick = NoTick
    /\ halt = [u \in Users |-> NoHalt] /\ stops = 0
    /\ human = {} /\ quiet = "no"

Groups == \E accounts \in SUBSET Accounts : Regroup(accounts)

Clients == \E a \in Accounts : ClientSeen(a) \/ ClientGone(a)

UserMacro ==
    \/ \E u \in Users : \/ UserStarts(u)
                        \/ \E a \in Accounts, m \in Macros : StartMacro(u, a, m)
    \/ \E r \in Run : StopMacro(r) \/ PauseMacro(r) \/ ResumeMacro(r)

Halt(u) ==
    \/ BeginHalt(u)
    \/ \E r \in Run : HaltMacro(u, r)
    \/ HaltResumes(u) \/ HaltRules(u) \/ HaltReturns(u)

Tick ==
    \/ BeginTick
    \/ \E a \in Accounts, accepted \in BOOLEAN : Relaunch(a, accepted)
    \/ \E load \in Loads, marked \in SUBSET Known : EvaluateRules(load, marked)
    \/ \E r \in Run : RulePauses(r) \/ RuleResumes(r) \/ RuleStops(r) \/ RuleStarts(r)
    \/ WatcherStarts
    \/ UpdateLedger
    \/ \E a \in Accounts, m \in Macros : ResumeStarts(a, m) \/ ResumeWaits(a, m)
    \/ EndTick

Next ==
    /\ UNCHANGED watching
    /\ \/ Clients
       \/ \E r \in Run : Parks(r) \/ Wakes(r) \/ RunEnds(r)
       \/ UserMacro \/ SetRules
       \/ Groups
       \/ \E u \in Users : Halt(u)
       \/ Tick

Spec == Init /\ [][Next]_<<watching, vars>>

\* The tick goes on and on, the machine is not busy for ever at the moment it asks, and
\* a call of the user returns.
FleetFairness ==
    /\ WF_vars(Tick)
    /\ SF_vars(\E marked \in SUBSET Known : EvaluateRules("released", marked))
    /\ \A u \in Users : WF_vars(UserStarts(u) \/ (halt[u].pc # "idle" /\ Halt(u)))
    /\ \A r \in Run : WF_vars(Wakes(r) \/ (run[r].cancel /\ RunEnds(r)))

-----------------------------------------------------------------------------
(* Properties *)

\* Every variable has the shape the code gives it.
TypeOK ==
    /\ client \cup due \cup covered \subseteq Accounts
    /\ run \in [Run -> [state : {"none", "acting", "parked", "ended"}, account : Accounts \cup {Nobody},
                       macro : Macros \cup {Nobody}, cancel : BOOLEAN, paused : BOOLEAN]]
    /\ runs \in 0 .. MaxRuns /\ stops \in 0 .. MaxStops
    /\ start \in [Threads -> [account : Accounts \cup {Nobody}, macro : Macros \cup {Nobody}]]
    /\ {armed, watching} \subseteq BOOLEAN /\ quiet \in {"no", "stopping", "soon", "yes"}
    /\ byRule \cup human \subseteq Run
    /\ last \in [Accounts -> Macros \cup {Nobody}]
    /\ resume \in [Accounts -> Macros \cup {Nobody}]
    /\ tick.pc \in {"scan", "relaunch", "rules", "resumes"}
    /\ halt \in [Users -> [pc : {"idle", "macros", "rules", "returns"},
                          todo : SUBSET Run, before : SUBSET Run]]

\* "Stop every macro and every queued launch in one gesture": when the emergency stop
\* returns, each macro run that was at work when it was called has been told to stop, whatever
\* was paused, resumed, started or ended meanwhile.
StopReachesAll ==
    \A u \in Users : halt[u].pc = "returns" =>
        \A r \in halt[u].before : run[r].cancel \/ run[r].state = "ended"

\* Hysteresis must not strand a macro: if the rules stay armed and go on to cover its account,
\* its client stays and one evaluation can decide for all clients, a run that no human paused
\* does not stay paused for ever.
RulePausesEnd ==
    \A r \in Run :
        <>[](armed /\ run[r].account \in client \cap covered /\ ~ Crowded) =>
            ~ <>[](r \in Live /\ run[r].paused /\ r \notin human)

\* A run that was told to stop ends, also when it is paused.
StoppedRunsEnd == \A r \in Run : (run[r].cancel /\ r \in Live) ~> r \notin Live

\* "Otherwise a relaunch rule would quietly undo this stop a few seconds later": after an
\* emergency stop, and the tick it may have come into, no macro starts until the user asks
\* for something.
StopStays == [][quiet = "yes" /\ quiet' = "yes" => runs' = runs]_vars

=============================================================================
