-------------------------------- MODULE Relaunch --------------------------------
(***************************************************************************)
(* Where an account is taken back to when its client ends: the rejoin      *)
(* rules (watchers/rejoin_rules.py) and the service that asks them, once   *)
(* for the restart policy a launch carries and once when a relaunch is     *)
(* dispatched.  One account; a client may name the server it is for.  What *)
(* the monitor does with requests is in ProcessMonitor.                    *)
(***************************************************************************)
EXTENDS Integers

CONSTANTS
    Jobs,           \* servers a launch may name
    Thresholds,     \* values of rejoin_change_server_after
    MaxAttempts,    \* relaunch_max_attempts
    MaxAsks         \* bound: launches and bindings the user asks for

ASSUME RelaunchAssumption == Thresholds \subseteq Nat /\ MaxAttempts \in Nat /\ MaxAsks \in Nat

AnyServer == "any"
ASSUME JobsAssumption == AnyServer \notin Jobs

VARIABLES
    rule,           \* metadata["watcher"] of the account
    knobs,          \* the settings of category watcher
    code,           \* _log_disconnect_codes: what ended the last session
    session,        \* the client of the account: absent, bound to it, or an orphan
    intent,         \* the launch intent the client is bound to
    queued,         \* the queued RestartRequest
    \* histories
    asked,          \* launches and bindings the user asked for
    returns,        \* relaunches, since then, to the server the one before was for
    allowed         \* the relaunch was armed when the user asked

relaunchVars == <<rule, knobs, code, session, intent, queued, asked, returns, allowed>>

(***************************************************************************)
(* The rules.                                                              *)
(***************************************************************************)

\* Classes of the catalog of disconnect codes.  A code that is not in it, or no code at
\* all, may be retried on the same server.
Codes == {"unknown", "idle", "kicked", "shutdown"}
Classify(c) == [retryable |-> c # "kicked", fresh |-> c = "shutdown"]

\* The delay grows with every attempt up to a ceiling and is never below the minimum.
MinDelay == 1
Power(b, e) == LET power[n \in 0..20] == IF n = 0 THEN 1 ELSE b * power[n - 1] IN power[e]
AtMost(x, y) == IF x <= y THEN x ELSE y
AtLeast(x, y) == IF x >= y THEN x ELSE y
Delay(base, factor, spent, ceiling) == AtLeast(AtMost(base * Power(factor, spent), ceiling), MinDelay)

\* A server is given up when it failed, when servers are never kept, or after the threshold.
GivesUp(c, spent, threshold) == Classify(c).fresh \/ threshold = 0 \/ spent + 1 > threshold

\* plan_rejoin, with the place required or not: a refusal names no server.
PlanRejoin(spent, ceiling, c, job, threshold, enabled, placed) ==
    LET change == GivesUp(c, spent, threshold)
        go == enabled /\ spent < ceiling /\ Classify(c).retryable /\ placed
    IN  [go |-> go, attempt |-> IF go THEN spent + 1 ELSE spent, change |-> change,
         job |-> IF go /\ ~ change THEN job ELSE AnyServer]

(***************************************************************************)
(* The service.                                                            *)
(***************************************************************************)

\* A rule of an account.  One that cannot be read counts as watched and not armed.
Rule(readable, watched, auto, triggers) ==
    [readable |-> readable, watched |-> watched, auto |-> auto, triggers |-> triggers]
NoRule == Rule(TRUE, TRUE, FALSE, {"crash"})
SavedRules == [readable : {TRUE}, watched : BOOLEAN, auto : BOOLEAN,
               triggers : {{}, {"crash"}, {"crash", "exit"}}]
BrokenRule == Rule(FALSE, TRUE, TRUE, {"crash"})
Understood(r) == IF r.readable THEN r ELSE NoRule

\* _relaunch_arming_state.
Armed(w, r) ==
    /\ w.watching /\ r.watched /\ r.auto /\ w.relaunches
    /\ r.triggers # {} /\ MaxAttempts > 0

\* _restart_policy_for: settings that make no sense leave the flat delay of the rule.
PolicyFor(spent) ==
    [enabled |-> Armed(knobs, Understood(rule)),
     triggers |-> Understood(rule).triggers,
     delay |-> IF knobs.sound THEN Delay(2, 2, spent, 3) ELSE 2]
NoPolicy == [enabled |-> FALSE, triggers |-> {}, delay |-> 2]

\* _rejoin_plan_for: the plan of a granted relaunch; settings that make no sense keep the server.
PlanFor(request) ==
    IF knobs.sound
    THEN PlanRejoin(request.attempt, 20, code, request.job, knobs.threshold, TRUE, TRUE)
    ELSE PlanRejoin(0, 5, "unknown", AnyServer, 20, TRUE, TRUE)

NoIntentYet == [job |-> AnyServer, attempt |-> 0, policy |-> NoPolicy]
NothingDue == [attempt |-> 0, job |-> AnyServer, policy |-> NoPolicy]

RelaunchInit ==
    /\ rule \in {NoRule, BrokenRule}
    /\ knobs \in [watching : {TRUE}, relaunches : {FALSE}, threshold : Thresholds, sound : BOOLEAN]
    /\ code = "unknown" /\ session = "absent"
    /\ intent = NoIntentYet /\ queued = NothingDue
    /\ asked = 0 /\ returns = 0 /\ allowed = FALSE

\* configure_account_watcher: nothing but the row of the account changes.
ConfigureRule(r) ==
    /\ asked < MaxAsks
    /\ rule' = r
    /\ UNCHANGED <<knobs, code, session, intent, queued, asked, returns, allowed>>

\* update_settings, as far as relaunches read it; what it saves makes sense.
SwitchRelaunches(on) ==
    /\ asked < MaxAsks
    /\ knobs' = [knobs EXCEPT !.relaunches = on]
    /\ UNCHANGED <<rule, code, session, intent, queued, asked, returns, allowed>>

\* The user asks: the policy is made now, for no attempt spent.
Asks(job) ==
    /\ asked < MaxAsks /\ asked' = asked + 1
    /\ intent' = [job |-> job, attempt |-> 0, policy |-> PolicyFor(0)]
    /\ session' = "bound" /\ returns' = 0
    /\ allowed' = Armed(knobs, Understood(rule))
    /\ UNCHANGED <<rule, knobs, code, queued>>

\* launch_account: an account with a client or a relaunch that is due is refused.
LaunchByUser(job) == session = "absent" /\ queued = NothingDue /\ Asks(job)

\* associate_instance: a client that was started elsewhere is bound to the account.
StartElsewhere ==
    /\ session = "absent" /\ queued = NothingDue /\ asked < MaxAsks
    /\ session' = "orphan"
    /\ UNCHANGED <<rule, knobs, code, intent, queued, asked, returns, allowed>>
AssociateInstance(job) == session = "orphan" /\ queued = NothingDue /\ Asks(job)

\* _apply_log_runtime_account_states: how the session of a bound client goes.
LogDisconnected(c) ==
    /\ session = "bound"
    /\ code' = IF c = "unknown" THEN code ELSE c
    /\ UNCHANGED <<rule, knobs, session, intent, queued, asked, returns, allowed>>
LogJoined ==
    /\ session = "bound"
    /\ code' = "unknown"
    /\ UNCHANGED <<rule, knobs, session, intent, queued, asked, returns, allowed>>

\* The client ends; the policy of its intent says whether it comes back.
ClientEnds(how) ==
    /\ session = "bound" /\ session' = "absent"
    /\ queued' = IF intent.policy.enabled /\ how \in intent.policy.triggers /\ intent.attempt < MaxAttempts
              THEN [attempt |-> intent.attempt + 1, job |-> intent.job, policy |-> intent.policy]
              ELSE queued
    /\ UNCHANGED <<rule, knobs, code, intent, asked, returns, allowed>>
OrphanEnds ==
    /\ session = "orphan" /\ session' = "absent"
    /\ UNCHANGED <<rule, knobs, code, intent, queued, asked, returns, allowed>>

\* _dispatch_due_restarts: a request is consumed whether or not a client starts.
RelaunchAs(request) ==
    LET job == IF PlanFor(request).change THEN AnyServer ELSE request.job
    IN  /\ intent' = [job |-> job, attempt |-> request.attempt, policy |-> request.policy]
        /\ returns' = IF job # AnyServer THEN returns + 1 ELSE returns
        /\ session' = "bound"
DispatchDue ==
    /\ queued # NothingDue /\ queued' = NothingDue
    /\ \/ RelaunchAs(queued)
       \/ UNCHANGED <<intent, returns, session>>
    /\ UNCHANGED <<rule, knobs, code, asked, allowed>>

RelaunchNext ==
    \/ \E r \in SavedRules : ConfigureRule(r)
    \/ \E on \in BOOLEAN : SwitchRelaunches(on)
    \/ \E job \in Jobs \cup {AnyServer} : LaunchByUser(job) \/ AssociateInstance(job)
    \/ StartElsewhere \/ OrphanEnds
    \/ \E c \in Codes : LogDisconnected(c)
    \/ LogJoined
    \/ \E how \in {"crash", "exit"} : ClientEnds(how)
    \/ DispatchDue

RelaunchSpec == RelaunchInit /\ [][RelaunchNext]_relaunchVars

(***************************************************************************)
(* Properties.                                                             *)
(***************************************************************************)

RelaunchTypeOK ==
    /\ rule \in SavedRules \cup {BrokenRule}
    /\ knobs \in [watching : BOOLEAN, relaunches : BOOLEAN, threshold : Thresholds, sound : BOOLEAN]
    /\ code \in Codes /\ session \in {"absent", "bound", "orphan"}
    /\ intent.job \in Jobs \cup {AnyServer} /\ queued.job \in Jobs \cup {AnyServer}
    /\ intent.attempt \in 0..MaxAttempts /\ queued.attempt \in 0..MaxAttempts
    /\ intent.policy.delay \in 1..3 /\ queued.policy.delay \in 1..3

\* However often the client ends, it is not sent back to one server more often than the
\* user allowed, unless the settings make no sense.
ServersAreGivenUp == knobs.sound => returns <= knobs.threshold

\* What comes due was armed for the account, by its rule and by the settings, when the user
\* last asked for it, and a rule that cannot be read arms nothing.
OnlyWhatWasArmed == queued # NothingDue => allowed /\ queued.policy.enabled

\* A relaunch after the server itself failed never names that server.
FailedServerIsLeft ==
    [][knobs.sound /\ code = "shutdown" /\ queued # NothingDue /\ session' = "bound" /\ intent'.attempt > 0
        => intent'.job = AnyServer]_relaunchVars
=============================================================================
