---------------------------- MODULE ProcessMonitor ----------------------------
(***************************************************************************)
(* RobloxProcessMonitor (app/backend/watchers/process_monitor.py): the     *)
(* local state machine that associates Roblox client processes with the    *)
(* accounts that launched them, detects exits and crashes, and queues      *)
(* bounded opt-in relaunches.                                              *)
(*                                                                         *)
(* Three kinds of threads call it: scanners (the watcher loop and any      *)
(* bridge call that forces a scan), terminators (a requested close) and    *)
(* the service (register, cancel, forget, bind, claim).  A scan observes   *)
(* the operating system OUTSIDE `_lock` and commits under it; a close      *)
(* reads the tracked record in one critical section, verifies the process  *)
(* unlocked, and writes the record back in another.  Those two windows are *)
(* kept as separate steps; everything done under one `_lock` section is    *)
(* atomic for the other callers.                                           *)
(***************************************************************************)
EXTENDS Integers, FiniteSets

CONSTANTS
    Pids,          \* operating system PIDs (reused after an exit)
    Accounts,      \* local account ids
    Policies,      \* restart policies a launch may carry
    Scanners,      \* threads that may call scan()
    Terminators,   \* threads that may call terminate_known_process()
    NoIntent,      \* "launch_intent is None"
    MatchTimeout,  \* launch_match_timeout_seconds, in clock ticks
    MatchSlack,    \* the 5 s a process may predate its intent, in ticks
    CrashWindow,   \* crash_window_seconds, in ticks
    MaxPending,    \* max_pending: intents and, separately, restarts
    MaxTracked,    \* max_tracked: processes kept from one observation
    HiddenBirths,  \* may psutil withhold a creation time (None)?
    HiddenNames,   \* may psutil withhold a name (None)?
    MaxClock,      \* bound: last clock tick explored
    MaxLaunches    \* bound: launches and bindings the user asks for

Unread == -1       \* ProcessIdentity.created_at = None

Times    == 0 .. MaxClock
Births   == {Unread} \cup Times
Identity == Pids \X Births
PolicySpace == [crash : BOOLEAN, exit : BOOLEAN, max : Nat, delay : Nat]

\* What a LaunchIntent, a RestartRequest and a tracked record hand on to each other.
\* `root` numbers the launch or binding of the user it all goes back to: a history
\* field, read only by properties.
Chain    == [root : Nat, attempt : Nat, account : Accounts, policy : Policies]
Intent   == [chain : Chain, requested : Nat, expires : Nat]
Request  == [chain : Chain, due : Nat]
States   == {"absent", "running", "orphaned", "unknown", "terminating"}
Entry    == [state : States, chain : Chain \cup {NoIntent}, since : Nat]

ASSUME MonitorAssumption ==
    /\ Pids \subseteq Nat /\ IsFiniteSet(Pids)
    /\ Policies \subseteq PolicySpace
    /\ NoIntent \notin Chain
    /\ HiddenBirths \in BOOLEAN /\ HiddenNames \in BOOLEAN
    /\ MatchTimeout \in Nat /\ MatchSlack \in Nat /\ CrashWindow \in Nat
    /\ MaxPending \in Nat \ {0} /\ MaxTracked \in Nat \ {0}
    /\ MaxClock \in Nat /\ MaxLaunches \in Nat

VARIABLES
    clock,      \* the wall clock
    live,       \* PIDs of the Roblox clients that are running now
    born,       \* born[p]: creation time of the last process with PID p
    tracked,    \* _tracked; a missing key has state "absent"
    pending,    \* _pending_launches
    restarts,   \* _pending_restarts
    requested,  \* _termination_requested
    scan,       \* scan[s]: the local variables of scan() in scanner s
    term,       \* term[t]: the local variables of a close in terminator t
    claimed,    \* restart requests claimed and not yet relaunched
    launches,   \* number of launches and bindings the user asked for
    forgotten   \* accounts deleted so far (the repository refuses to launch them)

os    == <<clock, live, born>>
mon   == <<tracked, pending, restarts, requested>>
aux   == <<launches, forgotten>>
vars  == <<os, mon, scan, term, claimed, aux>>

-----------------------------------------------------------------------------
Nothing  == [state |-> "absent", chain |-> NoIntent, since |-> 0]
IdleScan == [pc |-> "idle", seen |-> {}, complete |-> FALSE, now |-> 0,
             todo |-> {}, nameless |-> {}]
IdleTerm == [pc |-> "idle", id |-> <<0, Unread>>, entry |-> Nothing]

\* The process an identity names is running: same PID and same creation time;
\* without a creation time only the PID is left to compare.
Alive(id) == id[1] \in live /\ id[2] \in {Unread, born[id[1]]}

Tracked == {id \in Identity : tracked[id].state # "absent"}
TrackedWithPid(p) == {id \in Tracked : id[1] = p}

\* account_id and launch_intent of a tracked record are always set together.
Bound(e) == e.chain # NoIntent
BoundTo(e, a) == Bound(e) /\ e.chain.account = a

SettledPending(e) == [e EXCEPT !.state = "relaunch_pending"]

\* The state of a record whose process is known to run, undisturbed.
Settled(e) == [e EXCEPT !.state = IF Bound(e) THEN "running" ELSE "orphaned"]

\* No thread is inside the commit section of scan(), i.e. `_lock` is free.
Unlocked == \A s \in Scanners : scan[s].pc # "commit"

\* _identity_sort_key
Before(i, j) == i[1] < j[1] \/ (i[1] = j[1] /\ i[2] < j[2])
IsFirst(id, S) == id \in S /\ \A other \in S \ {id} : Before(id, other)

Eligible(id, now) ==
    {i \in pending : i.expires >= now /\ id[2] >= i.requested - MatchSlack}

\* _match_pending_intent: the sole plausible candidate, or none.
Matches(id, now) ==
    IF id[2] # Unread /\ Cardinality(Eligible(id, now)) = 1 THEN Eligible(id, now) ELSE {}

\* A close and a scan both forget the request when the record goes.
KeepRequested(id) == requested
Discard(id) == requested \ {id}

\* _terminal_state
NoRequestMemory(id, now) ==
    IF tracked[id].state = "terminating" THEN "terminated"
    ELSE IF now - tracked[id].since <= CrashWindow THEN "crashed" ELSE "exited"
TerminalState(id, now) ==
    IF id \in requested \/ tracked[id].state = "terminating" THEN "terminated"
    ELSE IF now - tracked[id].since <= CrashWindow THEN "crashed" ELSE "exited"

WantsRestart(policy, terminal) ==
    \/ terminal = "crashed" /\ policy.crash
    \/ terminal = "exited" /\ policy.exit

OneAttemptTooMany(id, now) ==
    /\ Bound(tracked[id])
    /\ WantsRestart(tracked[id].chain.policy, TerminalState(id, now))
    /\ tracked[id].chain.attempt <= tracked[id].chain.policy.max

\* The conditions of _schedule_restart_if_eligible, for the record of identity id.
Schedules(id, now) ==
    /\ Bound(tracked[id])
    /\ WantsRestart(tracked[id].chain.policy, TerminalState(id, now))
    /\ tracked[id].chain.attempt + 1 <= tracked[id].chain.policy.max

\* The RestartRequest that follows it.
Relaunch(chain, now) ==
    [chain |-> [chain EXCEPT !.attempt = @ + 1], due |-> now + chain.policy.delay]

\* At max_pending, the request due first makes room for the new one.
WithRestart(q) ==
    IF Cardinality(restarts) < MaxPending THEN {restarts \cup {q}}
    ELSE {(restarts \ {dropped}) \cup {q} :
            dropped \in {d \in restarts : \A r \in restarts : d.due <= r.due}}

-----------------------------------------------------------------------------
(* The operating system and the clock (external). *)

Tick ==
    /\ clock < MaxClock
    /\ clock' = clock + 1
    /\ UNCHANGED <<live, born, mon, scan, term, claimed, aux>>

\* A client starts.  The creation time tells it from earlier users of its PID.
Spawn(p) ==
    /\ p \notin live
    /\ born[p] < clock
    /\ live' = live \cup {p}
    /\ born' = [born EXCEPT ![p] = clock]
    /\ UNCHANGED <<clock, mon, scan, term, claimed, aux>>

\* It crashes, exits, or obeys terminate().
Die(p) ==
    /\ p \in live
    /\ live' = live \ {p}
    /\ UNCHANGED <<clock, born, mon, scan, term, claimed, aux>>

-----------------------------------------------------------------------------
(* Calls of the service. *)

UserChain(a, policy) ==
    [root |-> launches, attempt |-> 0, account |-> a, policy |-> policy]

\* register_launch_intent: an intent joins the deque; at the limit the oldest leaves.
Register(chain) ==
    LET intent == [chain |-> chain, requested |-> clock, expires |-> clock + MatchTimeout]
    IN  IF Cardinality(pending) < MaxPending THEN pending' = pending \cup {intent}
        ELSE \E oldest \in pending :
               /\ \A i \in pending : oldest.requested <= i.requested
               /\ pending' = (pending \ {oldest}) \cup {intent}

\* A launch the user asked for.
RegisterLaunch(a, policy) ==
    /\ Unlocked
    /\ a \notin forgotten
    /\ launches < MaxLaunches
    /\ Register(UserChain(a, policy))
    /\ launches' = launches + 1
    /\ UNCHANGED <<os, tracked, restarts, requested, scan, term, claimed, forgotten>>

\* The launch of a claimed restart: it keeps the attempt and the policy.
RegisterRelaunch(q) ==
    /\ Unlocked
    /\ q \in claimed
    /\ q.chain.account \notin forgotten
    /\ Register(q.chain)
    /\ claimed' = claimed \ {q}
    /\ UNCHANGED <<os, tracked, restarts, requested, scan, term, aux>>

\* The launcher failed or the account is gone: record_restart_result(launched=False).
DropRelaunch(q) ==
    /\ q \in claimed
    /\ claimed' = claimed \ {q}
    /\ UNCHANGED <<os, mon, scan, term, aux>>

CancelLaunch(i) ==
    /\ Unlocked
    /\ i \in pending
    /\ pending' = pending \ {i}
    /\ UNCHANGED <<os, tracked, restarts, requested, scan, term, claimed, aux>>

ForgetAccount(a) ==
    /\ Unlocked
    /\ a \notin forgotten
    /\ pending'  = {i \in pending : i.chain.account # a}
    /\ restarts' = {q \in restarts : q.chain.account # a}
    /\ tracked'  = [id \in Identity |->
                      IF id \in Tracked /\ BoundTo(tracked[id], a)
                      THEN [tracked[id] EXCEPT !.state = "orphaned", !.chain = NoIntent]
                      ELSE tracked[id]]
    /\ forgotten' = forgotten \cup {a}
    /\ UNCHANGED <<os, requested, scan, term, claimed, launches>>

\* bind_orphan: one tracked record has the PID and it belongs to nobody.
BindOrphan(p, a, policy) ==
    /\ Unlocked
    /\ a \notin forgotten
    /\ launches < MaxLaunches
    /\ \E id \in TrackedWithPid(p) :
         /\ TrackedWithPid(p) = {id}
         /\ ~ Bound(tracked[id])
         /\ tracked' = [tracked EXCEPT ![id].state = "running",
                                       ![id].chain = UserChain(a, policy)]
    /\ launches' = launches + 1
    /\ UNCHANGED <<os, pending, restarts, requested, scan, term, claimed, forgotten>>

\* What claiming leaves in the queue.
ClaimedStay == restarts
NotDue == {q \in restarts : q.due > clock}

ClaimDueRestarts ==
    /\ Unlocked
    /\ \E q \in restarts : q.due <= clock
    /\ claimed'  = claimed \cup {q \in restarts : q.due <= clock}
    /\ restarts' = NotDue
    /\ UNCHANGED <<os, tracked, pending, requested, scan, term, aux>>

-----------------------------------------------------------------------------
(* scan(): observe without `_lock`, then commit under it.  The commit loop  *)
(* visits identities in sorted order, because matching one process consumes *)
(* an intent and may make the next match unambiguous.                       *)

Newer(i, j) == i[2] > j[2] \/ (i[2] = j[2] /\ i[1] > j[1])
Newest(seen) == {i \in seen : Cardinality({j \in seen : Newer(j, i)}) < MaxTracked}

\* Exits may be inferred only from an enumeration that did not fail and was not cut.
Complete(seen, whole) == whole /\ Cardinality(seen) <= MaxTracked

\* _scan_lock: one thread scans at a time, from the observation to the end of the commit.
ScanLockFree == \A r \in Scanners : scan[r].pc = "idle"

\* _to_observed: the identities of the processes the enumeration shows.
Observed(shown, unread) ==
    {<<p, IF p \in unread THEN Unread ELSE born[p]>> : p \in shown}

\* _observe_processes and the truncation that follows it.  An enumeration that
\* fails half-way shows some of the processes; a creation time that cannot be
\* read leaves the identity <<pid, Unread>> and the observation complete; a name
\* that cannot be read drops the process (_to_observed returns None, True) and
\* leaves the observation complete as well.  `nameless` is a history field.
ObserveProcesses(s) ==
    /\ ScanLockFree
    /\ scan[s].pc = "idle"
    /\ \E shown \in SUBSET live, unread \in SUBSET (IF HiddenBirths THEN live ELSE {}),
          whole \in BOOLEAN :
         /\ whole => shown = live \/ HiddenNames
         /\ scan' = [scan EXCEPT ![s] =
              [pc |-> "observed", seen |-> Newest(Observed(shown, unread)), now |-> clock,
               complete |-> Complete(Observed(shown, unread), whole),
               todo |-> {}, nameless |-> IF whole THEN live \ shown ELSE {}]]
    /\ UNCHANGED <<os, mon, term, claimed, aux>>

\* _refresh_tracked: a process seen again is no longer uncertain.
Refreshed(e) == IF e.state = "unknown" THEN Settled(e) ELSE e

\* A partial scan cannot prove an exit: the record stays, as unknown.
Doubted(e) == IF e.state = "terminating" THEN e ELSE [e EXCEPT !.state = "unknown"]

\* The tracked identities whose exit this scan has proved.
MissingAlways(s) == Tracked \ scan[s].seen
TerminatingStay(s) ==
    IF scan[s].complete THEN {id \in Tracked \ scan[s].seen : tracked[id].state # "terminating"}
    ELSE {}
Missing(s) == IF scan[s].complete THEN Tracked \ scan[s].seen ELSE {}

BeginCommit(s) ==
    /\ Unlocked
    /\ scan[s].pc = "observed"
    /\ pending' = {i \in pending : i.expires >= scan[s].now}   \* _expire_pending_launches
    /\ tracked' = [id \in Identity |->
                     IF id \notin Tracked THEN tracked[id]
                     ELSE IF id \in scan[s].seen THEN Refreshed(tracked[id])
                     ELSE IF id \in Missing(s) THEN tracked[id]
                     ELSE Doubted(tracked[id])]
    /\ scan' = [scan EXCEPT ![s].pc = "commit",
                            ![s].todo = (scan[s].seen \ Tracked) \cup Missing(s)]
    /\ UNCHANGED <<os, restarts, requested, term, claimed, aux>>

\* _start_tracking, for each observed identity without a record.
StartTracking(s, id) ==
    /\ scan[s].pc = "commit"
    /\ IsFirst(id, scan[s].todo \cap scan[s].seen)
    /\ LET matches == Matches(id, scan[s].now)
       IN  /\ pending' = pending \ matches
           /\ \E chain \in IF matches = {} THEN {NoIntent} ELSE {i.chain : i \in matches} :
                tracked' = [tracked EXCEPT ![id] =
                  [state |-> IF chain = NoIntent THEN "orphaned" ELSE "running",
                   chain |-> chain,
                   since |-> IF id[2] = Unread THEN scan[s].now ELSE id[2]]]
    /\ scan' = [scan EXCEPT ![s].todo = @ \ {id}]
    /\ UNCHANGED <<os, restarts, requested, term, claimed, aux>>

\* The terminal event of a missing identity, after a complete observation.
Retire(s, id) ==
    /\ scan[s].pc = "commit"
    /\ scan[s].todo \cap scan[s].seen = {}
    /\ IsFirst(id, scan[s].todo)
    /\ IF Schedules(id, scan[s].now)
       THEN restarts' \in WithRestart(Relaunch(tracked[id].chain, scan[s].now))
       ELSE UNCHANGED restarts
    /\ tracked'   = [tracked EXCEPT ![id] = Nothing]
    /\ requested' = Discard(id)
    /\ scan'      = [scan EXCEPT ![s].todo = @ \ {id}]
    /\ UNCHANGED <<os, pending, term, claimed, aux>>

EndCommit(s) ==
    /\ scan[s].pc = "commit"
    /\ scan[s].todo = {}
    /\ scan' = [scan EXCEPT ![s] = IdleScan]
    /\ UNCHANGED <<os, mon, term, claimed, aux>>

-----------------------------------------------------------------------------
(* terminate_known_process *)

\* The record is read under the lock; then psutil verifies, without it, that
\* the PID is still the process the record names.
BeginTerminate(t, p) ==
    /\ Unlocked
    /\ term[t].pc = "idle"
    /\ \E id \in TrackedWithPid(p) :
         /\ TrackedWithPid(p) = {id}            \* _tracked_for_pid
         /\ id[2] # Unread
         /\ Alive(id)                           \* _matches_tracked_identity
         /\ term' = [term EXCEPT ![t] = [pc |-> "verified", id |-> id, entry |-> tracked[id]]]
    /\ UNCHANGED <<os, mon, scan, claimed, aux>>

\* The record read BEFORE the verification is written back as terminating.
RequestTermination(t) ==
    /\ Unlocked
    /\ term[t].pc = "verified"
    /\ requested' = requested \cup {term[t].id}
    /\ tracked' = [tracked EXCEPT ![term[t].id] = [term[t].entry EXCEPT !.state = "terminating"]]
    /\ term' = [term EXCEPT ![t].pc = "asked"]
    /\ UNCHANGED <<os, pending, restarts, scan, claimed, aux>>

\* wait() returned, or the process was gone: _remove_tracked.
TerminateDone(t) ==
    /\ Unlocked
    /\ term[t].pc = "asked"
    /\ ~ Alive(term[t].id)
    /\ requested' = Discard(term[t].id)
    /\ tracked' = [tracked EXCEPT ![term[t].id] = Nothing]
    /\ term' = [term EXCEPT ![t] = IdleTerm]
    /\ UNCHANGED <<os, pending, restarts, scan, claimed, aux>>

\* wait() timed out: the record stays terminating, nothing is escalated.
TerminateTimedOut(t) ==
    /\ term[t].pc = "asked"
    /\ Alive(term[t].id)
    /\ term' = [term EXCEPT ![t] = IdleTerm]
    /\ UNCHANGED <<os, mon, scan, claimed, aux>>

\* Windows refused a live process: _clear_termination_request.
TerminateDenied(t) ==
    /\ Unlocked
    /\ term[t].pc = "asked"
    /\ Alive(term[t].id)
    /\ requested' = Discard(term[t].id)
    /\ tracked' = [tracked EXCEPT ![term[t].id] =
                     IF @.state = "terminating" THEN Settled(@) ELSE @]
    /\ term' = [term EXCEPT ![t] = IdleTerm]
    /\ UNCHANGED <<os, pending, restarts, scan, claimed, aux>>

-----------------------------------------------------------------------------
Init ==
    /\ clock = 0
    /\ live = {}
    /\ born = [p \in Pids |-> Unread]
    /\ tracked = [id \in Identity |-> Nothing]
    /\ pending = {}
    /\ restarts = {}
    /\ requested = {}
    /\ scan = [s \in Scanners |-> IdleScan]
    /\ term = [t \in Terminators |-> IdleTerm]
    /\ claimed = {}
    /\ launches = 0
    /\ forgotten = {}

Environment == Tick \/ \E p \in Pids : Spawn(p) \/ Die(p)

Service ==
    \/ \E a \in Accounts, policy \in Policies : RegisterLaunch(a, policy)
    \/ \E a \in Accounts, policy \in Policies, p \in Pids : BindOrphan(p, a, policy)
    \/ \E a \in Accounts : ForgetAccount(a)
    \/ \E i \in pending : CancelLaunch(i)
    \/ \E q \in claimed : RegisterRelaunch(q) \/ DropRelaunch(q)
    \/ ClaimDueRestarts

Scan(s) ==
    \/ ObserveProcesses(s)
    \/ BeginCommit(s)
    \/ \E id \in Identity : StartTracking(s, id) \/ Retire(s, id)
    \/ EndCommit(s)

Terminate(t) ==
    \/ \E p \in Pids : BeginTerminate(t, p)
    \/ RequestTermination(t)
    \/ TerminateDone(t) \/ TerminateTimedOut(t) \/ TerminateDenied(t)

Next ==
    \/ Environment
    \/ Service
    \/ \E s \in Scanners : Scan(s)
    \/ \E t \in Terminators : Terminate(t)

Spec == Init /\ [][Next]_vars

\* The polling loop scans forever, and enumerations do not fail forever; a close that
\* was begun runs to its end, wait() being bounded by its timeout.
FairSpec ==
    /\ Spec
    /\ \A s \in Scanners :
         /\ WF_vars(Scan(s))
         /\ SF_vars(ObserveProcesses(s) /\ scan'[s].complete)
    /\ \A t \in Terminators :
         WF_vars(RequestTermination(t) \/ TerminateDone(t) \/ TerminateTimedOut(t))

-----------------------------------------------------------------------------
(* Properties *)

\* Every variable has the shape the code gives it.
TypeOK ==
    /\ clock \in Times
    /\ live \subseteq Pids
    /\ born \in [Pids -> Births]
    /\ tracked \in [Identity -> Entry]
    /\ pending \subseteq Intent
    /\ restarts \subseteq Request
    /\ requested \subseteq Identity
    /\ scan \in [Scanners -> [pc : {"idle", "observed", "commit"}, seen : SUBSET Identity,
                              complete : BOOLEAN, now : Times, todo : SUBSET Identity,
                              nameless : SUBSET Pids]]
    /\ term \in [Terminators -> [pc : {"idle", "verified", "asked"},
                                 id : Identity \cup {IdleTerm.id}, entry : Entry]]
    /\ claimed \subseteq Request
    /\ launches \in 0 .. MaxLaunches
    /\ forgotten \subseteq Accounts

\* "A failed or incomplete psutil scan never emits mass exited events": a client
\* that is still running is never reported crashed, exited or terminated, whatever
\* was launched, closed or reused between the observation and the commit -- unless
\* psutil withheld its name from this very scan, which the comment in _to_observed
\* ("The whole snapshot becomes uncertain") forgets: such a scan stays complete.
NoFalseExit ==
    [][\A id \in Tracked \ Tracked' :
         Alive(id) => \E s \in Scanners : scan[s].pc = "commit" /\ id[1] \in scan[s].nameless]_vars

\* The places that can still lead to a (re)launch of the user launch `root`.
Holders(root) ==
    ({"queue"} \X {x \in pending \cup restarts \cup claimed : x.chain.root = root}) \cup
    ({"tracked"} \X {id \in Tracked : /\ tracked[id].state # "terminating"
                                     /\ Bound(tracked[id]) /\ tracked[id].chain.root = root})

\* One launch the user asked for is, at any time, in at most one place: waiting for
\* its process, running, waiting to be relaunched, or being relaunched.  Two places
\* would mean two clients and twice the relaunches for one request.
OneCopyPerLaunch == \A root \in 0 .. launches : Cardinality(Holders(root)) <= 1

\* A relaunch chain stops at the policy's attempt limit, through crashes, claims,
\* failures and rebinding.
AttemptsBounded ==
    /\ \A q \in restarts \cup claimed : q.chain.attempt \in 1 .. q.chain.policy.max
    /\ \A i \in pending : i.chain.attempt <= i.chain.policy.max
    /\ \A id \in Tracked :
         Bound(tracked[id]) => tracked[id].chain.attempt <= tracked[id].chain.policy.max

\* The set of requested closes does not outlive the processes: an identity in it is
\* tracked, or a terminator that will discard it is still waiting for the process.
NoLeakedRequest ==
    \A id \in requested : \/ id \in Tracked
                          \/ \E t \in Terminators : term[t].pc = "asked" /\ term[t].id = id

\* A client whose close is being waited for is never relaunched when it disappears.
ClosedNotRelaunched ==
    [][\A t \in Terminators :
         (term[t].pc = "asked" /\ term[t].id \in Tracked /\ term[t].id \notin Tracked')
            => restarts' \subseteq restarts]_vars

\* forget_account: "a deleted account can never be launched later by an opt-in rule".
ForgottenNotRestarted == \A q \in restarts : q.chain.account \notin forgotten

\* The record of a client that is gone does not stay for ever, whatever scans failed
\* and whatever closes raced with them: no ghost instances.
GhostsDisappear ==
    \A id \in Identity : (id \in Tracked /\ ~ Alive(id)) ~> id \notin Tracked

=============================================================================
