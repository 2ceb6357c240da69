----------------------------- MODULE LaunchService -----------------------------
(***************************************************************************)
(* How ApplicationService launches accounts (services/                     *)
(* application_service.py): launch_account on any bridge, batch or         *)
(* scheduler thread, the relaunches the watcher thread dispatches, and the *)
(* operations on the account table that race with them (update, delete,    *)
(* reorder, and the status labels the watcher reconciles).                 *)
(*                                                                         *)
(* A launch loads the account row, checks for a duplicate, and only then   *)
(* takes `_launch_lock`; under it, it patches ClientAppSettings.json,      *)
(* registers the watcher intent, hands the URI to Windows, saves the row   *)
(* it loaded at the start, and waits a bounded time for the client to be   *)
(* seen.  Each of those is a step here.  The monitor is reduced to what    *)
(* the service sees of it: pending intents and the account of each client  *)
(* (ProcessMonitor models it in full).                                     *)
(***************************************************************************)
EXTENDS Naturals, FiniteSets, Sequences

CONSTANTS
    Accounts,    \* local account ids
    Users,       \* bridge, batch and scheduler threads
    Targets,     \* Targets[t]: the accounts that thread t may be asked to launch
    Watcher,     \* the watcher thread
    Prompt,      \* is every launch registered, its client up and seen before the launch stops waiting?
    Relaunches,  \* are the accounts armed for automatic relaunch?
    FreeFile,    \* bound: may the file refuse a launch, and a screen write it at any time?
    MaxCalls,    \* bound: calls of launch_account
    MaxEdits     \* bound: the user's updates, reorders, deletions and other writes of the cap, and labels
                 \* that the database refuses

\* What the monitor gives a client it has not seen, and one that belongs to nobody.
Unseen == "unseen"
Orphan == "orphan"

\* What ClientAppSettings.json may hold that no launch has written for its account: what the
\* user set, the flags of one account with the global cap of another.
Strange == {"user", "mixed"}

ASSUME LaunchAssumption ==
    /\ Watcher \notin Users /\ Targets \in [Users -> SUBSET Accounts]
    /\ Prompt \in BOOLEAN /\ Relaunches \in BOOLEAN /\ FreeFile \in BOOLEAN
    /\ MaxCalls \in Nat /\ MaxEdits \in Nat
    /\ \A word \in {Unseen, Orphan, "none"} \cup Strange : word \notin Accounts

Threads == Users \cup {Watcher}
Launch  == 1 .. MaxCalls     \* launches are numbered as launch_account is called

Statuses == {"ready", "launching", "in_game"}
\* One row of the account table; `rule` and `order` stand for what the user edits.
Row == [present : BOOLEAN, status : Statuses, rule : 0 .. MaxEdits, order : 0 .. MaxEdits]

VARIABLES
    row,      \* row[a]: the account table
    pending,  \* launches whose watcher intent is pending
    expired,  \* launches whose intent has expired and is still in the monitor's deque
    client,   \* client[n]: the Roblox client of launch n
    ahead,    \* ahead[n]: intents already pending when client n started
    tracked,  \* tracked[n]: the account the monitor gives to client n
    due,      \* restart requests in the monitor's queue
    claimed,  \* restart requests the watcher thread has claimed
    file,     \* whose settings ClientAppSettings.json holds
    left,     \* left[n]: what launch n left in that file for its client, until that starts (history)
    owner,    \* owner[n]: the account launch n is for
    call,     \* call[t]: the local variables of launch_account, or of an edit
    look,     \* look[t]: the local variables of _scan_instances
    calls,    \* number of launches asked for
    edits     \* number of edits made

table   == <<row, edits>>
monitor == <<pending, expired, tracked, due>>
windows == <<client, ahead, file, left>>
history == <<owner, calls>>
vars    == <<table, monitor, windows, history, claimed, call, look>>

-----------------------------------------------------------------------------
NoRow    == [present |-> FALSE, status |-> "ready", rule |-> 0, order |-> 0]
IdleCall == [pc |-> "idle", row |-> NoRow, account |-> "none", launch |-> 0]
IdleLook == [pc |-> "idle", seen |-> {}, complete |-> FALSE, events |-> <<>>, live |-> {},
             todo |-> {}, account |-> "none", label |-> "ready", row |-> NoRow]

UnderLock == {"locked", "registered", "handed", "awaiting"}
NoLaunchLock == TRUE
LaunchLockFree == \A t \in Threads : call[t].pc \notin UnderLock

\* No thread is inside the monitor's commit section.
MonitorFree == \A t \in Threads : look[t].pc # "scanning"

Tracks(a) == \E n \in Launch : tracked[n] = a
HasPending(a) == \E n \in pending : owner[n] = a

\* has_active_or_pending_account
HasActiveOrPending(a) == Tracks(a) \/ HasPending(a)

\* save_account is an upsert of the whole row, except that a row that exists keeps its
\* order: "reorder_accounts is the only operation allowed to change an established order".
SavedAsGiven(a, r) == [r EXCEPT !.present = TRUE]
Saved(a, r) == [r EXCEPT !.present = TRUE,
                         !.order = IF row[a].present THEN row[a].order ELSE 0]

\* The client of launch n is still to be seen by a scan.
Unobserved(n) == client[n] = "starting" \/ (client[n] = "running" /\ tracked[n] = Unseen)

\* One more of the things that MaxEdits bounds.
Edits == edits < MaxEdits /\ edits' = edits + 1

-----------------------------------------------------------------------------
(* Windows and Roblox (external). *)

\* The client reads ClientAppSettings.json as it starts.
ClientStarts(n) ==
    /\ client[n] = "starting"
    /\ client' = [client EXCEPT ![n] = "running"]
    /\ ahead' = [ahead EXCEPT ![n] = pending]
    /\ left' = [left EXCEPT ![n] = "none"]
    /\ UNCHANGED <<table, monitor, file, history, claimed, call, look>>

\* It crashes or is closed, or never came up.
ClientDies(n) ==
    /\ client[n] \in {"starting", "running"}
    /\ Prompt => ~ Unobserved(n)
    /\ client' = [client EXCEPT ![n] = "dead"]
    /\ left' = [left EXCEPT ![n] = "none"]
    /\ UNCHANGED <<table, monitor, ahead, file, history, claimed, call, look>>

\* launch_match_timeout_seconds (45 s by default) has passed.
IntentExpires(n) ==
    /\ MonitorFree
    /\ n \in pending
    /\ Prompt => ~ Unobserved(n) /\ \A t \in Threads : call[t].launch # n
    /\ pending' = pending \ {n}
    /\ expired' = expired \cup {n}
    /\ UNCHANGED <<table, tracked, due, windows, history, claimed, call, look>>

-----------------------------------------------------------------------------
(* launch_account *)

\* _get_account: everything the call uses and later saves is read here.
Load(t, a) ==
    /\ call[t].pc = "idle" /\ look[t].pc = "idle"
    /\ row[a].present
    /\ calls < MaxCalls
    /\ calls' = calls + 1
    /\ owner' = [owner EXCEPT ![calls + 1] = a]
    /\ call' = [call EXCEPT ![t] = [pc |-> "loaded", row |-> row[a], account |-> a,
                                    launch |-> calls + 1]]

StartLaunch(t, a) ==
    /\ t \in Users /\ a \in Targets[t]
    /\ Load(t, a)
    /\ UNCHANGED <<table, monitor, windows, claimed, look>>

\* prevent_duplicate_accounts, checked before the launch lock is taken.
CheckDuplicate(t) ==
    /\ MonitorFree
    /\ call[t].pc = "loaded"
    /\ call' = [call EXCEPT ![t] = IF HasActiveOrPending(call[t].account) THEN IdleCall
                                   ELSE [call[t] EXCEPT !.pc = "checked"]]
    /\ UNCHANGED <<table, monitor, windows, history, claimed, look>>

\* `with self._launch_lock`, up to patch_launch_settings.  A launch with a cap of its own
\* writes it.  The file is as it was if there is no such cap (then the cap in it is kept) or
\* if it cannot be written, and mixed if the global cap cannot be: the launch goes on.
EnterLaunch(t) ==
    /\ call[t].pc = "checked"
    /\ LaunchLockFree
    /\ call' = [call EXCEPT ![t].pc = "locked"]
    /\ file' \in {call[t].account} \cup (IF FreeFile THEN {file, "mixed"} ELSE {})
    /\ left' = [left EXCEPT ![call[t].launch] = file']
    /\ UNCHANGED <<table, monitor, client, ahead, history, claimed, look>>

\* Multi-instance is not ready, or no authentication ticket could be had.
PreparationFails(t) ==
    /\ call[t].pc = "locked" \/ (call[t].pc = "checked" /\ LaunchLockFree)
    /\ call' = [call EXCEPT ![t] = IdleCall]
    /\ left' = [left EXCEPT ![call[t].launch] = "none"]
    /\ UNCHANGED <<table, monitor, client, ahead, file, history, claimed, look>>

\* "The watcher intent must exist before Windows receives the protocol hand-off."  If the
\* monitor takes none, the launch goes on without (and then only sleeps where it would wait).
RegisterIntent(t) ==
    /\ MonitorFree
    /\ call[t].pc = "locked"
    /\ call' = [call EXCEPT ![t].pc = "registered"]
    /\ \/ pending' = pending \cup {call[t].launch}
       \/ ~ Prompt /\ UNCHANGED pending
    /\ UNCHANGED <<table, expired, tracked, due, windows, history, claimed, look>>

HandOff(t) ==
    /\ call[t].pc = "registered"
    /\ call' = [call EXCEPT ![t].pc = "handed"]
    /\ client' = [client EXCEPT ![call[t].launch] = "starting"]
    /\ UNCHANGED <<table, monitor, ahead, file, left, history, claimed, look>>

\* RobloxLaunchError, or a result that was not launched.
IntentStays(n) == pending
Cancelled(n) == pending \ {n}

HandOffFails(t) ==
    /\ MonitorFree
    /\ call[t].pc = "registered"
    /\ pending' = Cancelled(call[t].launch)
    /\ call' = [call EXCEPT ![t] = IdleCall]
    /\ left' = [left EXCEPT ![call[t].launch] = "none"]
    /\ UNCHANGED <<table, expired, tracked, due, client, ahead, file, history, claimed, look>>

\* The row loaded at the start is saved with the status "launching", unless the database
\* refuses, which is only noticed.
SaveLaunched(t) ==
    /\ call[t].pc = "handed"
    /\ LET a == call[t].account
       IN  row' \in {row, [row EXCEPT ![a] = Saved(a, [call[t].row EXCEPT !.status = "launching"])]}
    /\ call' = [call EXCEPT ![t].pc = "awaiting"]
    /\ UNCHANGED <<edits, monitor, windows, history, claimed, look>>

\* _await_launch_observation returns after a scan that shows the account, or at its
\* deadline; then the lock is released.
MayReturnOnlySeen(t) == Tracks(call[t].account)
MayReturn(t) ==
    \/ Tracks(call[t].account)
    \/ Prompt => ~ Unobserved(call[t].launch)

AwaitReturns(t) ==
    /\ call[t].pc = "awaiting"
    /\ look[t].pc = "idle"
    /\ MayReturn(t)
    /\ call' = [call EXCEPT ![t] = IdleCall]
    /\ UNCHANGED <<table, monitor, windows, history, claimed, look>>

-----------------------------------------------------------------------------
(* _dispatch_due_restarts, on the watcher thread. *)

ClaimDue ==
    /\ MonitorFree
    /\ call[Watcher].pc = "idle" /\ look[Watcher].pc = "idle"
    /\ claimed = {} /\ due # {}
    /\ claimed' = due
    /\ due' = {}
    /\ UNCHANGED <<table, pending, expired, tracked, windows, history, call, look>>

StartRelaunch(q) ==
    /\ q \in claimed
    /\ Load(Watcher, q.account)
    /\ claimed' = claimed \ {q}
    /\ UNCHANGED <<table, monitor, windows, look>>

\* The account is gone, or the bound on calls is reached.
DropRelaunch(q) ==
    /\ q \in claimed
    /\ call[Watcher].pc = "idle"
    /\ ~ row[q.account].present \/ calls = MaxCalls
    /\ claimed' = claimed \ {q}
    /\ UNCHANGED <<table, monitor, windows, history, call, look>>

-----------------------------------------------------------------------------
(* _scan_instances: the watcher runs it on every tick, a launch while it waits. *)

MayScan(t) ==
    /\ look[t].pc = "idle"
    /\ IF t = Watcher THEN call[t].pc = "awaiting" \/ (call[t].pc = "idle" /\ claimed = {})
                      ELSE call[t].pc = "awaiting"

\* The status label that an event of a scan gives to an account.
Event(a, label) == [account |-> a, label |-> label]

\* The launches of a set, oldest first: the one way to count them upwards.
InOrder(set) == {f \in [1 .. Cardinality(set) -> set] : \A i, j \in DOMAIN f : i < j => f[i] < f[j]}

\* A scan that is not complete misses some of the running clients.  Expired intents go
\* first, each with its event.
BeginScan(t, complete) ==
    /\ MonitorFree
    /\ MayScan(t)
    /\ LET running == {n \in Launch : client[n] = "running"}
       IN \E seen \in IF complete THEN {running} ELSE SUBSET running, oldest \in InOrder(expired) :
            look' = [look EXCEPT ![t] = [IdleLook EXCEPT
              !.pc = "scanning", !.seen = seen, !.complete = complete,
              !.events = [i \in DOMAIN oldest |-> Event(owner[oldest[i]], "ready")]]]
    /\ expired' = {}
    /\ UNCHANGED <<table, pending, tracked, due, windows, history, claimed, call>>

\* _match_pending_intent: the client takes the intent if exactly one is plausible.  One
\* registered after it started is plausible only within the 5 s of slack.
Track(t, n) ==
    /\ look[t].pc = "scanning"
    /\ n \in look[t].seen /\ tracked[n] = Unseen
    /\ \E late \in SUBSET (pending \ ahead[n]) :
         LET eligible == (pending \cap ahead[n]) \cup late
         IN  IF Cardinality(eligible) = 1
             THEN /\ pending' = pending \ eligible
                  /\ \E m \in eligible :
                       /\ tracked' = [tracked EXCEPT ![n] = owner[m]]
                       /\ look' = [look EXCEPT ![t].events = Append(@, Event(owner[m], "in_game"))]
             ELSE /\ tracked' = [tracked EXCEPT ![n] = Orphan]
                  /\ UNCHANGED <<pending, look>>
    /\ UNCHANGED <<table, expired, due, windows, history, claimed, call>>

Missing(t) ==
    IF look[t].complete THEN {n \in Launch : tracked[n] # Unseen} \ look[t].seen ELSE {}

\* A client that is gone; an armed account is queued for a relaunch.
Retire(t, n) ==
    /\ look[t].pc = "scanning"
    /\ n \in Missing(t)
    /\ tracked' = [tracked EXCEPT ![n] = Unseen]
    /\ IF tracked[n] = Orphan THEN UNCHANGED <<due, look>>
       ELSE /\ look' = [look EXCEPT ![t].events = Append(@, Event(tracked[n], "ready"))]
            /\ due' = IF Relaunches THEN due \cup {[launch |-> n, account |-> tracked[n]]} ELSE due
    /\ UNCHANGED <<table, pending, expired, windows, history, claimed, call>>

EndScan(t) ==
    /\ look[t].pc = "scanning"
    /\ \A n \in look[t].seen : tracked[n] # Unseen
    /\ Missing(t) = {}
    /\ look' = [look EXCEPT ![t].pc = "recording", ![t].live = {a \in Accounts : Tracks(a)}]
    /\ UNCHANGED <<table, monitor, windows, history, claimed, call>>

\* The first half of _set_account_runtime_status: the row is read, and the label it has
\* may already be the right one.
ReadRow(a, label, cur) ==
    IF row[a].present /\ row[a].status # label
    THEN [cur EXCEPT !.account = a, !.label = label, !.row = row[a]] ELSE cur

\* _record_process_events, one event after the other.
RecordEvent(t) ==
    /\ look[t].pc = "recording" /\ look[t].account = "none"
    /\ look[t].events # <<>>
    /\ LET event == Head(look[t].events)
       IN  look' = [look EXCEPT ![t] = ReadRow(event.account, event.label,
                                               [look[t] EXCEPT !.events = Tail(@)])]
    /\ UNCHANGED <<table, monitor, windows, history, claimed, call>>

\* The accounts with a runtime label, as listed, with the label they are listed with.
Labelled == {pair \in Accounts \X {"launching", "in_game"} :
               row[pair[1]].present /\ row[pair[1]].status = pair[2]}

\* _reconcile_account_runtime_statuses stops at once if the scan was not complete.
BeginReconcile(t) ==
    /\ look[t].pc = "recording" /\ look[t].account = "none"
    /\ look[t].events = <<>>
    /\ look' = [look EXCEPT ![t] =
         IF look[t].complete THEN [look[t] EXCEPT !.pc = "reconciling", !.todo = Labelled]
         ELSE IdleLook]
    /\ UNCHANGED <<table, monitor, windows, history, claimed, call>>

\* What the label of an account should be, after a scan that saw the accounts `live`.
Label(a, live) ==
    IF a \in live THEN "in_game" ELSE IF HasActiveOrPending(a) THEN "launching" ELSE "ready"

\* A listed label that is wrong is set anew.
Reconcile(t, a, listed) ==
    /\ MonitorFree
    /\ look[t].pc = "reconciling" /\ look[t].account = "none"
    /\ <<a, listed>> \in look[t].todo
    /\ LET label == Label(a, look[t].live)
           rest  == [look[t] EXCEPT !.todo = @ \ {<<a, listed>>}]
       IN  look' = [look EXCEPT ![t] = IF label = listed THEN rest ELSE ReadRow(a, label, rest)]
    /\ UNCHANGED <<table, monitor, windows, history, claimed, call>>

\* The second half of _set_account_runtime_status: the whole row is saved, or refused.
WriteLabel(t) ==
    /\ look[t].account # "none"
    /\ LET a == look[t].account
       IN  \/ /\ row' = [row EXCEPT ![a] = Saved(a, [look[t].row EXCEPT !.status = look[t].label])]
              /\ UNCHANGED edits
           \/ Edits /\ UNCHANGED row
    /\ look' = [look EXCEPT ![t].account = "none", ![t].label = "ready", ![t].row = NoRow]
    /\ UNCHANGED <<monitor, windows, history, claimed, call>>

EndReconcile(t) ==
    /\ look[t].pc = "reconciling" /\ look[t].account = "none"
    /\ look[t].todo = {}
    /\ look' = [look EXCEPT ![t] = IdleLook]
    /\ UNCHANGED <<table, monitor, windows, history, claimed, call>>

-----------------------------------------------------------------------------
(* What the user does to the account table and to the settings meanwhile. *)

\* update_account and configure_account_watcher: read, change, save the whole row.
BeginEdit(t, a) ==
    /\ t \in Users
    /\ call[t].pc = "idle"
    /\ row[a].present
    /\ Edits
    /\ call' = [call EXCEPT ![t] = [pc |-> "editing", row |-> row[a], account |-> a, launch |-> 0]]
    /\ UNCHANGED <<row, monitor, windows, history, claimed, look>>

SaveEdit(t) ==
    /\ call[t].pc = "editing"
    /\ LET a == call[t].account
       IN  row' = [row EXCEPT ![a] = Saved(a, [call[t].row EXCEPT !.rule = edits])]
    /\ call' = [call EXCEPT ![t] = IdleCall]
    /\ UNCHANGED <<edits, monitor, windows, history, claimed, look>>

\* reorder_accounts: one transaction over the order column alone.
Reorder ==
    /\ Edits
    /\ row' = [a \in Accounts |-> IF row[a].present THEN [row[a] EXCEPT !.order = edits + 1]
                                  ELSE row[a]]
    /\ UNCHANGED <<monitor, windows, history, claimed, call, look>>

\* delete_accounts: the row goes first, then the monitor forgets the account.
DeleteRow(t, a) ==
    /\ t \in Users
    /\ call[t].pc = "idle"
    /\ row[a].present
    /\ Edits
    /\ row' = [row EXCEPT ![a] = NoRow]
    /\ call' = [call EXCEPT ![t] = [pc |-> "deleting", row |-> NoRow, account |-> a, launch |-> 0]]
    /\ UNCHANGED <<monitor, windows, history, claimed, look>>

ForgetInMonitor(t) ==
    /\ MonitorFree
    /\ call[t].pc = "deleting"
    /\ LET a == call[t].account
       IN  /\ pending' = {n \in pending : owner[n] # a}
           /\ expired' = {n \in expired : owner[n] # a}
           /\ due' = {q \in due : q.account # a}
           /\ tracked' = [n \in Launch |-> IF tracked[n] = a THEN Orphan ELSE tracked[n]]
    /\ call' = [call EXCEPT ![t] = IdleCall]
    /\ UNCHANGED <<table, windows, history, claimed, look>>

\* update_settings and the screens of the cap (set_fps_cap, remove_fps_cap, apply_roblox_settings)
\* write ClientAppSettings.json without the launch lock: at any time, or as one of the edits.
SetCap ==
    /\ IF FreeFile THEN UNCHANGED edits ELSE Edits
    /\ file' = "user"
    /\ UNCHANGED <<row, monitor, client, ahead, left, history, claimed, call, look>>

-----------------------------------------------------------------------------
\* The labels an earlier session left may be anything.
Init ==
    /\ row \in [Accounts -> {[NoRow EXCEPT !.present = TRUE, !.status = s] : s \in Statuses}]
    /\ pending = {} /\ expired = {} /\ due = {} /\ claimed = {}
    /\ client = [n \in Launch |-> "none"]
    /\ ahead = [n \in Launch |-> {}]
    /\ tracked = [n \in Launch |-> Unseen]
    /\ owner = [n \in Launch |-> "none"]
    /\ file = "user" /\ left = [n \in Launch |-> "none"]
    /\ call = [t \in Threads |-> IdleCall]
    /\ look = [t \in Threads |-> IdleLook]
    /\ calls = 0 /\ edits = 0

Roblox == \E n \in Launch : ClientStarts(n) \/ ClientDies(n) \/ IntentExpires(n)

\* A call in progress runs on, with one outcome or another.
LaunchStep(t) ==
    \/ CheckDuplicate(t) \/ EnterLaunch(t)
    \/ PreparationFails(t) \/ RegisterIntent(t)
    \/ HandOff(t) \/ HandOffFails(t)
    \/ SaveLaunched(t)

ScanStep(t) ==
    \/ \E n \in Launch : Track(t, n) \/ Retire(t, n)
    \/ EndScan(t) \/ RecordEvent(t) \/ BeginReconcile(t)
    \/ \E a \in Accounts, listed \in Statuses : Reconcile(t, a, listed)
    \/ WriteLabel(t) \/ EndReconcile(t)

Dispatch == ClaimDue \/ \E q \in claimed : StartRelaunch(q) \/ DropRelaunch(q)

UserStep(t) ==
    \/ \E a \in Accounts : StartLaunch(t, a) \/ BeginEdit(t, a) \/ DeleteRow(t, a)
    \/ SaveEdit(t) \/ ForgetInMonitor(t)

Next ==
    \/ Roblox
    \/ \E t \in Threads : \/ LaunchStep(t) \/ AwaitReturns(t) \/ ScanStep(t) \/ UserStep(t)
                          \/ \E complete \in BOOLEAN : BeginScan(t, complete)
    \/ Dispatch
    \/ Reorder \/ SetCap

Spec == Init /\ [][Next]_vars

\* Every thread that is inside a call goes on: the watcher leaves the locks alone for
\* seconds between two ticks, so a thread that keeps asking for one gets it.  The deadline
\* of a wait, and of an intent, passes however often there is a scan; the watcher keeps
\* scanning, and not every scan is incomplete.
FairSpec ==
    /\ Spec
    /\ \A t \in Threads : SF_vars(LaunchStep(t) \/ ScanStep(t) \/ SaveEdit(t) \/ ForgetInMonitor(t))
    /\ SF_vars(\E t \in Threads : AwaitReturns(t))
    /\ SF_vars(\E n \in Launch : IntentExpires(n))
    /\ SF_vars(BeginScan(Watcher, TRUE))
    /\ WF_vars(Dispatch)
    /\ WF_vars(\E n \in Launch : ClientStarts(n) \/ (client[n] = "starting" /\ ClientDies(n)))

-----------------------------------------------------------------------------
(* Properties *)

\* What the file may hold.
Contents == Accounts \cup Strange

\* Every variable has the shape the code gives it.
TypeOK ==
    /\ row \in [Accounts -> Row]
    /\ pending \cup expired \subseteq Launch /\ calls \in 0 .. MaxCalls /\ edits \in 0 .. MaxEdits
    /\ client \in [Launch -> {"none", "starting", "running", "dead"}]
    /\ ahead \in [Launch -> SUBSET Launch]
    /\ tracked \in [Launch -> Accounts \cup {Unseen, Orphan}]
    /\ owner \in [Launch -> Accounts \cup {"none"}]
    /\ due \cup claimed \subseteq [launch : Launch, account : Accounts]
    /\ file \in Contents /\ left \in [Launch -> Contents \cup {"none"}]
    /\ call \in [Threads ->
         [pc : {"idle", "loaded", "checked", "editing", "deleting"} \cup UnderLock,
          row : Row, account : Accounts \cup {"none"}, launch : 0 .. MaxCalls]]
    /\ look \in [Threads ->
         [pc : {"idle", "scanning", "recording", "reconciling"}, seen : SUBSET Launch,
          complete : BOOLEAN, events : Seq([account : Accounts, label : Statuses]),
          live : SUBSET Accounts, todo : SUBSET (Accounts \X Statuses),
          account : Accounts \cup {"none"}, label : Statuses, row : Row]]

\* A launch that failed leaves no intent behind: an intent belongs to a client, or to the
\* call that is about to hand it off.  One left over would refuse the account's next
\* launch as a duplicate for 45 s, and be given to somebody else's client.
NoIntentOfFailedLaunch ==
    \A n \in pending : \/ client[n] # "none"
                       \/ \E t \in Threads : call[t].launch = n /\ call[t].pc = "registered"

\* "preventing two rapid launches from becoming an ambiguous pair of orphan processes":
\* the monitor gives each client to the account it was launched for.
ClientGoesToItsAccount == \A n \in Launch : tracked[n] \in {Unseen, owner[n]}

\* A client that is about to start, and reads the one ClientAppSettings.json as it does, finds
\* there what its own launch left, or else what the user set in the meantime: never what the
\* launch of another account wrote after it.
ClientReadsItsSettings ==
    \A n \in Launch : client[n] = "starting" => file \in {left[n], "user"}

\* A client is bound to the account it was launched for, and it reads the settings that its
\* launch left.  Two calls for one account under way at once can break this even for prompt clients:
\* the second does not wait, since the account is seen already, and its intent meets the next one's.
ClientGetsItsOwn == ClientGoesToItsAccount /\ ClientReadsItsSettings

\* The order the user arranged is changed by reordering only, whatever stale row a
\* launch, a label or another edit saves meanwhile.
OnlyReorderReorders ==
    [][\A a \in Accounts : (row[a].present /\ row'[a].present /\ row'[a].order # row[a].order)
          => edits' = edits + 1 /\ row'[a].order = edits']_vars

\* Every call of launch_account ends, and with it releases the launch lock.
LaunchesEnd == \A t \in Threads : call[t].pc # "idle" ~> call[t].pc = "idle"

\* "Complete scans must also reconcile stale launching/in_game values": in the end a
\* runtime label is true, whatever an earlier session, the stale row a launch saves or a
\* label decided on an older scan has left in the row.
RuntimeLabelsSettle ==
    \A a \in Accounts :
        <>[](/\ row[a].present /\ row[a].status = "in_game" => Tracks(a)
             /\ row[a].present /\ row[a].status = "launching" => HasPending(a) /\ ~ Tracks(a))

\* Launches end, and the labels they and the scans leave behind become true.
LaunchesSettle == LaunchesEnd /\ RuntimeLabelsSettle

\* No two calls of launch_account for one account are under way at once.
NoOverlap ==
    \A t, u \in Threads :
        (/\ call[t].pc \in {"loaded", "checked"} \cup UnderLock
         /\ call[u].pc \in {"loaded", "checked"} \cup UnderLock
         /\ call[t].account = call[u].account) => t = u

\* "The production duplicate guard intentionally blocks a second click while this launch
\* intent is pending": one account never has two launches under way or running.
NoDuplicateLaunch ==
    \A m, n \in Launch :
        (m # n /\ client[m] \in {"starting", "running"} /\ client[n] \in {"starting", "running"})
            => owner[m] # owner[n]

=============================================================================
