# Astro Account Manager: models, checks and proofs

Astro Account Manager is a Windows desktop program that launches several Roblox clients, one for
each account, watches them, relaunches what crashed and plays macros into their windows. This
directory holds TLA+ models of the parts of it that keep state, the TLC runs that check them on
small instances, and TLAPS proofs for every size. `PROJECT.json` lists the runs, the mutants that
show each property can fail, the source lines of every definition, the hazards and the findings.

To repeat everything: `tlc -config X.cfg M` for the runs of `PROJECT.json`, `tlapm M.tla` for the
seven `*Proofs` modules.

## 1. Inventory

The user interface (`app/frontend`) calls `DesktopBridge` (`api/bridge.py`), which runs each call on
a worker thread of the web view and passes it to one `ApplicationService`
(`services/application_service.py`, with the mixin of `services/fleet_features.py`). The service owns
the repository (one SQLite connection under a lock), the credential vault, the process monitor, the
batch launcher, the macro engine and the watcher thread. It has no lock of its own around its
operations: most of them read a row, do something slow and save the row.

Threads: the bridge's workers; one watcher thread; one worker for each launch batch (a cancelled one
may outlive the next start); one thread for each macro run; the holder of the singleton mutex of
Roblox; the callback server of the OAuth login; the thread behind a browser sign-in; the local HTTP
servers; and, after the program has ended, the script that replaces its executable.

| Component | State it keeps | Operations | What is hard about it |
|---|---|---|---|
| Process monitor `watchers/process_monitor.py` | tracked clients, launch intents, relaunch queue, requested closes | scan, register, cancel, forget, bind, claim, close | observations are made outside the lock and committed later; PIDs are reused; enumerations are partial; a close writes back an old record |
| Watcher loop (same file, and the service) | `_watch_loop`, `_watcher_requested`, the setting | start, stop, sync, restore, close | stopping waits three seconds at most, so generations overlap |
| Launch service `application_service.py` | account rows, `_launch_lock` | launch, relaunch, reconcile labels, edit, reorder, delete | rows are saved whole from old copies; a check before the lock; slow clients |
| Rejoin rules `watchers/rejoin_rules.py` | the rule of an account, the policy a launch carries | plan at launch, plan again at dispatch | attempts are counted in two places; a rule may become unreadable between the two plans |
| Planners `watchers/launch_planner.py`, `resource_plan.py` | none | plan a launch, a frame cap, a capacity | machine and windows change between plan and start |
| Settings `application_service.py`, `core/windows_startup.py` | rows of settings, the file of Roblox, the Run key, the monitor's options | update, reset, start with Windows | several stores follow one another and each may refuse |
| Server registry `roblox/server_registry.py`, `server_intelligence.py` | history, blacklist | record, ban, pick, rank | read, change, write back by several threads |
| Coordination `automations/coordination.py`, `launch_profiles.py` | the row of profiles, a recalled server | four plans, waves, distribution, profiles | a distribution plans first and runs later |
| Client settings `roblox/client_settings.py` | flags of every installed version, the global settings and their copy | cap, uncap, apply, patch before a launch | the client writes the same file and reads it later; one of several writes may be refused |
| Windows `watchers/window_positioner.py` | layouts in account rows, restores that wait | restore, capture, close by rules | all by process id, which is used again |
| Batch launcher `roblox/batch_launcher.py` | queue, status and event of a batch | start, cancel, status, worker | old workers; waves; a readiness probe that never answers yes |
| Macro engine `automations/macros.py` | runs with cancel, pause and resume events | start, stop, pause, resume, thread | pause against stop; control actions replace the client |
| Direct input `automations/direct_input.py` | `_input_lock`, sessions, held keys | begin, end, key, press | one keyboard for all runs; keys left down |
| Fleet automation `services/fleet_features.py` | ledger, resumes, rule memory | watcher tick, emergency stop | what one tick decides, the next one carries out |
| Rule engine `watchers/rule_engine.py` | none | decide | hysteresis |
| Accounts and secrets `repositories/sqlite_repository.py`, `security/vault.py` | rows, groups, encrypted blobs | create, edit, delete, sign in, connect, disconnect, refresh | row, secret and flag are three writes; rows are saved whole from old copies |
| Transactions (same file) | depth, savepoints | enter, leave, fail | a refused `BEGIN` is counted |
| Backups `storage/backups.py` | backup files with manifests | create, verify, restore | atomic replacement; log of another file; end of the process |
| Imports `storage/*.py` | none | migrate, transfer, paste a list | record by record in one transaction, or call after call |
| Scheduler `automations/scheduler.py` | scheduled tasks with their last run | save, delete, due, run | one run for each slot; see the findings: it never runs one |
| Multi-instance `roblox/multi_instance.py` | a mutex owned by a thread | enable, disable, heal | a join with a timeout |
| OAuth login `roblox/oauth.py` | one pending login, terminal results | start, poll, cancel, close | expiry noticed only by a poll; poll against cancel |
| Browser login `roblox/browser_login.py` | results of sign-ins | start, capture, finish | a thread that returns without an answer |
| Updater `core/updater.py` | staged file, manifests | download, install on exit, cancel | power fails between steps of a replacement |
| Log runtime `watchers/roblox_log_runtime.py` | tailers, events, labels | poll | truncated and replaced files; bounded events; scans that cross |
| Web client `roblox/client.py` | caches | lookups | answers overtake one another |
| Other requests, launch mechanics, HTTP servers, integrations, frontend | little | I/O | not concurrent with anything above except through the service |

`components` in `PROJECT.json` gives every part with its status and, if it is not modelled, why.

What makes them correct, in a few words each: a running client that a scan could have seen is not
reported gone; one launch has one copy; a close is not taken for a crash; a client goes to the account
it was launched for and finds the settings its own launch left; a failed launch leaves no trace; a
server that failed is given up; no batch starts without memory; what follows the settings agrees with
them; nobody is sent to a server that was not eligible; labels become true; the queue counts every
account and two queues never launch together; a key is down for the run that owns the keyboard; a
stopped run ends; a stop reaches everything and stays; there is one watcher; an account that shows a
session has one; a restore loses nothing and can be used; an import says what it did; an interrupted
update leaves a program that starts; the mutex is held exactly as long as asked; sign-ins end; what
the user chose in the client survives; a window comes back where its own account had it.

## 2. Modules

| Module | Models | Checked in |
|---|---|---|
| `ProcessMonitor` | the monitor, its scanners and terminators, the clock and the operating system | `monitor_*` |
| `LaunchService` | launches, relaunches, labels and edits of the account table | `launch_*` |
| `Relaunch` | the rule, the policy and the two plans of a relaunch | `launch_prompt` |
| `SmartLaunch` | launch plans, frame cap, memory watchdog, capacity | `launch_prompt` |
| `SettingsChange` | updates and resets of settings, and what follows them | `launch_prompt` |
| `ServerRegistry` | history, blacklist and the choice of a server | `launch_prompt` |
| `Coordination` | spread, followers, sync, party, distribution, ranking, profiles | `launch_prompt` |
| `FleetAutomation` | the tick of the watcher, the rules, the ledger, the emergency stop | `fleet_stop`, `services` |
| `OAuthLogin` | dialog, two bridge calls, coordinator and receiver, saving the grant | `services` |
| `BrowserLogin` | results and threads of browser sign-ins | `services` |
| `MultiInstance` | the holder of the singleton mutex and the calls that switch it | `services`, `records` |
| `SingletonLock` | abstract: what multi-instance support promises | refined by `MultiInstance` |
| `BatchLauncher` | batches and their workers | `worker_threads` |
| `MacroEngine` | threads of macro runs and the keyboard | `worker_threads` |
| `WatcherLoop` | calls that start and stop the watcher, and its generations | `worker_threads` |
| `SettingsSnapshot` | the cached settings, writers and a restore | `settings_snapshot` |
| `AccountStore` | calls on accounts, groups, sessions and grants, step by step | `records` |
| `Transactions` | nested blocks of `SQLiteRepository.transaction` | `records` |
| `BackupRestore` | database file, log, backups, restore, crashes | `records` |
| `DurableStore` | abstract: what the database promises | refined by `BackupRestore` |
| `Imports` | transfer, migration, pasted list, export | `records` |
| `Updater` | staging and replacement of the executable | `records` |
| `LogRuntime` | the log of one client, its tailer and the label | `records` |
| `Scheduler` | tasks, slots and the tick | `records`, `schedule_runs` |
| `PublicLookups` | cache and requests of the web client | `records` |
| `ClientSettings` | flags and global settings of the Roblox client | `records` |
| `WindowLayouts` | windows, saved layouts, restores, close rules | `records` |
| `RowOrder` | what a list comprehension and a stable sort of Python do to rows | with the modules that use it |
| `MCProcessMonitor`, `MCLaunchService`, `MCFleetAutomation` | values for TLC | |
| `MCLaunchDecisions`, `MCServices`, `MCRecords`, `MCWorkerThreads` | several parts in one run | |
| `ProcessMonitorProofs`, `LaunchServiceProofs`, `WorkerThreadProofs`, `ServiceProofs`, `StorageProofs` | theorems (section 5) | |
| `FoldProofs`, `IntakeProofs` | lemmas about folds and rows; about lookups, logs and imports | |

One action stands for one critical section, or for what lies between two points where another thread
can interfere. The local variables of a call are the fields of a record for its thread (`scan[s]`,
`term[t]`, `call[t]`, `look[t]`, `thread[r]`, `worker[b]`, `change[u]`, `visitor[u]`, `applying[u]`,
`download[d]`, ...), so a value that was read before a gap and used after it stays the old value.

**ProcessMonitor.** `scan` is `ObserveProcesses` (no lock: what the enumeration shows, possibly half
of it; a process whose name psutil withholds is left out although the enumeration is whole,
`HiddenNames`), `BeginCommit`, one `StartTracking` or `Retire` for each identity in the code's sorted
order, and the end of the commit. Nothing else touches the monitor while a commit runs (`Unlocked`). A
close is split where the code leaves the lock: reading the record, the verification, and writing it
back. Intents and requests carry a `chain` (launch, attempt, account, policy); its `root` is history.
Time is a clock of small integers; the 45 s, 5 s and crash windows are constants in ticks.

**LaunchService.** `launch_account` is seven steps: read the row, check for a duplicate, take the
lock, prepare (settings file), register the intent, hand off or fail, wait, save the row and release.
What the code survives is a branch of the step: a file that cannot be written or has no cap of this
launch (`EnterLaunch`), an intent the monitor does not take, a row or label that is refused. Screens
write the same file outside the lock (`SetCap`); `left[n]` is history, what launch n left there.
The monitor appears as what the service asks of it (intents, who is tracked, what is due).
Reconciliation works on rows that were listed before and read again. `Saved` is `save_account`:
every column but the order.

**Relaunch.** One account. The policy is made when the user launches, from the rule and the settings
of that moment (`PolicyFor`), and travels with the intent; when a relaunch falls due the rule is read
again (`PlanFor`) and decides about the server. `PlanRejoin` is `plan_rejoin` as one expression.

**SmartLaunch.** `PlanLaunches` is the loop of `plan_launches` as a fold; the property says the
result again without the loop. The resource plan looks at the first windows only and caps all of
them; the smart launcher asks both, and clients come and go between a plan and its batch.

**SettingsChange.** A call is its reads and writes in order: the candidate is checked as a whole, then
the file of Roblox, then row by row, then the followers. Every write may be refused, which takes the
branch the code takes (put the file back, or leave what is written). The file itself is written in
two parts, the flags and the global cap: if the second is refused the first stays (`PatchRefused`).

**ServerRegistry, Coordination.** `record_server_visit`, `update_server_blacklist` and
`save_launch_profile` are a read of a whole row and a write of a whole row. The plans are operators
over sequences of accounts; the calls that queue them meet a batch launcher that takes one batch at a
time. `Ranking` is the order of `rank_servers` with the penalties of `score_server`.

**FleetAutomation.** The tick runs in the order of `_watcher_tick`: claimed relaunches, rules,
ledger, resumes. The rules decide for the accounts in the groups they cover, which the user changes
(`Regroup`), by priority and for `MaxDecisions` accounts at most; a recommendation that only the user
applies counts too, so beyond that limit (`Crowded`) any part of the decisions may be what is left.
Starting a macro is two steps, the capacity check and the registration. An emergency
stop is a loop over the runs listed at its start, then the batch queue, the resumes and the rules.
`human` and `quiet` are history.

**BatchLauncher.** `worker[b]` is the thread of batch `b`, with its place in `_run_batch` and
`_wait_for_wave`; `status[b]` and `cancel` belong to the batch, as in `_BatchRun`. A launch is one
step that accepts or not.

**MacroEngine.** `thread[r]` is the place of a run in `_execute`, `_execute_actions` and
`_run_control_action`. `owner` is `_input_lock`, `thread[r].session` the session of the backend and
`down` what Windows has down. Any action may fail (`Refused`), the client may go at any time.

**WatcherLoop.** `start_watcher`, `update_settings`, `close` and `restore_backup` with the gaps
between reading the setting, taking `_watch_lock` and stopping the old loop; `scanner[g]` is the
thread of a generation with a stop event of its own.

**SettingsSnapshot.** `get_settings` in three steps, `set_setting` in two (the revision moves, then
the row is written), `restore_backup` in two.

**AccountStore.** A call of the service is the list of its reads and writes; between two of them
another call may run, and each may be refused. A row is written whole from the copy the call read.
A secret tells whose it is, so a blob stored for another user is seen. `renamed` and the marks on
accounts that two calls touched are history.

**Transactions.** One thread, since the repository holds its lock. A block is a number; `open` is what
SQLite has begun, `depth` what the code counts. A `BEGIN` or a `COMMIT` may be refused; what a refused
`BEGIN` does to the depth is `RefuseBlock` and `RefuseSavepoint`.

**BackupRestore** and **DurableStore.** Contents are numbers, a file holds a content, and the
write-ahead log belongs to one file. `restore_backup` is seven steps, each of which may fail or be the
last before the process ends. Opening a database fails for a later schema and for any error of SQLite;
the second is caught by no `except` of `restore_backup`, and swallowed by the reopening, so the
restore is over with the repository `unopened`. What a reader would find (`Readable`) and the contents
a restore may take (`Copied`) are the two variables of `DurableStore`, which changes by commits and by
putting a copy back, and by nothing else.

**Imports.** One transaction with a savepoint for each record (transfer, migration), or call after
call (pasted list). `tables` is what is committed, `work` what the importing thread sees inside its
transaction, and `twice` counts the records of a pasted list that the report counted twice.

**Updater.** A file is the release it holds, torn, or absent; the script of a helper is one action for
each statement, and any statement may fail, which ends it. `PowerFails` may come anywhere. Nothing in the
code keeps a second helper from being started while one is at work, nor the application from running
twice (`ExitOfOne`): `helper` is a function of helpers, and `together` counts the steps since there were
two, or since a copy was left when one ended.

**LogRuntime.** A line is what the patterns make of it. Two threads may scan; a scan reads the label,
writes it, polls the log and applies the events it has not seen.

**Scheduler.** Time in parts of a day, a week of a few days. `DueSlots` and `NextRunAt` are the two
functions of the scheduler, the tick is `run_due_scheduled_tasks`.

**MultiInstance** and **SingletonLock.** A handle is the number of the holder that opened it, so a
holder that closes the handle of another is seen. The abstract lock is taken only when nobody has it,
kept while it is asked for, and free when the call that turns it off returns.

**OAuthLogin, BrowserLogin.** The dialog, its timer and its two calls, the coordinator under its lock,
the receiver, and saving outside the lock; results of sign-ins and the thread of each.

**PublicLookups.** What Roblox answers is told by the moment at which it was so, which is all that
freshness is about.

**ClientSettings.** A method of the patcher is one step (it holds its lock) with the outcomes of its
writes: nothing, the flags of some folders, the flags and not the global settings. Each file is
written whole in a step, also where the code copies over it (`shutil.copy2` of the backup copy and of
the restored global settings, client_settings.py 327, 355, 526): an end of the process in the middle
of such a copy is not modelled. The cap stands for all flags Astro manages, the volume for all other
global settings. `apply_roblox_settings` is four steps: the cap, the global settings, and the cap
back.

**WindowLayouts.** A round of the watcher is scan, restore, capture and close, with clients, the user
and screens between them. `excused` is history: clients for which the code's own limits (the 45 s,
the setting switched, a late binding, a reused process id) mean that nothing or the wrong thing waits,
and those that have shared the one layout of their account with another client.

## 3. Runs

| Run | Asks | Bounds, and why they are enough |
|---|---|---|
| `monitor_matching` | attempts stay within the policy, one copy of a launch, no running client reported gone | two PIDs, so that an intent can be ambiguous and a PID reused; two launches; two ticks with intents that live for one, so that they expire; names may be withheld from any scan |
| `monitor_close` | a requested close is never relaunched, its request does not leak, ghosts disappear | one PID, a terminator beside two scanners, two policies (one relaunches on every exit), queues of one |
| `monitor_forgotten` | violation: a deleted account is relaunched | as above |
| `launch_prompt` | clients get their own account and settings; and what is decided about launches | launch: two threads that launch an account each from rows that are ready, with relaunches, two calls, clients seen within the wait, a file that refuses or is written by a screen at any time. Relaunch: thresholds 0 to 2, three attempts, two asks. Smart launch: three accounts, waves of one and two, plans cut at two accounts and two windows. Settings: two threads, two calls, one refused write. Registry: two threads, three servers, history of two, blacklist of one, three visits. Plans: four accounts of which three are taken, parties of two, one profile of two identifiers |
| `launch_settles` | launches end, labels settle, only reordering reorders | one launch and one edit, one write of the cap, or one refused label, from any label an earlier session left; intents that are not taken; a client that ends is queued, and the bound on calls drops that relaunch (`launch_prompt` carries relaunches out) |
| `launch_duplicate` | violation: two launches of one account | two threads, one account |
| `fleet_stop` | violation: a macro starts after the stop | one account, two runs, one stop; the second run is what a stop could miss |
| `services` | the stop reaches every run; rule pauses, stopped runs and sign-ins end; the mutex is where `_enabled` says | as above; the fleet is there twice, with a stop and fixed groups (`"stop"`) and with groups that change and no stop (`"groups"`); one account, so the limit on decisions is only in the condition; one switcher and two holders (the first one may be forgotten); two logins, three sign-ins (one that is silent, one that fails, one refused) |
| `worker_threads` | the properties of the three worker components | two batches of up to three accounts in waves of two, so that a full wave, a short last one and a cancelled older worker occur; two runs, two clients and a key, so that a run can follow a new client; two callers with two calls and two generations |
| `settings_snapshot` | violation: an old snapshot is trusted | two threads, one restore |
| `records` | what is kept, read and held | accounts: two calls at once, two users, three accounts. Transactions: three deep, six blocks. Backups: three (one is the safety copy), two commits, one crash. Imports: two records. Updates: two downloads, three releases, two helpers, two steps from the moment two are at work (what follows is open, see section 4). Log: two scanning threads, three lines of the four kinds that move the data model or the label, pieces of two, events of one, two files. Schedule: two weeks of two days, a grace of one. Mutex: two switchers, two holders. Lookups: two threads, two users, a cache of one. Client files: two versions, two refused writes, two changes from outside. Windows: two process ids, two clients, two accounts, so that a process id is used again and two clients share an account |
| `schedule_runs` | violation: a due task runs | as above |

`launch_prompt`, `services`, `worker_threads` and `records` put several parts side by side: the first
state chooses one of them, and a behaviour takes the steps of that part; the others stay in one
initial state. Parts share no variable. Nothing of another part is enabled, so its fairness asks for
nothing. A property of such a run is the conjunction of what its parts promise, each named.

Symmetry: in `launch_prompt` the two launching threads can be exchanged together with the accounts
they launch, and so can the two threads of the registry and of the settings; in `records` the two
threads that read logs or ask Roblox, and the two process ids of the windows, which also name the two
helpers of an update. The properties of
these two runs are invariants and action properties that name none of them, and no definition
chooses among them. `services` and `worker_threads`, which check liveness, have no symmetry.

All runs say `CHECK_DEADLOCK FALSE`: when the bounds on launches, calls or clocks are used up and
every thread is idle there is nothing left to do. That nobody waits for ever is what the liveness
properties say instead.

Every property of a passing run has a mutant in `PROJECT.json`: a definition of the model changed as
a plausible bug would change the code (a shared event, a forgotten guard, an index off by one), under
which TLC finds the property violated.

### Fairness

* `ProcessMonitor`: a scan that began goes on, scans keep coming and not all of them are partial (the
  watcher thread loops, and an exception of one tick does not end it); a close that was begun runs to
  its end, since `wait` has a timeout. Nobody is obliged to begin a close.
* `LaunchService`: calls go on. Strong fairness for the locks, because the watcher is outside them
  for seconds between two ticks; deadlines pass.
* `FleetAutomation`: the tick goes on, calls of the user return, a thread that was cancelled comes to
  its next look at the events. `RulePausesEnd` also assumes that the machine is not under pressure
  at every evaluation: a condition on the environment, since a rule may pause as long as it lasts.
* `MultiInstance`: threads run; Windows wakes a waiter of a mutex that is free again and again.
* `OAuthLogin`, `BrowserLogin`: timers fire, calls return, waits are bounded. Nobody has to answer in
  the browser.
* `worker_threads`: a worker's launch returns and its waits are cut off; an action of a macro is
  bounded, but no fairness is given to resuming a paused run, nor to giving a lock that another run
  keeps; ticks end.

### Refinements

`ImplementsDurableStore` and `ImplementsLock` in `records` say that every step of the detailed module
is a step of the abstract one, or a stutter, under the mapping given by `INSTANCE ... WITH`. The lock
is implemented as long as calls do not overlap and no wait times out (`calm`); with overlaps
`MutexIsTrue` in `services` says what is left.

### Conditions that some properties need

* `HiddenBirths = FALSE`: Windows lets the monitor read the creation time of a client. If it is
  withheld in one scan and not in the next the identity changes, and `NoFalseExit` and
  `OneCopyPerLaunch` fail. The theorems carry the same assumption.
* `NoFalseExit` excepts a client whose name psutil withheld from the very scan that reports it gone
  (`nameless`): `_to_observed` drops it and the scan counts as complete. `monitor_matching` lets names
  be withheld at any time (`HiddenNames = TRUE`). With readable names, as in the other two runs of the
  monitor, nothing is excepted. `ClosedStaysClosed` needs readable names, and `OneLaunchOneCopy` needs
  them if anything is closed: a close that has read the record of such a client writes it back beside
  the relaunch that its false exit has queued.
* `Prompt` in `launch_prompt`: the monitor takes the intent of each launch, and its client is seen within
  the 1.2 s that the launch waits under the lock. A slower client can meet the intent of the next launch;
  the monitor then leaves both as orphans (it refuses to guess).
* `NoOverlap` (theorems `ClientsGetTheirOwn`, `ClientsGoNowhereElse` and `NoAccountTwice`): no two calls
  of `launch_account` for one account are under way at once, whoever makes them, relaunches included.
  What overlapping calls lead to is finding 1, and for `ClientGetsItsOwn` this: the client of the account
  dies, the relaunch of the watcher and a launch by the user both pass the duplicate check before the
  lock, the wait of the second ends at once because the client of the first is there, and a third launch
  finds two intents pending. That takes more calls than the two of `launch_prompt`, so the run has no such
  condition. The first and the third of the theorems also assume that nothing is deleted; with deletions
  the worst is a client that belongs to nobody (`GoesNowhereElse`), never to another account.
* `ClientReadsItsSettings` compares the file with what the launch *left* there, or what a screen wrote
  since. That a launch leaves its own account's settings is not so in general: it goes on when the file
  cannot be written, and keeps the cap in the file when nothing names one (section 4).
* One terminator: with two closes of one client at once, the denied one clears the request of the
  other, and `ClosedNotRelaunched` fails.
* `StopReachesAll` needs at most as many threads that start macros as `list_runs` shows runs (100): a
  stop goes through the list, and a run that is at work could be pushed off its end. The 100 finished
  dry runs that could push it off as well are not in the model.
* `LayoutsHold` is about the clients that are not in `excused`, and about accounts with one client at
  a time: two clients share the one layout of their account, and the place of the second, where Roblox
  opened it, is captured over what was saved from the first.
* `StoppedFinishes` excepts a run that waits for the keyboard of a paused run: `begin_run` takes the
  lock without a time-out and hears no cancellation. A paused run whose client is gone keeps the
  lock until it is resumed or stopped.
* `WatcherFollowsSettings` is about calls that do not overlap. `start_watcher` reads the setting
  before it takes the lock, so overlapping calls can leave the watcher against the setting.
* `SecretsFitAccounts` is about accounts that no two calls worked on at once: a stale row undoes what
  the other call did. `FailedCallLeavesNothing` excepts a call whose own rollback is refused.
* `SettingsAgree` says which agreement survives what (`Except`): overlapping calls, an update refused
  half-way, flags written before the global cap was refused, a compensation refused in turn, a monitor
  that was not told. It is about settings alone: a launch with a cap of its own writes the same file.
* `RulePausesEnd` is about accounts that the groups of the rules go on to cover, and about evaluations in
  which the limit on decisions cannot cut a client off (section 4).
* `UsableAfterRestore` allows a repository that could not be opened again (`unopened`); what it excludes
  is a way out of a restore that leaves the old connection closed and does not try.
* `BlocksAreAtomic` speaks of the depth only until a `BEGIN` is refused.
* `UpdatesAreSafe` ends where a second helper is at work, or one of two running copies of the application
  ends.
* `LabelFollowsLog` holds from the next telling line on after a dropped event or crossing scans.
* `RefusalIsUndone` leaves out calls that somebody else's change overlapped.
* `NoSignInWaits` excepts a browser that never opens DevTools, and `NoLoginWaits` a dropped dialog.

## 4. Findings

1. `launch_duplicate`: the duplicate check stands before `_launch_lock` and the intent that it looks
   for is registered under the lock, so two quick calls for an account both pass.
2. `monitor_forgotten`: `terminate_known_process` writes back the record it read before its
   verification. `forget_account` in between is undone, and the deleted account is relaunched.
3. `fleet_stop`: the emergency stop disarms the rules but not the relaunch policies. A relaunch that
   falls due later resumes the remembered macro, which the docstring says a stop prevents.
4. `settings_snapshot`: the repository of a restored backup counts its revisions from zero again, so
   a snapshot from before the restore is trusted. `set_setting` moves the revision before it writes.
5. `schedule_runs`: `due_tasks` returns records of a task and its slot, the tick takes each for a
   task, and no scheduled task is ever run.

### Seen while modelling

Behaviour that surprised us, and that no property claims or denies unless said above.

* Monitor: a comment in `_to_observed` (process_monitor.py 943-945) says that a process which cannot be
  read makes the whole snapshot uncertain rather than look as if it had exited. That is so when reading
  raises; but psutil gives `None` for a name that is denied, the process is then dropped and the snapshot
  stays complete (927-928), so a tracked client that runs is reported gone and may be relaunched beside
  itself. A creation time that is denied gives the client a second identity.
* Launches: when the settings file cannot be written the launch goes on, with a notice, and its client
  reads what an earlier launch or a screen left (1090-1102); a launch without a cap of its own takes over
  the cap that the launch of another account wrote (1074-1075). `update_settings` (1680) and the screens
  write the file without the launch lock, between a launch and the start of its client.
* Fleet: the ledger keeps the oldest listed macro of an account as `last_macro`; a pause by a human
  can be taken for a pause by a rule when the run was once paused by a rule; a rule that restarts a
  stuck macro usually finds it still running and only stops it; a macro resume is dropped after 40
  attempts; a macro that a rule paused stays paused, though the rules are armed, when its account
  leaves the groups they cover (rule_engine.py 346-347) or stays behind the limit on decisions (351),
  to which recommendations count as well; `list_runs` shows 100 runs, so a live run behind 100 dry
  runs is not reached by a stop.
* Relaunch: the docstring of `_restart_policy_for` says that the delay grows with each attempt, but
  `_dispatch_due_restarts` passes on the policy of the request, so it never does. Disarming an account
  does not stop the relaunch of a client that runs. A relaunch goes to the server of the intent, not
  to the one the log reported. A rule that cannot be read at dispatch keeps the server.
* Smart launch: waves and `max_concurrent` are reported and not used, the batch launcher gets the
  delay; at level "warn" the message says that new launches are held back, but only "critical" vetoes.
* Settings: an update whose cap is refused after the flags were written (client_settings.py 683-687)
  raises and leaves the flags as they are, with the old settings stored; one refused half-way keeps
  the rows it has written while the file is undone; overlapping updates can store thresholds that
  contradict each other; a reset removes the start with Windows first, even if the rest is refused.
* Registry and plans: a failed read followed by a save erases the history or the blacklist; a report
  of no players keeps the old count; a distribution without an eligible server falls back to the
  history, blacklisted servers included; the spread of a coordinated plan ignores the blacklist; the
  accounts of a plan are counted before duplicates are removed; the action of a sync plan (teleport or
  rejoin) is not used when it runs.
* Accounts: a stale write can bring a deleted account back; a cookie sign-in looks for the name only;
  a disconnect whose save fails shows "connected" without a grant.
* Transactions: a refused `BEGIN` leaves the depth at minus one, and from then on every call fails
  until the program is started again. No property states this as intended: the steps are in the model and
  `BlocksAreAtomic` stands aside.
* Backups: a backup of a later program is refused only after it has replaced the database, and neither
  the reopening nor the next start goes back to the safety copy. An `sqlite3.Error` while the restored
  file is opened is caught by no clause (1960-1971), so nothing is reopened; and when the reopening
  after another failure fails, the error is logged and swallowed (2091-2092). Both leave the program
  without a database until it is started again, since a further restore fails at its checkpoint.
* Updater: nothing stops a second helper (updater.py 283-349) or a second copy of the application. Two
  helpers share the incoming file and the backup. With the condition dropped TLC shows in 18 steps
  that one moves the half-written copy of the other onto the executable, after the hash was checked,
  and in 20 that a torn backup leaves no whole executable at all.
* Imports: a migration overwrites accounts that exist and takes their session flag; a bulk record whose
  password is refused counts as imported and as failed; an account saved with place 0 exports a
  document that the importer refuses.
* Sign-in: a browser that never opens DevTools ends without an answer and blocks later sign-ins; a
  dropped OAuth dialog blocks later logins.
* Logs: beyond the limit of a poll the newest events are lost; a single client and a single log are
  paired whatever their times, although the docstring names 45 s.
* Client files: the copy of the global settings is made once and never renewed, and every launch
  without a cap restores its cap over what the user chose later; the flags are written already when
  the message says that the frame-rate setting was left unchanged; a cap of 0 set by a screen does not
  restore the global cap whereas a launch without one does; without a cap in the active version those
  of the other versions stay.
* Windows: after 45 s, after the setting was switched, or for a client bound late, the place where
  Roblox opened the window is captured over the saved layout; a reused process id gets the layout of
  the account that waited for it.
* Lookups: a profile whose avatar could not be fetched is kept as long as a complete one; an older
  answer that arrives later overwrites a newer one, within the freshness that `AnswersAreFresh` states.

## 5. Proofs

A theorem holds for every value of the constants: any number of threads, accounts, clients, keys,
calls, crashes, and any bounds, from the named assumptions of the component. Some theorems assume more,
and say so in their statement: creation times or names can be read (`HiddenBirths`, `HiddenNames`), one
terminator, `Prompt` clients, calls that do not overlap (`[]NoOverlap`) and no deletions (section 3), or
at most `MaxListed` threads. The assumptions on constants
themselves ask for little: bounds are natural numbers, a log is one of at least one file, and the
users that are asked for and the names of records are finite sets, the names not empty. The larger
inductive invariants (`LaneInv`, `CopyInv` of the monitor, `OAuthInv`, `StoreInv`, `WindowInv`, `LogInv`
and `ImportsInv`) were checked with TLC on instances of up to nine million states before they were
proved.

### The monitor (`ProcessMonitorProofs`)

* `TypeCorrect`, and `RunningNeverReportedGone` (`NoFalseExit`). The step that could break it is
  `Retire`, which trusts an observation made some steps ago. `ExitInv` says what that observation is
  still good for: `KnownArePast` (every identity that the monitor tracks, holds or has seen has
  started already, so none of them comes to life again), `OneScan` (`_scan_lock` keeps an older
  observation from being committed after a newer one), `ObservationCovers` (a complete observation
  contains every live identity that is tracked, or that a close holds and may write back, apart from those
  whose name was withheld from it), and
  `TodoAreDead` (the commit retires only identities that are not alive).
* `RelaunchesAreBounded` (`AttemptsBounded`). The bound is needed wherever a chain may wait: in a
  request, an intent, a record, and in the copy that a close has read and will write back.
* `RequestsDoNotLeak` (`NoLeakedRequest`) and `ClosedStaysClosed` (`ClosedNotRelaunched`). While its
  close is waited for, a record keeps its request; if the record goes first, the client is dead and no
  scan under way has seen it (`AskedInv`).
* `OneLaunchOneCopy` (`OneCopyPerLaunch`). For each launch, `OneOf` counts the waiting records and
  the clients that carry it, where a client may also carry it through the copy that a close holds.

### Launches (`LaunchServiceProofs`)

* `LaunchTypes`, `OrderIsTheUsers` (`OnlyReorderReorders`), `FailedLaunchesLeaveNothing`.
* `ClientsGetTheirOwn` (`ClientGetsItsOwn`), `ClientsGoNowhereElse`, `NoAccountTwice`, all for prompt
  clients and calls for one account that do not overlap (`Alone` in the lemmas). `LaneInv` says that
  the launch lock is a lane: the intent of a launch, its client and what the file of Roblox holds
  belong to the thread in the lane until its wait is over (`IntentsHeld`, `ClientsHeld`, `FileIsHis`),
  a scan under way knows no more than that (`ScansFit`), and a launch that failed left nothing
  (`NoTrace`). `NoAccountTwice` is the property that `launch_duplicate` shows violated when two calls
  for one account are under way at once; here threads and relaunches may launch one account as often
  as they like, one after the other. By `LaneInv` a client that runs is tracked for its account or
  belongs to a call that is still under way, and `OneEach` says that no account is tracked twice.
* `ServersAreLeftInTime`, `NothingUnarmedComesDue`, `ShutServersAreLeft` (module `Relaunch`): the
  attempts of an intent bound the returns to one server, the policy that travels with it was made
  when the user asked, and what is due follows from the client that ended (`RelaunchInv`).
* `DecisionTypes`, `PlansAreAlwaysRight` (`PlansAreRight`) and `DecisionsAreKept` (`DecisionsHold`),
  for the parts of `launch_prompt` together (`DecisionInv`). `SmartInv`: a plan that waits to be
  started is the plan of its request under the settings, so `PlanIsRight` is a fact about
  `PlanLaunches`, and the batch that is started names nobody twice (`VetoHolds`). `RegistryInv`: each
  server has one row, which never counts more than happened (`NotMore`), and counts all of it until a
  call writes back an old copy of the history (`AllTold`); what a call still works with is a history
  of that kind too (`CallHolds`). `CoordinationInv`: what is queued, listed and recalled is made of
  the clients and servers that were there, and a profile about to be saved has room once the row it
  replaces is gone. The rankings and plans are folds and sorts over rows; what those do is proved in
  `FoldProofs`.
* `SettingsFollow` (`SettingsAgree`). `ChangeInv` says for each place of a call which store agrees with
  what already (`Sound`), and that between calls all agree (`Settled`), except after the refusals that
  the property names. `UserObeyed` joins it with `Relaunch` to `UserIsObeyed`, as in `launch_prompt`.

### Workers (`WorkerThreadProofs`)

* `StatusIsTrue`, `EveryAccountCounted`, `OnlyOneQueue`. The strengthening is `Heard`: a worker that is
  alive is the latest one or its event is set. `start_batch` relies on it: it starts when the status
  says that nothing is in progress, and `ShownIsTrue` turns that into "its worker is gone or
  cancelled". Then an account is taken only by a worker that is not cancelled, that is, the latest.
  `Unborn` says that a batch which is still to come has no trace, `Counts` adds the place where a batch
  ends to the count.
* `WavesAreNumbered` (`WaveIsRight`): `Numbered` says at each place of a worker which wave is shown; a
  boundary of `_run_batch` is the step at which the quotient moves.
* `NoForeignKeys` and `SessionsFit`. The invariant is their conjunction with the types; neither is
  inductive alone. A key is pressed only by a run with a session, a session is the lock, so ending the
  session gives back the keys of exactly the owner.
* `NoLostWatcher` (`OneWatcher`). The duty to stop a thread is passed on from `_watch_loop` to the call
  that takes it, and from there to the event of the thread; it is never dropped.
* `WatcherObeys` (`WatcherFollowsSettings`). `FollowInv` says what a call that is alone relies on at
  each of its places, and that between calls the loop is as the settings say. `WorkersObey` joins it
  with the waves to `WorkersFollow`, `ThreadTypes` the types, as in `worker_threads`.

### Services (`ServiceProofs`)

* `AnswersAreTrue` (`NothingAddedIsTrue`). An answer that is under way to the dialog is about a login
  that is over and was not linked, and a login that is linked was completed (`OAuthInv`); a poll
  that is about to save excludes both.
* `BrowsersAreOne`: a sign-in whose browser is open still shows as waiting. With one receiver it makes
  `SignInsAreOne` (`OneSignIn`).
* `StopsReachAll` (`StopReachesAll`): the list that a stop goes through holds every run that is at work,
  because the runs listed before it and those about to be registered are fewer than the threads, and
  these no more than the list shows (`NewestWork`). `ServiceTypes` is `ServiceTypeOK`.
* `HoldersImplementTheLock` (`ImplementsLock`): the refinement of `SingletonLock` while calls do not
  overlap and no wait times out. `LockInv`: then one holder lives, the call knows which, and it has
  given the mutex back when the call forgets it. `EnabledMeansOwned` is the first half of `MutexIsTrue`.

### Folds and rows (`FoldProofs`)

The folds of the community modules are recursive functions over sets that `CHOOSE` takes apart. The
lemmas say, by well-founded induction on sets of places, that such a fold over a finite set is there
(`FoldIsThere`), has what each of its steps keeps (`FoldFits`), and over a sequence goes from left to
right (`LeftToRight`), so that a proof can follow it row by row. `TakenInOrder` and `SortedInOrder` say of
`RowOrder` what a comprehension and a stable sort leave of the rows, and in which order.

### What comes in (`IntakeProofs`)

Lemmas for the theorems of `StorageProofs`; each part has an inductive invariant.

* Lookups, `LookupInv`: an entry of the cache is no older than the answer it holds, a call ends within
  two requests, and what it has found was good when it began (`LookupKnows`).
* The log of a client, `LogInv`. `Verdict` is a fold over the lines of the log; somebody who hears
  the lines one after the other (`HeardBy`) knows it at every line. The tailer agrees with him up to the
  place it has read (`Alike`), and once a line that surely tells of the client was read, either a
  newer one is still to be read or a scan is going to say it (`CleanInv`, in `FollowsWho`). What crossed
  scans, dropped events or a replaced file have spoilt waits for the next such line.
* Imports, `ImportsInv`. Every table that is there or under way is `Sound`: a session has its blob, an
  account its group. `TransferTrue`, `LegacyTrue` and `BulkTrue` say at each place of an import what
  its counters have counted so far. `BackAfter` says what the first records of an export have brought
  back; every record brings one more row and spoils none.

### Storage (`StorageProofs`)

* `NothingHalfCommitted` (`BlocksAreAtomic`): what is open in SQLite is disjoint from what is committed
  or undone, block by block, and until a `BEGIN` is refused there is one open level for each block.
* `RestoreKeepsThePromise` (`ImplementsDurableStore`) and `RestoresAreSafe`. The first is the
  refinement: initial states map to initial states, and every step of a backup, a restore or a crash
  to a commit, the putting back of a whole copy, or a stutter. `BackupInv` says where the restore is
  when the repository is closed, and that no log waits when the file is replaced.
* `CopiesAlwaysFit` (`CopiesFit`). `StoreInv` has two layers. What holds whoever else works: the record
  of a call knows its own user and grant (`CallsKnown`), and two calls on one account mark it
  (`CallsApart`). And for an account that one call at a time works on (`AllFit`): what that call may
  rely on at each of its places, whether the row in the table fits the secrets, or fits with the
  grant there was before, and whether the row it is about to save will. `halved` marks the rollbacks
  that were refused. `CopyInv` is the same for the global settings of the client: a copy is only made
  before the first change, so its cap is the user's.
* `NothingIsEverLost` (`NothingIsLost`), of three. `FailuresLeaveNothing` reads `StoreInv` at the step at
  which a rollback ends. `ClientFilesAreKept`: a call that nobody overlapped and that has changed
  nothing yet finds the cap it has read (`FilesInv`), and each method of the patcher, whatever of it is
  refused, leaves the user's flags and the volume (`SetFits`, `RemoveFits`, `PatchFits`).
  `LayoutsAreKept`: `PlaceFollowed` lists why the place where Roblox opened a window is not going to be
  captured over a saved one (it was moved, is not seen yet, waits to be put back or is about to, or
  there is nothing to overwrite); `RoundFits` says that what a round has seen is still of the clients
  that are there.
* `SchedulesAgree` (`ShownSlotComesDue`, a part of `ShownIsSo`): the slot shown is the first one
  ahead, and the last run is never in the future (`ScheduleInv`). That there is a first day is
  well-foundedness.
* `InstallationsAreSafe` (`UpdatesAreSafe`): between the statements of the helper the backup equals the
  program, or is whole while the program is gone, and what is staged is never older (`UpdateInv`, as long
  as `together = 0`). `UpdaterTypes` holds whoever is at work.
* `RecordTypes` (`RecordsTypeOK`), `ShownSoAlways` (`ShownIsSo`) and `ImportsStaySafe` (`ImportsAreSafe`):
  `RecordsInv` joins the invariants of all parts of `records`, each of which takes its own steps and
  leaves the variables of the others alone. `ShownIsSo` follows from `LogInv`, `ScheduleInv` and
  `LookupInv`, `ImportsAreSafe` from `ImportsInv` and its steps.

### What is only model-checked

* Everything under fairness, which the prover does not reach: `GhostsDisappear`, `LaunchesSettle`,
  `MacrosEnd`, `EverySignInEnds`, `WorkersEnd`, and the second half of `MutexIsTrue` (`GivenBack`).
* The five properties of section 4 that the code does not have: TLC shows how each is violated.

Every invariant and every action property of a passing run is stated by a theorem.

## 6. Not modelled, and the plan

Not modelled: parsing and validation of what the user types, formats, logging, wording, the bytes of
HTTP requests and the calls of Windows beyond their outcome, macro dry runs and the pointer,
statistics and alerts, hiding and showing windows, the frontend apart from the OAuth dialog. The
loopback server authorises a request and calls an operation that is modelled. Nexus (remote control
of clients by WebSocket) is in the tree, but its feature flag is off and no screen reaches it.

What is left to do: theorems about launches with slow clients or with calls that overlap, which need a
weaker property than `ClientGetsItsOwn` (section 3); a weaker abstract lock that the holder implements
also when calls overlap; and the components listed as not modelled, with the pointer and the window
messages of `direct_input.py`.
