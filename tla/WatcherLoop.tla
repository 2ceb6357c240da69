------------------------------ MODULE WatcherLoop ------------------------------
(***************************************************************************)
(* Who starts and stops the watcher thread: start_watcher, stop_watcher,   *)
(* _sync_watcher_loop and restore_backup of                                *)
(* services/application_service.py, and MonitorPollingLoop of              *)
(* watchers/process_monitor.py.  Stopping waits three seconds at most, so  *)
(* a slow scan outlives the call that stopped it, and a new generation of  *)
(* the thread may be started beside it.                                    *)
(***************************************************************************)
EXTENDS Naturals

CONSTANTS
    Callers,         \* bridge threads that change settings, restore or close
    MaxGenerations,  \* bound: watcher threads ever started
    MaxCalls         \* bound: calls of a caller

ASSUME LoopAssumption == MaxGenerations \in Nat /\ MaxCalls \in Nat

Generation == 1 .. MaxGenerations

VARIABLES
    enabled,    \* the setting watcher.enabled
    requested,  \* _watcher_requested
    current,    \* _watch_loop: its generation, 0 for None
    started,    \* generations started so far
    scanner,    \* scanner[g]: the thread of a generation, and its own stop event
    caller,     \* caller[u]: where a call is, and its local variables
    overlap     \* history: a call began while another one was under way

loopVars == <<enabled, requested, current, started, scanner, caller, overlap>>

-----------------------------------------------------------------------------
NoScanner == [pc |-> "none", stop |-> FALSE]
Returned(u) == [caller[u] EXCEPT !.pc = "idle", !.loop = 0, !.then = "return"]

Calls(u, pc) == caller' = [caller EXCEPT ![u].pc = pc]
Called(u, pc) == caller[u].pc = pc

Alive(g) == scanner[g].pc \in {"tick", "wait"}

-----------------------------------------------------------------------------
(* Calls *)

Entered(u, pc, then) ==
    /\ Called(u, "idle") /\ caller[u].count < MaxCalls
    /\ caller' = [caller EXCEPT ![u] = [pc |-> pc, loop |-> 0, then |-> then, count |-> @.count + 1]]
    /\ overlap' = (overlap \/ \E v \in Callers : ~ Called(v, "idle"))

\* main: the watcher is wanted from now on.
StartWatcher(u) ==
    /\ Entered(u, "start", "return")
    /\ requested' = TRUE
    /\ UNCHANGED <<enabled, current, started, scanner>>

\* update_settings stores the setting and then adapts the thread.
UpdateSettings(u, on) ==
    /\ Entered(u, "sync", "return")
    /\ enabled' = on
    /\ UNCHANGED <<requested, current, started, scanner>>

\* close
Close(u) ==
    /\ Entered(u, "detach", "return")
    /\ requested' = FALSE
    /\ UNCHANGED <<enabled, current, started, scanner>>

\* restore_backup stops the thread, and adapts it afterwards if it was requested by then.
RestoreBackup(u) ==
    /\ Entered(u, "detach", IF requested THEN "resync" ELSE "reload")
    /\ UNCHANGED <<enabled, requested, current, started, scanner>>

\* The restored database brings its own settings.
Restored(u, on) ==
    /\ Called(u, "restore")
    /\ enabled' = on
    /\ caller' = [caller EXCEPT ![u].pc = IF caller[u].then = "resync" THEN "sync" ELSE "idle",
                                ![u].then = "return"]
    /\ UNCHANGED <<requested, current, started, scanner, overlap>>

-----------------------------------------------------------------------------
\* _watcher_is_enabled
EnabledByDefault == TRUE
IsEnabled == enabled

\* _sync_watcher_loop
Sync(u) ==
    /\ Called(u, "sync")
    /\ IF ~ requested THEN caller' = [caller EXCEPT ![u] = Returned(u)] /\ UNCHANGED requested
       ELSE IF IsEnabled THEN Calls(u, "start") /\ requested' = TRUE
       ELSE Calls(u, "detach") /\ UNCHANGED requested
    /\ UNCHANGED <<enabled, current, started, scanner, overlap>>

\* start_watcher: the setting is read before the lock is taken ...
CheckEnabled(u) ==
    /\ Called(u, "start")
    /\ IF IsEnabled THEN Calls(u, "create") ELSE caller' = [caller EXCEPT ![u] = Returned(u)]
    /\ UNCHANGED <<enabled, requested, current, started, scanner, overlap>>

\* ... and a loop is made and started under the lock, unless there is one.
NeverThere == TRUE
LoopMissing == current = 0

Create(u) ==
    /\ Called(u, "create")
    /\ IF LoopMissing
       THEN /\ started < MaxGenerations
            /\ started' = started + 1 /\ current' = started + 1
            /\ scanner' = [scanner EXCEPT ![started + 1] = [NoScanner EXCEPT !.pc = "tick"]]
       ELSE UNCHANGED <<current, started, scanner>>
    /\ caller' = [caller EXCEPT ![u] = Returned(u)]
    /\ UNCHANGED <<enabled, requested, overlap>>

\* _stop_watcher_worker: the loop is taken away under the lock ...
Detach(u) ==
    /\ Called(u, "detach")
    /\ current' = 0
    /\ caller' = [caller EXCEPT ![u].pc = "stop", ![u].loop = current]
    /\ UNCHANGED <<enabled, requested, started, scanner, overlap>>

\* ... and told to stop without it; its thread is awaited for three seconds at most.
StopMarks(g) == IF g = 0 THEN scanner ELSE [scanner EXCEPT ![g].pc = "stopped"]
StopSet(g) == IF g = 0 THEN scanner ELSE [scanner EXCEPT ![g].stop = TRUE]

StopLoop(u) ==
    /\ Called(u, "stop")
    /\ scanner' = StopSet(caller[u].loop)
    /\ caller' = IF caller[u].then # "return" THEN [caller EXCEPT ![u].pc = "restore", ![u].loop = 0]
                 ELSE [caller EXCEPT ![u] = Returned(u)]
    /\ UNCHANGED <<enabled, requested, current, started, overlap>>

-----------------------------------------------------------------------------
(* MonitorPollingLoop._run: an exception of a tick does not end the thread. *)

HearsStop(g) == scanner[g].stop

TickEnds(g) ==
    /\ scanner[g].pc = "tick"
    /\ scanner' = [scanner EXCEPT ![g].pc = "wait"]
    /\ UNCHANGED <<enabled, requested, current, started, caller, overlap>>

\* The interval is over, or the stop event is set.
WaitEnds(g) ==
    /\ scanner[g].pc = "wait"
    /\ scanner' = [scanner EXCEPT ![g].pc = IF HearsStop(g) THEN "ended" ELSE "tick"]
    /\ UNCHANGED <<enabled, requested, current, started, caller, overlap>>

-----------------------------------------------------------------------------
LoopInit ==
    /\ enabled \in BOOLEAN /\ requested = FALSE
    /\ current = 0 /\ started = 0
    /\ scanner = [g \in Generation |-> NoScanner]
    /\ overlap = FALSE
    /\ caller = [u \in Callers |-> [pc |-> "idle", loop |-> 0, then |-> "return", count |-> 0]]

Scans == \E g \in Generation : TickEnds(g) \/ WaitEnds(g)

CallStep(u) ==
    \/ \E on \in BOOLEAN : Restored(u, on)
    \/ Sync(u) \/ CheckEnabled(u) \/ Create(u) \/ Detach(u) \/ StopLoop(u)

LoopNext ==
    \/ \E u \in Callers : \/ StartWatcher(u) \/ Close(u) \/ RestoreBackup(u)
                          \/ \E on \in BOOLEAN : UpdateSettings(u, on)
                          \/ CallStep(u)
    \/ Scans

LoopSpec == LoopInit /\ [][LoopNext]_loopVars

\* Ticks and waits are bounded, and calls return.
LoopFairness ==
    /\ \A g \in Generation : WF_loopVars(TickEnds(g) \/ WaitEnds(g))
    /\ \A u \in Callers : WF_loopVars(CallStep(u))

-----------------------------------------------------------------------------
(* Properties *)

\* Every variable has the shape the code gives it.
LoopTypeOK ==
    /\ enabled \in BOOLEAN /\ requested \in BOOLEAN /\ overlap \in BOOLEAN
    /\ current \in 0 .. started /\ started \in 0 .. MaxGenerations
    /\ scanner \in [Generation -> [pc : {"none", "tick", "wait", "ended"}, stop : BOOLEAN]]
    /\ caller \in [Callers ->
         [pc : {"idle", "start", "sync", "create", "detach", "stop", "restore"},
          loop : 0 .. MaxGenerations, then : {"return", "resync", "reload"}, count : 0 .. MaxCalls]]

\* "Clearing a new worker's event must never revive that old generation": a thread that
\* still scans is the current one, or it is told to stop, or a call is just about to tell it.
OneWatcher ==
    \A g \in Generation : Alive(g) =>
        g = current \/ scanner[g].stop \/ \E u \in Callers : Called(u, "stop") /\ caller[u].loop = g

\* An old generation ends, so that at most one thread goes on scanning.
OldWatchersEnd == \A g \in Generation : (Alive(g) /\ g # current) ~> ~ Alive(g)

\* If calls came one after the other, then between them the watcher is there exactly if it
\* is requested and enabled.  (Two calls that overlap may leave it otherwise: the setting is
\* read before the lock is taken.)
WatcherFollowsSettings ==
    (~ overlap /\ \A u \in Callers : Called(u, "idle")) => (current # 0 <=> requested /\ enabled)

=============================================================================
