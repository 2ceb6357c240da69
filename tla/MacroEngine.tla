------------------------------ MODULE MacroEngine ------------------------------
(***************************************************************************)
(* The threads of macro runs (automations/macros.py) and how they share    *)
(* the one keyboard of the machine (automations/direct_input.py).  A run   *)
(* is pinned to one verified client.  It takes the process-wide input lock *)
(* and focuses the client once (begin_run), keeps both while it acts or is *)
(* paused, and gives them back at its end and before it launches or        *)
(* restarts a client itself (end_run).                                     *)
(*                                                                         *)
(* Several runs can be live at once, as with the flag multi_window_macros. *)
(* Dry runs press nothing and are left out, and so is the pointer.         *)
(***************************************************************************)
EXTENDS Naturals

CONSTANTS
    Runs,        \* threads of macro runs
    Clients,     \* Roblox clients: a pid with its creation time and its window
    Keys,        \* keys a macro can hold
    NoClient, NoThread,
    MaxActions   \* bound: actions of one run

ASSUME EngineAssumption ==
    /\ NoClient \notin Clients /\ NoThread \notin Runs
    /\ MaxActions \in Nat

VARIABLES
    life,     \* life[c]: "unborn", "open" or "gone"
    thread,   \* thread[r]: where the thread of run r is, and its fields
    owner,    \* the thread that holds _input_lock
    down      \* down[k]: the run that pressed the key, while Windows has it down

engineVars == <<life, thread, owner, down>>

-----------------------------------------------------------------------------
Fresh == [pc |-> "idle", client |-> NoClient, session |-> NoClient, key |-> "none",
          cancel |-> FALSE, paused |-> FALSE, step |-> 0]

Goes(r, pc) == thread' = [thread EXCEPT ![r].pc = pc]
At(r, pc) == thread[r].pc = pc
Started(r) == thread[r].pc \notin {"idle", "finished"}

\* verify: the pid is still the same client, and it has a window.
Verified(r) == thread[r].client \in Clients /\ life[thread[r].client] = "open"

\* The keys in session["held"].
Held(r) == {k \in Keys : down[k] = r}

-----------------------------------------------------------------------------
(* Clients *)

ClientOpens(c) ==
    /\ life[c] = "unborn"
    /\ life' = [life EXCEPT ![c] = "open"]
    /\ UNCHANGED <<thread, owner, down>>

ClientCloses(c) ==
    /\ life[c] = "open"
    /\ life' = [life EXCEPT ![c] = "gone"]
    /\ UNCHANGED <<thread, owner, down>>

-----------------------------------------------------------------------------
(* What other threads ask of a run. *)

Start(r, c) ==
    /\ At(r, "idle")
    /\ life[c] = "open"
    /\ thread' = [thread EXCEPT ![r] = [Fresh EXCEPT !.pc = "verify", !.client = c]]
    /\ UNCHANGED <<life, owner, down>>

Stop(r) ==
    /\ Started(r)
    /\ thread' = [thread EXCEPT ![r].cancel = TRUE, ![r].paused = FALSE]
    /\ UNCHANGED <<life, owner, down>>

Pause(r) ==
    /\ Started(r)
    /\ thread' = [thread EXCEPT ![r].paused = TRUE]
    /\ UNCHANGED <<life, owner, down>>

Resume(r) ==
    /\ Started(r)
    /\ thread' = [thread EXCEPT ![r].paused = FALSE]
    /\ UNCHANGED <<life, owner, down>>

-----------------------------------------------------------------------------
(* The input session *)

Verify(r) ==
    /\ At(r, "verify")
    /\ Goes(r, IF Verified(r) THEN "locking" ELSE "ending")
    /\ UNCHANGED <<life, owner, down>>

\* begin_run: a window that is gone is refused without the lock; one that cannot be focused
\* gives the lock back.
BeginRun(r) ==
    /\ At(r, "locking")
    /\ Verified(r) /\ owner = NoThread
    /\ \/ /\ owner' = r
          /\ thread' = [thread EXCEPT ![r].pc = "next", ![r].session = thread[r].client]
       \/ owner' = NoThread /\ Goes(r, "ending")
    /\ UNCHANGED <<life, down>>

BeginRefused(r) ==
    /\ At(r, "locking")
    /\ ~ Verified(r)
    /\ Goes(r, "ending")
    /\ UNCHANGED <<life, owner, down>>

\* end_run: held keys go up, the lock goes back, if there is a session at all.
KeysStay(r) == down
KeysUp(r) == [k \in Keys |-> IF down[k] = r THEN NoThread ELSE down[k]]

EndRun(r) ==
    IF thread[r].session = NoClient THEN UNCHANGED <<owner, down>>
    ELSE owner' = NoThread /\ down' = KeysUp(r)

\* _session: the session is for the window of the verified client, which can be focused.
SessionFor(r) == thread[r].session # NoClient /\ thread[r].session = thread[r].client /\ Verified(r)

\* An event the window does not accept ends the run.
Refused(r) == Goes(r, "ending") /\ UNCHANGED <<life, owner, down>>

-----------------------------------------------------------------------------
(* _execute_actions: the events are looked at before each action.  A stop or a pause that  *)
(* comes just after that look is one that comes during the action.                         *)

Halted(r) ==
    /\ At(r, "next")
    /\ thread[r].cancel
    /\ Goes(r, "ending")
    /\ UNCHANGED <<life, owner, down>>

Parks(r) ==
    /\ At(r, "next")
    /\ thread[r].paused /\ ~ thread[r].cancel
    /\ Goes(r, "parked")
    /\ UNCHANGED <<life, owner, down>>

OnlyResumed(r) == ~ thread[r].paused
Released(r) == ~ thread[r].paused \/ thread[r].cancel

Wakes(r) ==
    /\ At(r, "parked")
    /\ Released(r)
    /\ Goes(r, "next")
    /\ UNCHANGED <<life, owner, down>>

Looked(r) == At(r, "next") /\ ~ thread[r].cancel /\ ~ thread[r].paused

\* The run is over, is out of time, or its client is gone.
NoAction(r) ==
    /\ Looked(r)
    /\ Goes(r, "ending")
    /\ UNCHANGED <<life, owner, down>>

May(r) == Looked(r) /\ Verified(r) /\ thread[r].step < MaxActions
Does(r, pc, k) == thread' = [thread EXCEPT ![r].pc = pc, ![r].step = @ + 1, ![r].key = k]

\* Waiting, clicking, typing text, a checkpoint: no key stays down.
Passing(r) ==
    /\ May(r)
    /\ Does(r, "next", "none")
    /\ UNCHANGED <<life, owner, down>>

KeyDown(r, k) ==
    /\ May(r)
    /\ \/ /\ SessionFor(r)
          /\ down' = [down EXCEPT ![k] = r]
          /\ Does(r, "next", "none")
          /\ UNCHANGED <<life, owner>>
       \/ Refused(r)

KeyUp(r, k) ==
    /\ May(r)
    /\ \/ /\ SessionFor(r)
          /\ down' = [down EXCEPT ![k] = NoThread]
          /\ Does(r, "next", "none")
          /\ UNCHANGED <<life, owner>>
       \/ Refused(r)

\* press holds the key for a while; a cancellation only shortens it.
PressBegins(r, k) ==
    /\ May(r)
    /\ SessionFor(r)
    /\ down' = [down EXCEPT ![k] = r]
    /\ Does(r, "pressing", k)
    /\ UNCHANGED <<life, owner>>

PressEnds(r) ==
    /\ At(r, "pressing")
    /\ \/ /\ SessionFor(r)
          /\ down' = [down EXCEPT ![thread[r].key] = NoThread]
          /\ thread' = [thread EXCEPT ![r].pc = "next", ![r].key = "none"]
          /\ UNCHANGED <<life, owner>>
       \/ Refused(r)

-----------------------------------------------------------------------------
(* _run_control_action: launch, teleport or restart. *)

KeepsSession(r) == UNCHANGED <<owner, down>>
LetsGo(r) == EndRun(r)

\* The session ends before the client is touched.
ControlBegins(r) ==
    /\ May(r)
    /\ LetsGo(r)
    /\ thread' = [thread EXCEPT ![r].pc = "control", ![r].session = NoClient, ![r].step = @ + 1]
    /\ UNCHANGED life

\* The controller found the client the run must follow now, or gave up.
ControlReturns(r) ==
    /\ At(r, "control")
    /\ \/ thread[r].cancel /\ Goes(r, "next")
       \/ ~ thread[r].cancel /\ Goes(r, "ending")
       \/ \E c \in Clients :
             /\ ~ thread[r].cancel /\ life[c] = "open"
             /\ thread' = [thread EXCEPT ![r].pc = "repin", ![r].client = c]
    /\ UNCHANGED <<life, owner, down>>

Repin(r) ==
    /\ At(r, "repin")
    /\ Goes(r, CASE ~ Verified(r) -> "ending"
                 [] thread[r].cancel -> "next"
                 [] OTHER -> "locking")
    /\ UNCHANGED <<life, owner, down>>

\* The finally of _execute.  Nobody reads the events of a run that has finished.
Finishes(r) ==
    /\ At(r, "ending")
    /\ EndRun(r)
    /\ thread' = [thread EXCEPT ![r] = [Fresh EXCEPT !.pc = "finished"]]
    /\ UNCHANGED life

-----------------------------------------------------------------------------
EngineInit ==
    /\ life = [c \in Clients |-> "unborn"]
    /\ thread = [r \in Runs |-> Fresh]
    /\ owner = NoThread
    /\ down = [k \in Keys |-> NoThread]

Acts(r) ==
    \/ Passing(r) \/ ControlBegins(r)
    \/ \E k \in Keys : KeyDown(r, k) \/ KeyUp(r, k) \/ PressBegins(r, k)

ThreadStep(r) ==
    \/ Verify(r) \/ BeginRun(r) \/ BeginRefused(r)
    \/ Halted(r) \/ Parks(r) \/ Wakes(r) \/ NoAction(r)
    \/ Acts(r)
    \/ PressEnds(r) \/ ControlReturns(r) \/ Repin(r) \/ Finishes(r)

EngineNext ==
    \/ \E c \in Clients : ClientOpens(c) \/ ClientCloses(c)
    \/ \E r \in Runs : \/ \E c \in Clients : Start(r, c)
                       \/ Stop(r) \/ Pause(r) \/ Resume(r)
                       \/ ThreadStep(r)

EngineSpec == EngineInit /\ [][EngineNext]_engineVars

\* Every wait of a run's thread is bounded, but for the input lock and a pause.
EngineFairness == \A r \in Runs : WF_engineVars(ThreadStep(r))

-----------------------------------------------------------------------------
(* Properties *)

\* Every variable has the shape the code gives it.
EngineTypeOK ==
    /\ life \in [Clients -> {"unborn", "open", "gone"}]
    /\ thread \in [Runs ->
         [pc : {"idle", "verify", "locking", "next", "parked", "pressing",
                "control", "repin", "ending", "finished"},
          client : Clients \cup {NoClient}, session : Clients \cup {NoClient},
          key : Keys \cup {"none"}, cancel : BOOLEAN, paused : BOOLEAN, step : 0 .. MaxActions]]
    /\ owner \in Runs \cup {NoThread}
    /\ down \in [Keys -> Runs \cup {NoThread}]

\* "Two macro runs can never interleave keystrokes into different instances": a key is down
\* only while the run that pressed it holds the input lock, so no key of a run is ever left
\* behind for the next one, however the run ended.
KeysAreOwners == \A k \in Keys : down[k] # NoThread => down[k] = owner

\* "Held keys, focus and the process-wide input lock cannot remain attached to a window
\* that is about to disappear": exactly the owner of the lock has a session, it is for the
\* client the run follows, and no run launches, waits for a lock or is done with one.
SessionFits ==
    \A r \in Runs :
        /\ owner = r <=> thread[r].session # NoClient
        /\ owner = r => /\ thread[r].session = thread[r].client
                        /\ thread[r].pc \in {"next", "parked", "pressing", "ending"}

\* A run that is stopped finishes, in every state it may be in, unless it waits for the
\* keyboard of a run that is paused.
StoppedFinishes ==
    \A r \in Runs :
        (Started(r) /\ thread[r].cancel) ~>
            (At(r, "finished") \/ \E s \in Runs \ {r} : owner = s /\ thread[s].paused)

=============================================================================
