----------------------------- MODULE MultiInstance -----------------------------
(***************************************************************************)
(* Multi-instance support (roblox/multi_instance.py): one thread, the      *)
(* holder, owns the singleton mutex of Roblox, so that clients do not end  *)
(* one another.  Bridge threads turn it on and off; a call that turns it   *)
(* off waits five seconds at most for the holder.                          *)
(*                                                                         *)
(* A holder is numbered by its start.  A handle is the number of the       *)
(* holder that opened it, 0 is none.                                       *)
(***************************************************************************)
EXTENDS Integers

CONSTANTS
    Switchers,      \* bridge threads that turn multi-instance support on or off
    MaxHolders      \* bound on the holders ever started

ASSUME MultiAssumption == MaxHolders \in Nat

Holders == 1..MaxHolders
NoOwner == 0
Client == -1

VARIABLES
    calm,           \* in this behaviour calls do not overlap and no wait times out
    mutex,          \* the owner in Windows: NoOwner, a Client or a holder
    holder,         \* [Holders -> place of the thread in _hold_until_released]
    thread,         \* _thread, the holder that is remembered
    release, ready, \* the two events all holders share
    claimed,        \* _owned names the mutex
    on,             \* _enabled
    handle,         \* _handles: [{"mutex", "event"} -> holder that opened it]
    switch          \* [Switchers -> call in progress: place and the holder it has read]

lockState == <<mutex, holder, thread, release, ready, claimed, on, handle>>
multiVars == <<calm, lockState, switch>>

NoSwitch == [pc |-> "idle", seen |-> 0]
NoHandles == [n \in {"mutex", "event"} |-> 0]

MultiTypeOK ==
    /\ calm \in BOOLEAN
    /\ mutex \in {NoOwner, Client} \cup Holders
    /\ holder \in [Holders -> {"unborn", "opens", "tries", "looks", "polls", "holds", "gives", "frees", "ended"}]
    /\ thread \in 0..MaxHolders
    /\ {release, ready, claimed, on} \subseteq BOOLEAN
    /\ handle \in [{"mutex", "event"} -> 0..MaxHolders]
    /\ switch \in [Switchers -> [pc : {"idle", "waits", "disables", "signals", "joins", "forgets"}, seen : 0..MaxHolders]]

MultiInit ==
    /\ calm \in BOOLEAN
    /\ mutex \in {NoOwner, Client}
    /\ holder = [h \in Holders |-> "unborn"]
    /\ thread = 0 /\ handle = NoHandles
    /\ release = FALSE /\ ready = FALSE /\ claimed = FALSE /\ on = FALSE
    /\ switch = [u \in Switchers |-> NoSwitch]

HolderLives(h) == h # 0 /\ holder[h] \notin {"unborn", "ended"}
HolderAt(h, pc) == holder[h] = pc
HolderTo(h, pc) == holder' = [holder EXCEPT ![h] = pc]
SwitchTo(u, pc) == switch' = [switch EXCEPT ![u].pc = pc]

-----------------------------------------------------------------------------
(* Roblox clients: the first one takes the mutex, others find it taken. *)

ClientStartsFirst ==
    /\ mutex = NoOwner /\ mutex' = Client
    /\ UNCHANGED <<calm, holder, thread, release, ready, claimed, on, handle, switch>>

LastClientExits ==
    /\ mutex = Client /\ mutex' = NoOwner
    /\ UNCHANGED <<calm, holder, thread, release, ready, claimed, on, handle, switch>>

-----------------------------------------------------------------------------
(* enable_multi_instance: settings, launches and the closing of clients. *)

MayCall(u) == switch[u].pc = "idle" /\ (calm => \A v \in Switchers : switch[v].pc = "idle")

\* A live holder is left as it is, and the call returns what _enabled says.
NoHolder == ~ HolderLives(thread)

Enable(u) ==
    /\ MayCall(u) /\ NoHolder
    /\ \E h \in Holders :
         /\ holder[h] = "unborn" /\ \A g \in 1..(h - 1) : holder[g] # "unborn"
         /\ HolderTo(h, "opens")
         /\ thread' = h
    /\ release' = FALSE /\ ready' = FALSE /\ on' = FALSE
    /\ handle' = NoHandles /\ claimed' = FALSE
    /\ SwitchTo(u, "waits")
    /\ UNCHANGED <<calm, mutex>>

\* _ready.wait, or its five seconds pass and the holder is given up.
EnableReturns(u) ==
    /\ switch[u].pc = "waits"
    /\ \/ ready /\ SwitchTo(u, "idle")
       \/ ~ calm /\ ~ ready /\ SwitchTo(u, "disables")
    /\ UNCHANGED <<calm, lockState>>

-----------------------------------------------------------------------------
(* disable_multi_instance: settings, close() and a holder that was given up. *)

Disable(u) ==
    /\ MayCall(u) \/ switch[u].pc = "disables"
    /\ switch' = [switch EXCEPT ![u] = [pc |-> "signals", seen |-> thread]]
    /\ UNCHANGED <<calm, lockState>>

SignalRelease(u) ==
    /\ switch[u].pc = "signals"
    /\ release' = TRUE
    /\ SwitchTo(u, "joins")
    /\ UNCHANGED <<calm, mutex, holder, thread, ready, claimed, on, handle>>

NotJoined(h) == TRUE
Joined(h) == ~ HolderLives(h)

JoinHolder(u) ==
    /\ switch[u].pc = "joins"
    /\ Joined(switch[u].seen) \/ ~ calm
    /\ SwitchTo(u, "forgets")
    /\ UNCHANGED <<calm, lockState>>

ForgetHolder(u) ==
    /\ switch[u].pc = "forgets"
    /\ thread' = 0 /\ on' = FALSE /\ handle' = NoHandles /\ claimed' = FALSE
    /\ switch' = [switch EXCEPT ![u] = NoSwitch]
    /\ UNCHANGED <<calm, mutex, holder, release, ready>>

-----------------------------------------------------------------------------
(* _hold_until_released, the thread of a holder *)

\* What CreateMutexW and CreateEventW have opened when the mutex is not refused.
HandlesOpened == {{"mutex"}, {"mutex", "event"}}

\* Without a mutex the thread ends, without an event it goes on.
OpenObjects(h) ==
    /\ HolderAt(h, "opens")
    /\ \/ /\ HolderTo(h, "ended") /\ ready' = TRUE
          /\ UNCHANGED handle
       \/ /\ \E names \in HandlesOpened :
                handle' = [n \in DOMAIN handle |-> IF n \in names THEN h ELSE handle[n]]
          /\ HolderTo(h, "tries") /\ UNCHANGED ready
    /\ UNCHANGED <<calm, mutex, thread, release, claimed, on, switch>>

\* The result of the wait says that the mutex was handed over, which it is only when nobody has it.
Granted == mutex = NoOwner

MarkMutexOwned(h) ==
    /\ mutex' = IF mutex = NoOwner THEN h ELSE mutex
    /\ claimed' = TRUE /\ on' = TRUE

\* WaitForSingleObject without waiting, then ready: a busy mutex is queued for.  An error ends
\* the thread, and its handles stay behind.
TryMutex(h) ==
    /\ HolderAt(h, "tries")
    /\ ready' = TRUE
    /\ \/ Granted /\ MarkMutexOwned(h) /\ HolderTo(h, "holds")
       \/ mutex # NoOwner /\ HolderTo(h, IF on THEN "holds" ELSE "looks") /\ UNCHANGED <<mutex, claimed, on>>
       \/ HolderTo(h, "ended") /\ UNCHANGED <<mutex, claimed, on>>
    /\ UNCHANGED <<calm, thread, release, handle, switch>>

\* _wait_for_mutex looks at the event, then waits a tenth of a second for the mutex.
LookAtRelease(h) ==
    /\ HolderAt(h, "looks")
    /\ HolderTo(h, IF release \/ handle["mutex"] = 0 THEN "gives" ELSE "polls")
    /\ UNCHANGED <<calm, mutex, thread, release, ready, claimed, on, handle, switch>>

PollMutex(h) ==
    /\ HolderAt(h, "polls")
    /\ \/ Granted /\ MarkMutexOwned(h) /\ HolderTo(h, "holds")
       \/ mutex # NoOwner /\ HolderTo(h, "looks") /\ UNCHANGED <<mutex, claimed, on>>
       \/ HolderTo(h, "gives") /\ UNCHANGED <<mutex, claimed, on>>
    /\ UNCHANGED <<calm, thread, release, ready, handle, switch>>

\* While it is not told to let go, the holder opens the event again if it is missing (_heal).
ToldWhileOn == release /\ on
Told == release

HoldMutex(h) ==
    /\ HolderAt(h, "holds")
    /\ \/ Told /\ HolderTo(h, "gives") /\ UNCHANGED handle
       \/ ~ release /\ handle["event"] = 0 /\ handle' = [handle EXCEPT !["event"] = h] /\ UNCHANGED holder
    /\ UNCHANGED <<calm, mutex, thread, release, ready, claimed, on, switch>>

\* _release_objects takes whatever handles are noted.  Windows lets only the owner release the
\* mutex; when another holder's handle is closed under it, the mutex may be gone with it.
ReleaseObjects(h) ==
    /\ HolderAt(h, "gives")
    /\ handle' = NoHandles /\ claimed' = FALSE
    /\ mutex' \in CASE mutex = h -> IF claimed /\ handle["mutex"] # 0 THEN {NoOwner} ELSE {h}
                    [] mutex # h /\ mutex = handle["mutex"] -> {mutex, NoOwner}
                    [] OTHER -> {mutex}
    /\ HolderTo(h, "frees")
    /\ UNCHANGED <<calm, thread, release, ready, on, switch>>

\* The flags; the end of a thread gives back what it still owns.
HolderEnds(h) ==
    /\ HolderAt(h, "frees")
    /\ on' = FALSE
    /\ mutex' = IF mutex = h THEN NoOwner ELSE mutex
    /\ HolderTo(h, "ended")
    /\ UNCHANGED <<calm, thread, release, ready, claimed, handle, switch>>

HolderStep(h) ==
    \/ OpenObjects(h) \/ TryMutex(h) \/ LookAtRelease(h) \/ PollMutex(h)
    \/ HoldMutex(h) \/ ReleaseObjects(h) \/ HolderEnds(h)

SwitchStep(u) == EnableReturns(u) \/ SignalRelease(u) \/ JoinHolder(u) \/ ForgetHolder(u)

MultiNext ==
    \/ ClientStartsFirst \/ LastClientExits
    \/ \E u \in Switchers : Enable(u) \/ Disable(u) \/ SwitchStep(u)
    \/ \E h \in Holders : HolderStep(h)

\* Threads run.  Windows wakes a waiter of a mutex that is free for long.
MultiFairness ==
    /\ \A u \in Switchers : WF_multiVars(SwitchStep(u))
    /\ \A h \in Holders : WF_multiVars(HolderStep(h))

MultiSpec == MultiInit /\ [][MultiNext]_multiVars /\ MultiFairness

-----------------------------------------------------------------------------
(* Properties *)

AstroOwns == mutex \in Holders

Lock == INSTANCE SingletonLock WITH
    intent <- IF thread = 0 THEN "off" ELSE IF release THEN "closing" ELSE "on",
    owner <- IF AstroOwns THEN "astro" ELSE IF mutex = Client THEN "client" ELSE "nobody"

\* As long as calls do not overlap, the holder threads with their shared events implement the
\* abstract lock: nothing is taken from a client, nothing is let go before it is asked for, and
\* when disable_multi_instance returns the mutex is free.
ImplementsLock == Lock!Init /\ [][calm => Lock!Next]_(Lock!lockVars)

\* A launch goes ahead because _enabled is set: unless multi-instance support is being turned
\* off, the holder that is remembered then owns the mutex.
EnabledIsOwned == (calm /\ on /\ ~ release) => mutex = thread /\ claimed

\* However calls overlap, an event that stays set reaches every holder, the forgotten ones too:
\* Astro gives the mutex back or is asked for it again.
GivenBack == release ~> (~ release \/ ~ AstroOwns)

\* What _enabled tells other threads is true, and the mutex does not stay behind.
MutexIsTrue == []EnabledIsOwned /\ GivenBack
=============================================================================
