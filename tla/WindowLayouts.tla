------------------------------ MODULE WindowLayouts ------------------------------
(***************************************************************************)
(* The windows of the clients and the layouts saved for the accounts       *)
(* (services/application_service.py and watchers/window_positioner.py).    *)
(* After a scan the watcher puts a new client's window where its account   *)
(* had it, for 45 seconds, keeps where the windows of older clients are,   *)
(* and closes what the rules say; all of it by process id.  Screens save,  *)
(* restore and move windows, and the user moves them.                      *)
(***************************************************************************)
EXTENDS Integers, FiniteSets

CONSTANTS
    ProcessIds,          \* process ids, which Windows uses again
    Owners,        \* accounts
    Spots,         \* where a window may be, besides where Roblox opens it
    RestoreTime,   \* how long a restore is tried
    CaptureAge,    \* the age from which places are kept
    GraceAge,      \* the age from which close rules apply
    MaxClock, MaxClients, MaxMoves   \* bounds

ASSUME WindowAssumption ==
    /\ RestoreTime \in Nat /\ CaptureAge \in Nat /\ MaxClock \in Nat /\ Spots \subseteq Nat \ {0}
    /\ "unbound" \notin Owners

VARIABLES
    window,     \* window[p]: the client with this process id
    layout,     \* layout[a]: window_layout in the row of an account
    toRestore,  \* toRestore[p]: _pending_window_restores
    remember,   \* the setting remember_window_positions
    round,      \* a round of the watcher: where it is, and the clients it saw
    known,      \* the process ids of the scan before
    clock, clients, moves,
    excused     \* clients whose window nothing, or not the right thing, was to put back, and
                \* those that have shared the one layout of their account

windowVars ==
    <<window, layout, toRestore, remember, round, known, clock, clients, moves, excused>>

Opening == 0      \* where Roblox opens a window
NoSpot == -1
Unbound == "unbound"
NoClient == [there |-> FALSE, owner |-> Unbound, age |-> 0, shown |-> FALSE, focused |-> FALSE, spot |-> Opening,
             moved |-> FALSE]
NoneWaits == [owner |-> Unbound, until |-> 0]
NoRound == [at |-> "idle", seen |-> [p \in ProcessIds |-> [owner |-> Unbound, age |-> 0]], new |-> {}]

There == {p \in ProcessIds : window[p].there}
ClientsOf(owner) == {p \in There : window[p].owner = owner}

(***************************************************************************)
(* Clients, the user, time.                                                *)
(***************************************************************************)

\* A process id is not used again while one scan is dealt with, which takes no time.
ClientOpens(p, owner) ==
    /\ ~ window[p].there /\ round.at = "idle" /\ clients < MaxClients /\ clients' = clients + 1
    /\ window' = [window EXCEPT ![p] = [NoClient EXCEPT !.there = TRUE, !.owner = owner]]
    /\ excused' = IF toRestore[p] # NoneWaits \/ owner = Unbound \/ p \in known \/ ClientsOf(owner) # {}
                  THEN excused \union {p} \union ClientsOf(owner) ELSE excused \ {p}
    /\ UNCHANGED <<layout, toRestore, remember, round, known, clock, moves>>
WindowEnds(p) ==
    /\ window[p].there /\ window' = [window EXCEPT ![p] = NoClient]
    /\ UNCHANGED <<layout, toRestore, remember, round, known, clock, clients, moves, excused>>
WindowShows(p) ==
    /\ window[p].there /\ ~ window[p].shown
    /\ window' = [window EXCEPT ![p].shown = TRUE]
    /\ UNCHANGED <<layout, toRestore, remember, round, known, clock, clients, moves, excused>>

Moves == moves < MaxMoves /\ moves' = moves + 1
UserFocuses(p) ==
    /\ Moves /\ window[p].shown /\ window' = [window EXCEPT ![p].focused = ~ @]
    /\ UNCHANGED <<layout, toRestore, remember, round, known, clock, clients, excused>>
\* The user, or position_instance_window.
WindowMoves(p, spot) ==
    /\ Moves /\ window[p].shown
    /\ window' = [window EXCEPT ![p].spot = spot, ![p].moved = TRUE]
    /\ UNCHANGED <<layout, toRestore, remember, round, known, clock, clients, excused>>
\* A client is bound by hand: nothing was queued for it when it was new.
BindClient(p, owner) ==
    /\ Moves /\ window[p].there /\ window[p].owner = Unbound
    /\ window' = [window EXCEPT ![p].owner = owner] /\ excused' = excused \union ClientsOf(owner)
    /\ UNCHANGED <<layout, toRestore, remember, round, known, clock, clients>>
Remembers ==
    /\ Moves /\ remember' = ~ remember
    /\ excused' = excused \union There
    /\ UNCHANGED <<window, layout, toRestore, round, known, clock, clients>>

TimeGoesBy ==
    /\ round.at = "idle" /\ clock < MaxClock /\ clock' = clock + 1
    /\ window' = [p \in ProcessIds |-> IF window[p].there THEN [window[p] EXCEPT !.age = @ + 1] ELSE window[p]]
    /\ UNCHANGED <<layout, toRestore, remember, round, known, clients, moves, excused>>

(***************************************************************************)
(* A round of the watcher.                                                 *)
(***************************************************************************)

SeenAs(p) == [owner |-> window[p].owner, age |-> window[p].age]
ScanClients ==
    /\ round.at = "idle" /\ There # {}
    /\ round' = [at |-> IF remember THEN "restore" ELSE "forget", seen |-> [p \in ProcessIds |-> SeenAs(p)], new |-> There \ known]
    /\ known' = There
    /\ UNCHANGED <<window, layout, toRestore, remember, clock, clients, moves, excused>>

\* Turned off, nothing waits any more.
ForgetRestores ==
    /\ round.at = "forget" /\ round' = [round EXCEPT !.at = "close"]
    /\ toRestore' = [p \in ProcessIds |-> NoneWaits]
    /\ UNCHANGED <<window, layout, remember, known, clock, clients, moves, excused>>

\* _queue_window_restores: new clients of accounts with a layout.
Queued ==
    [p \in ProcessIds |-> LET owner == round.seen[p].owner
                    IN  IF p \in round.new /\ owner # Unbound /\ layout[owner] # NoSpot
                        THEN [owner |-> owner, until |-> clock + RestoreTime] ELSE toRestore[p]]
\* position_window: the visible window of the process, whichever client it is now.
Positioned(p) == window[p].there /\ window[p].shown

\* _attempt_window_restores: one that is late is given up, one that worked is done.
RestoreWindows ==
    /\ round.at = "restore" /\ round' = [round EXCEPT !.at = "capture"]
    /\ LET late == {p \in ProcessIds : Queued[p] # NoneWaits /\ clock > Queued[p].until}
           done == {p \in ProcessIds \ late : Queued[p] # NoneWaits /\ Positioned(p)}
       IN  /\ toRestore' = [p \in ProcessIds |-> IF p \in late \union done THEN NoneWaits ELSE Queued[p]]
           /\ window' = [p \in ProcessIds |-> IF p \in done
                           THEN [window[p] EXCEPT !.spot = layout[Queued[p].owner], !.moved = TRUE] ELSE window[p]]
           /\ excused' = excused \union late
    /\ UNCHANGED <<layout, remember, known, clock, clients, moves>>

\* _capture_bound_window_positions: where the windows of older clients are, except the one
\* the user is at and those that wait to be put back.
MayCapture(p) ==
    /\ round.seen[p].owner # Unbound /\ round.seen[p].age >= CaptureAge
    /\ toRestore[p] = NoneWaits /\ Positioned(p) /\ ~ window[p].focused
Captured(a) == {p \in ProcessIds : MayCapture(p) /\ round.seen[p].owner = a}
CaptureWindows ==
    /\ round.at = "capture" /\ round' = [round EXCEPT !.at = "close"]
    /\ layout' \in [Owners -> Spots \union {Opening, NoSpot}]
    /\ \A a \in Owners : IF Captured(a) = {} THEN layout'[a] = layout[a]
                         ELSE \E p \in Captured(a) : layout'[a] = window[p].spot
    /\ UNCHANGED <<window, toRestore, remember, known, clock, clients, moves, excused>>

\* _apply_automatic_close_rules: little memory or another title, or not bound for long.
MayClose(p) == round.seen[p].age >= GraceAge /\ Positioned(p) /\ ~ window[p].focused
CloseByRules ==
    /\ round.at = "close" /\ round' = NoRound
    /\ \E closed \in SUBSET {p \in ProcessIds : MayClose(p)} :
          window' = [p \in ProcessIds |-> IF p \in closed THEN NoClient ELSE window[p]]
    /\ UNCHANGED <<layout, toRestore, remember, known, clock, clients, moves, excused>>

(***************************************************************************)
(* Screens: capture_instance_window, restore_instance_window.              *)
(***************************************************************************)

ScreenSaves(p) ==
    /\ Moves /\ p \in known /\ Positioned(p) /\ window[p].owner # Unbound
    /\ layout' = [layout EXCEPT ![window[p].owner] = window[p].spot]
    /\ window' = [window EXCEPT ![p].moved = TRUE]
    /\ UNCHANGED <<toRestore, remember, round, known, clock, clients, excused>>
ScreenRestores(p) ==
    /\ Moves /\ p \in known /\ Positioned(p) /\ window[p].owner # Unbound
    /\ layout[window[p].owner] # NoSpot
    /\ window' = [window EXCEPT ![p].spot = layout[window[p].owner], ![p].moved = TRUE]
    /\ UNCHANGED <<layout, toRestore, remember, round, known, clock, clients, excused>>

WindowInit ==
    /\ window = [p \in ProcessIds |-> NoClient] /\ layout \in [Owners -> {NoSpot} \union Spots]
    /\ toRestore = [p \in ProcessIds |-> NoneWaits] /\ remember \in BOOLEAN /\ round = NoRound
    /\ known = {} /\ clock = 0 /\ clients = 0 /\ moves = 0 /\ excused = {}

WindowNext ==
    \/ \E p \in ProcessIds :
          \/ \E owner \in Owners \union {Unbound} : ClientOpens(p, owner)
          \/ \E owner \in Owners : BindClient(p, owner)
          \/ \E spot \in Spots : WindowMoves(p, spot)
          \/ WindowEnds(p) \/ WindowShows(p) \/ UserFocuses(p) \/ ScreenSaves(p) \/ ScreenRestores(p)
    \/ Remembers \/ TimeGoesBy
    \/ ScanClients \/ ForgetRestores \/ RestoreWindows \/ CaptureWindows \/ CloseByRules

(***************************************************************************)
(* Properties.                                                             *)
(***************************************************************************)

WindowTypeOK ==
    /\ \A a \in Owners : layout[a] \in Spots \union {Opening, NoSpot}
    /\ \A p \in ProcessIds : window[p].spot \in Spots \union {Opening} /\ toRestore[p].until \in 0..(MaxClock + RestoreTime)
    /\ round.at \in {"idle", "forget", "restore", "capture", "close"} /\ excused \subseteq ProcessIds

\* What was saved for an account is not overwritten by the place where Roblox opens its windows,
\* unless the window could not be put back in time, the setting was changed while the client was
\* open, the client was bound late or shared the layout with another client of its account, or
\* its process id had belonged to another one.
LayoutIsKept ==
    \A a \in Owners :
        layout[a] \in Spots /\ layout'[a] = Opening =>
            \E p \in There : window[p].owner = a /\ (p \in excused \/ window'[p].moved)

\* A window is put back where its own account had it, unless its process id was used again.
RestoredAsItsOwn ==
    round.at = "restore" /\ round'.at = "capture" =>
        \A p \in There \ excused :
            window'[p].spot # window[p].spot =>
                \E a \in Owners : window[p].owner = a /\ window'[p].spot = layout[a]

\* Saved places survive, and come back to the account they were saved for.
LayoutsHold == [][LayoutIsKept /\ RestoredAsItsOwn]_windowVars
=============================================================================
