-------------------------- MODULE LaunchServiceProofs --------------------------
(*************************************************************************)
(* Proofs about launches and what decides them: the launch service, the  *)
(* relaunches, the settings, the registry of servers, the smart launcher *)
(* and coordinated launches, for any accounts, threads, servers, limits, *)
(* calls and edits.                                                      *)
(*************************************************************************)
EXTENDS MCLaunchDecisions, FoldProofs

USE LaunchAssumption DEF LaunchAssumption

-----------------------------------------------------------------------------
(* Type correctness.                                                        *)
(*                                                                          *)
(* A launch keeps the account it was asked for: the local variables of a    *)
(* call, the intent it registers and the events of that intent agree.       *)

CallType ==
    [pc : {"idle", "loaded", "checked", "editing", "deleting"} \cup UnderLock,
     row : Row, account : Accounts \cup {"none"}, launch : 0 .. MaxCalls]

EventType == [account : Accounts, label : Statuses]

LookType ==
    [pc : {"idle", "scanning", "recording", "reconciling"}, seen : SUBSET Launch,
     complete : BOOLEAN, events : Seq(EventType),
     live : SUBSET Accounts, todo : SUBSET (Accounts \X Statuses),
     account : Accounts \cup {"none"}, label : Statuses, row : Row]

Launching == {"loaded", "checked"} \cup UnderLock

\* What a call holds while it is at `pc`.
CallFits(c) ==
    /\ c.launch <= calls
    /\ c.pc \in Launching => /\ c.account \in Accounts /\ c.launch \in Launch
                             /\ owner[c.launch] = c.account
    /\ c.pc \in {"editing", "deleting"} => c.account \in Accounts /\ c.launch = 0
    /\ c.pc = "idle" => c.launch = 0

TableOK   == row \in [Accounts -> Row] /\ edits \in 0 .. MaxEdits
WindowsOK == /\ client \in [Launch -> {"none", "starting", "running", "dead"}]
             /\ ahead \in [Launch -> SUBSET Launch]
             /\ file \in Contents /\ left \in [Launch -> Contents \cup {"none"}]
TracksOK  == /\ tracked \in [Launch -> Accounts \cup {Unseen, Orphan}]
             /\ due \cup claimed \subseteq [launch : Launch, account : Accounts]
IntentsOK == \A n \in pending \cup expired : n \in Launch /\ n <= calls /\ owner[n] \in Accounts
HistoryOK == calls \in 0 .. MaxCalls /\ owner \in [Launch -> Accounts \cup {"none"}]
CallsOK   == call \in [Threads -> CallType] /\ \A t \in Threads : CallFits(call[t])
LooksOK   == look \in [Threads -> LookType]

TypeInv == TableOK /\ WindowsOK /\ TracksOK /\ IntentsOK /\ HistoryOK /\ CallsOK /\ LooksOK

LEMMA TypeInvImplies == TypeInv => TypeOK
BY DEF TypeInv, TableOK, WindowsOK, TracksOK, IntentsOK, HistoryOK, CallsOK, LooksOK, TypeOK,
       CallType, LookType, EventType

\* What leaves the accounts of the launches alone leaves their intents and calls alone.
LEMMA Kept ==
    ASSUME TypeInv, UNCHANGED history
    PROVE  /\ HistoryOK'
           /\ UNCHANGED <<pending, expired>> => IntentsOK'
           /\ UNCHANGED call => CallsOK'
           /\ \A c : CallFits(c)' <=> CallFits(c)
BY DEF TypeInv, IntentsOK, HistoryOK, CallsOK, CallFits, history

LEMMA NoRowType == NoRow \in Row
BY DEF NoRow, Row, Statuses

LEMMA IdleCallType == IdleCall \in CallType /\ IdleCall.launch = 0 /\ IdleCall.pc = "idle"
BY NoRowType DEF IdleCall, CallType

LEMMA IdleLookType == IdleLook \in LookType
BY NoRowType DEF IdleLook, LookType, Statuses

\* What a row is saved as.
LEMMA SavedType ==
    ASSUME TableOK, NEW a \in Accounts, NEW r \in Row
    PROVE  /\ Saved(a, r) \in Row
           /\ Saved(a, r).present = TRUE
           /\ row[a].present => Saved(a, r).order = row[a].order
<1> DEFINE kept == IF row[a].present THEN row[a].order ELSE 0
<1>1. row[a] \in Row
  BY DEF TableOK
<1>2. kept \in 0 .. MaxEdits
  BY <1>1 DEF Row
<1>3. Saved(a, r) = [r EXCEPT !.present = TRUE, !.order = kept]
  BY DEF Saved
<1> HIDE DEF kept
<1>4. Saved(a, r) \in Row /\ Saved(a, r).present = TRUE /\ Saved(a, r).order = kept
  BY <1>2, <1>3 DEF Row
<1> QED
  BY <1>4 DEF kept

LEMMA StatusChange ==
    ASSUME NEW r \in Row, NEW s \in Statuses
    PROVE  [r EXCEPT !.status = s] \in Row /\ [r EXCEPT !.status = s].order = r.order
BY DEF Row

LEMMA EditChange ==
    ASSUME NEW r \in Row, NEW n \in 0 .. MaxEdits
    PROVE  [r EXCEPT !.rule = n] \in Row /\ [r EXCEPT !.order = n] \in Row
BY DEF Row

\* A call that moves on keeps the rest of what it holds.
LEMMA CallMoves ==
    ASSUME NEW c \in CallType,
           NEW pc \in {"idle", "loaded", "checked", "editing", "deleting"} \cup UnderLock
    PROVE  /\ [c EXCEPT !.pc = pc] \in CallType
           /\ [c EXCEPT !.pc = pc].pc = pc /\ [c EXCEPT !.pc = pc].launch = c.launch
           /\ [c EXCEPT !.pc = pc].account = c.account /\ [c EXCEPT !.pc = pc].row = c.row
BY DEF CallType

\* A step of one call.
LEMMA CallStep ==
    ASSUME TypeInv, NEW t \in Threads, NEW c \in CallType, CallFits(c),
           call' = [call EXCEPT ![t] = c], UNCHANGED history
    PROVE  CallsOK'
<1>1. \A u \in Threads : call'[u] \in CallType /\ CallFits(call'[u])
  BY DEF TypeInv, CallsOK
<1>2. call' \in [Threads -> CallType]
  BY DEF TypeInv, CallsOK
<1> QED
  BY <1>1, <1>2, Kept DEF CallsOK, CallFits, history

\* The call of a launch moves to another step of the launch, or ends.
LEMMA LaunchMoves ==
    ASSUME TypeInv, NEW t \in Threads, UNCHANGED history, call[t].pc \in Launching,
           \/ call' = [call EXCEPT ![t] = IdleCall]
           \/ \E pc \in Launching : call' = [call EXCEPT ![t].pc = pc]
    PROVE  CallsOK'
<1>1. call[t] \in CallType /\ CallFits(call[t])
  BY DEF TypeInv, CallsOK
<1>2. CASE call' = [call EXCEPT ![t] = IdleCall]
  <2>1. CallFits(IdleCall)
    BY IdleCallType DEF CallFits, Launching, UnderLock, TypeInv, HistoryOK
  <2>. QED BY <1>2, <2>1, IdleCallType, CallStep
<1>3. ASSUME NEW pc \in Launching, call' = [call EXCEPT ![t].pc = pc] PROVE CallsOK'
  <2>1. call' = [call EXCEPT ![t] = [call[t] EXCEPT !.pc = pc]]
    BY <1>3 DEF TypeInv, CallsOK
  <2>2. CallFits([call[t] EXCEPT !.pc = pc]) /\ [call[t] EXCEPT !.pc = pc] \in CallType
    <3>1. pc \in {"idle", "loaded", "checked", "editing", "deleting"} \cup UnderLock
      BY DEF Launching
    <3>2. /\ call[t].launch <= calls /\ call[t].account \in Accounts
          /\ call[t].launch \in Launch /\ owner[call[t].launch] = call[t].account
      BY <1>1 DEF CallFits
    <3>. DEFINE c == [call[t] EXCEPT !.pc = pc]
    <3>3. /\ c \in CallType /\ c.pc = pc /\ c.launch = call[t].launch
          /\ c.account = call[t].account
      BY <1>1, <3>1, CallMoves
    <3>4. pc \notin {"editing", "deleting", "idle"}
      BY DEF Launching, UnderLock
    <3>. HIDE DEF c
    <3>5. CallFits(c)
      BY <3>2, <3>3, <3>4 DEF CallFits
    <3>. QED BY <3>3, <3>5 DEF c
  <2>. QED BY <2>1, <2>2, CallStep
<1> QED
  BY <1>2, <1>3

LEMMA InitType == Init => TypeInv
<1> SUFFICES ASSUME Init PROVE TypeInv
  OBVIOUS
<1>1. TableOK
  <2>1. \A s \in Statuses : [NoRow EXCEPT !.present = TRUE, !.status = s] \in Row
    <3> SUFFICES ASSUME NEW s \in Statuses PROVE [NoRow EXCEPT !.present = TRUE, !.status = s] \in Row
      OBVIOUS
    <3>1. [NoRow EXCEPT !.present = TRUE] \in Row
      BY NoRowType DEF Row
    <3>. QED BY <3>1, StatusChange
  <2>2. row \in [Accounts -> {[NoRow EXCEPT !.present = TRUE, !.status = s] : s \in Statuses}]
    BY DEF Init
  <2>3. row \in [Accounts -> Row]
    <3>. DEFINE first == {[NoRow EXCEPT !.present = TRUE, !.status = s] : s \in Statuses}
    <3>1. first \subseteq Row
      BY <2>1
    <3>2. row \in [Accounts -> first]
      BY <2>2
    <3>. HIDE DEF first
    <3>. QED BY <3>1, <3>2
  <2>4. edits = 0
    BY DEF Init
  <2>9. 0 \in 0 .. MaxEdits
    OBVIOUS
  <2>. QED BY <2>3, <2>4, <2>9 DEF TableOK
<1>2. CallsOK
  <2>1. CallFits(IdleCall)
    <3>1. calls = 0
      BY DEF Init
    <3>2. IdleCall.launch <= calls
      BY <3>1, IdleCallType
    <3>. QED BY <3>2, IdleCallType DEF CallFits, Launching, UnderLock
  <2>. QED BY <2>1, IdleCallType DEF Init, CallsOK
<1>3. LooksOK
  BY IdleLookType DEF Init, LooksOK
<1>4. TracksOK /\ IntentsOK
  BY DEF Init, TracksOK, IntentsOK
<1>6. HistoryOK
  <2>1. calls = 0
    BY DEF Init
  <2>9. 0 \in 0 .. MaxCalls
    OBVIOUS
  <2>2. owner \in [Launch -> Accounts \cup {"none"}]
    BY DEF Init
  <2>. QED BY <2>1, <2>2, <2>9 DEF HistoryOK
<1>5. WindowsOK
  BY DEF Init, WindowsOK, Contents, Strange
<1> QED
  BY <1>1, <1>2, <1>3, <1>4, <1>5, <1>6 DEF TypeInv

LEMMA RobloxType == TypeInv /\ Roblox => TypeInv'
<1> SUFFICES ASSUME TypeInv, NEW n \in Launch, ClientStarts(n) \/ ClientDies(n) \/ IntentExpires(n)
             PROVE  TypeInv'
  BY DEF Roblox
<1>1. UNCHANGED <<table, tracked, due, file, history, claimed, call, look>>
  BY DEF ClientStarts, ClientDies, IntentExpires, monitor, windows
<1>2. WindowsOK'
  <2>1. left' = left \/ left' = [left EXCEPT ![n] = "none"]
    BY DEF ClientStarts, ClientDies, IntentExpires, windows
  <2>. QED BY <1>1, <2>1 DEF ClientStarts, ClientDies, IntentExpires, windows, TypeInv, WindowsOK, IntentsOK
<1>3. IntentsOK'
  BY <1>1 DEF ClientStarts, ClientDies, IntentExpires, monitor, TypeInv, IntentsOK, history
<1> QED
  BY <1>1, <1>2, <1>3, Kept DEF TypeInv, TableOK, TracksOK, LooksOK, table

LEMMA LaunchStepType == ASSUME TypeInv, NEW t \in Threads, LaunchStep(t) \/ AwaitReturns(t) PROVE TypeInv'
<1>1. UNCHANGED <<edits, expired, tracked, due, ahead, history, claimed, look>>
  BY DEF LaunchStep, CheckDuplicate, EnterLaunch, PreparationFails, RegisterIntent, HandOff,
         HandOffFails, SaveLaunched, AwaitReturns, table, monitor, windows
<1>2. call[t].pc \in Launching /\ call[t] \in CallType /\ CallFits(call[t])
  BY DEF LaunchStep, CheckDuplicate, EnterLaunch, PreparationFails, RegisterIntent, HandOff,
         HandOffFails, SaveLaunched, AwaitReturns, Launching, UnderLock, TypeInv, CallsOK
<1>3. \/ call' = [call EXCEPT ![t] = IdleCall]
      \/ \E pc \in Launching : call' = [call EXCEPT ![t].pc = pc]
  BY DEF LaunchStep, CheckDuplicate, EnterLaunch, PreparationFails, RegisterIntent, HandOff,
         HandOffFails, SaveLaunched, AwaitReturns, Launching, UnderLock, TypeInv, CallsOK
<1>4. CallsOK'
  BY <1>1, <1>2, <1>3, LaunchMoves
<1>5. WindowsOK'
  <2>1. call[t].account \in Accounts
    BY <1>2 DEF CallFits
  <2>2. file' \in Contents
    <3>1. file' \in {file, call[t].account, "mixed"}
      BY DEF LaunchStep, CheckDuplicate, EnterLaunch, PreparationFails, RegisterIntent, HandOff,
             HandOffFails, SaveLaunched, AwaitReturns, windows
    <3>. QED BY <2>1, <3>1 DEF Contents, Strange, TypeInv, WindowsOK
  <2>3. left' \in [Launch -> Contents \cup {"none"}]
    <3>1. left' = left \/ left' = [left EXCEPT ![call[t].launch] = "none"]
                       \/ left' = [left EXCEPT ![call[t].launch] = file']
      BY DEF LaunchStep, CheckDuplicate, EnterLaunch, PreparationFails, RegisterIntent, HandOff,
             HandOffFails, SaveLaunched, AwaitReturns, windows
    <3>. QED BY <2>2, <3>1 DEF TypeInv, WindowsOK
  <2>4. client' \in [Launch -> {"none", "starting", "running", "dead"}]
    <3>1. client' = client \/ HandOff(t)
      BY DEF LaunchStep, CheckDuplicate, EnterLaunch, PreparationFails, RegisterIntent,
             HandOffFails, SaveLaunched, AwaitReturns, windows
    <3>. QED BY <3>1 DEF HandOff, TypeInv, WindowsOK
  <2>. QED BY <1>1, <2>2, <2>3, <2>4 DEF TypeInv, WindowsOK
<1>6. IntentsOK'
  <2>1. pending' \subseteq pending \cup {call[t].launch}
    BY DEF LaunchStep, CheckDuplicate, EnterLaunch, PreparationFails, RegisterIntent, HandOff,
           HandOffFails, Cancelled, SaveLaunched, AwaitReturns, monitor
  <2>. QED BY <1>1, <1>2, <2>1 DEF CallFits, TypeInv, IntentsOK, history
<1>7. TableOK'
  <2>1. UNCHANGED row \/ SaveLaunched(t)
    BY DEF LaunchStep, CheckDuplicate, EnterLaunch, PreparationFails, RegisterIntent, HandOff,
           HandOffFails, AwaitReturns, table
  <2>2. CASE SaveLaunched(t)
    <3>1. [call[t].row EXCEPT !.status = "launching"] \in Row
      BY <1>2, StatusChange DEF CallType, Statuses
    <3>2. Saved(call[t].account, [call[t].row EXCEPT !.status = "launching"]) \in Row
      BY <1>2, <3>1, SavedType DEF CallFits, TypeInv
    <3>. QED BY <1>1, <2>2, <3>2 DEF SaveLaunched, TypeInv, TableOK
  <2>. QED BY <1>1, <2>1, <2>2 DEF TypeInv, TableOK
<1> QED
  BY <1>1, <1>4, <1>5, <1>6, <1>7, Kept DEF TypeInv, TracksOK, LooksOK

\* A call of launch_account begins, for a new launch.
LEMMA LoadType ==
    ASSUME TypeInv, NEW t \in Threads, NEW a \in Accounts, Load(t, a)
    PROVE  HistoryOK' /\ CallsOK' /\ (UNCHANGED <<pending, expired>> => IntentsOK')
<1>. DEFINE n == calls + 1
            c == [pc |-> "loaded", row |-> row[a], account |-> a, launch |-> n]
<1>1. n \in Launch /\ n \in 0 .. MaxCalls /\ calls' = n /\ calls \in Nat /\ n \notin 0 .. calls
  BY DEF Load, Launch, TypeInv, HistoryOK
<1>2. owner' = [owner EXCEPT ![n] = a] /\ owner' \in [Launch -> Accounts \cup {"none"}]
  BY DEF Load, TypeInv, HistoryOK
<1>3. \A m \in Launch : m <= calls => owner'[m] = owner[m] /\ m <= n
  BY <1>1, <1>2 DEF Launch, TypeInv, HistoryOK
<1>4. c \in CallType
  BY <1>1 DEF CallType, TypeInv, TableOK
<1>5. owner'[n] = a
  BY <1>1, <1>2 DEF TypeInv, HistoryOK
<1>6. \A u \in Threads : call'[u] = IF u = t THEN c ELSE call[u]
  BY DEF Load, TypeInv, CallsOK
<1>7. \A u \in Threads : call'[u].launch <= n
                          /\ (call'[u].pc \in Launching => /\ call'[u].account \in Accounts
                                                           /\ call'[u].launch \in Launch
                                                           /\ owner'[call'[u].launch] = call'[u].account)
                          /\ (call'[u].pc \in {"editing", "deleting"} =>
                                call'[u].account \in Accounts /\ call'[u].launch = 0)
                          /\ (call'[u].pc = "idle" => call'[u].launch = 0)
  <2> SUFFICES ASSUME NEW u \in Threads
               PROVE /\ call'[u].launch <= n
                     /\ call'[u].pc \in Launching => /\ call'[u].account \in Accounts
                                                     /\ call'[u].launch \in Launch
                                                     /\ owner'[call'[u].launch] = call'[u].account
                     /\ call'[u].pc \in {"editing", "deleting"} =>
                                call'[u].account \in Accounts /\ call'[u].launch = 0
                     /\ call'[u].pc = "idle" => call'[u].launch = 0
    OBVIOUS
  <2>1. CASE u = t
    BY <1>1, <1>5, <1>6, <2>1 DEF Launching
  <2>2. CASE u # t
    <3>1. call'[u] = call[u] /\ call[u] \in CallType /\ CallFits(call[u])
      BY <1>6, <2>2 DEF TypeInv, CallsOK
    <3>2. call[u].launch \in Nat /\ call[u].launch <= calls
      BY <3>1 DEF CallFits, CallType
    <3>. QED BY <1>1, <1>3, <3>1, <3>2 DEF CallFits
  <2>. QED BY <2>1, <2>2
<1>8. call' \in [Threads -> CallType]
  BY <1>4 DEF Load, TypeInv, CallsOK
<1>9. CallsOK'
  BY <1>1, <1>7, <1>8 DEF CallsOK, CallFits
<1>10. UNCHANGED <<pending, expired>> => IntentsOK'
  BY <1>1, <1>3 DEF TypeInv, IntentsOK
<1> QED
  BY <1>1, <1>2, <1>9, <1>10 DEF HistoryOK

LEMMA DispatchType == TypeInv /\ Dispatch => TypeInv'
<1> SUFFICES ASSUME TypeInv, Dispatch PROVE TypeInv'
  OBVIOUS
<1>1. Watcher \in Threads
  BY DEF Threads
<1>2. CASE ClaimDue
  <2>1. UNCHANGED <<table, windows, tracked, pending, expired, history, call, look>>
    BY <1>2 DEF ClaimDue
  <2>2. TracksOK'
    BY <1>2 DEF ClaimDue, TypeInv, TracksOK
  <2>. QED BY <2>1, <2>2, Kept DEF TypeInv, TableOK, WindowsOK, LooksOK, table, windows
<1>3. ASSUME NEW q \in claimed, StartRelaunch(q) PROVE TypeInv'
  <2>1. q.account \in Accounts /\ claimed' \subseteq claimed
    BY <1>3 DEF StartRelaunch, TypeInv, TracksOK
  <2>2. UNCHANGED <<table, windows, monitor, look>>
    BY <1>3 DEF StartRelaunch
  <2>3. HistoryOK' /\ CallsOK' /\ IntentsOK'
    BY <1>1, <1>3, <2>1, <2>2, LoadType DEF StartRelaunch, monitor
  <2>. QED BY <2>1, <2>2, <2>3 DEF TypeInv, TableOK, WindowsOK, TracksOK, LooksOK, table, windows, monitor
<1>4. ASSUME NEW q \in claimed, DropRelaunch(q) PROVE TypeInv'
  <2>1. UNCHANGED <<table, windows, monitor, history, call, look>> /\ claimed' \subseteq claimed
    BY <1>4 DEF DropRelaunch
  <2>. QED BY <2>1, Kept DEF TypeInv, TableOK, WindowsOK, TracksOK, LooksOK, table, windows, monitor
<1> QED
  BY <1>2, <1>3, <1>4 DEF Dispatch

LEMMA UserType == ASSUME TypeInv, NEW t \in Threads, UserStep(t) PROVE TypeInv'
<1>1. ASSUME NEW a \in Accounts, StartLaunch(t, a) PROVE TypeInv'
  <2>1. UNCHANGED <<table, monitor, windows, claimed, look>>
    BY <1>1 DEF StartLaunch
  <2>2. HistoryOK' /\ CallsOK' /\ IntentsOK'
    BY <1>1, <2>1, LoadType DEF StartLaunch, monitor
  <2>. QED BY <2>1, <2>2 DEF TypeInv, TableOK, WindowsOK, TracksOK, LooksOK, table, windows, monitor
<1>2. ASSUME NEW a \in Accounts, BeginEdit(t, a) PROVE TypeInv'
  <2>. DEFINE c == [pc |-> "editing", row |-> row[a], account |-> a, launch |-> 0]
  <2>1. UNCHANGED <<row, monitor, windows, history, claimed, look>> /\ call' = [call EXCEPT ![t] = c]
    BY <1>2 DEF BeginEdit
  <2>2. c \in CallType /\ CallFits(c)
    BY DEF CallType, CallFits, Launching, UnderLock, TypeInv, TableOK, HistoryOK
  <2>3. CallsOK'
    BY <2>1, <2>2, CallStep
  <2>4. TableOK'
    BY <1>2, <2>1 DEF BeginEdit, Edits, TypeInv, TableOK
  <2>. QED BY <2>1, <2>3, <2>4, Kept DEF TypeInv, WindowsOK, TracksOK, LooksOK, windows, monitor
<1>3. ASSUME NEW a \in Accounts, DeleteRow(t, a) PROVE TypeInv'
  <2>. DEFINE c == [pc |-> "deleting", row |-> NoRow, account |-> a, launch |-> 0]
  <2>1. UNCHANGED <<monitor, windows, history, claimed, look>> /\ call' = [call EXCEPT ![t] = c]
    BY <1>3 DEF DeleteRow
  <2>2. c \in CallType /\ CallFits(c)
    BY NoRowType DEF CallType, CallFits, Launching, UnderLock, TypeInv, HistoryOK
  <2>3. CallsOK'
    BY <2>1, <2>2, CallStep
  <2>4. TableOK'
    BY <1>3, <2>1, NoRowType DEF DeleteRow, Edits, TypeInv, TableOK
  <2>. QED BY <2>1, <2>3, <2>4, Kept DEF TypeInv, WindowsOK, TracksOK, LooksOK, windows, monitor
<1>4. CallFits(IdleCall) /\ IdleCall \in CallType
  BY IdleCallType DEF CallFits, Launching, UnderLock, TypeInv, HistoryOK
<1>5. CASE SaveEdit(t)
  <2>1. UNCHANGED <<edits, monitor, windows, history, claimed, look>> /\ call' = [call EXCEPT ![t] = IdleCall]
    BY <1>5 DEF SaveEdit
  <2>2. CallsOK'
    BY <1>4, <2>1, CallStep
  <2>3. call[t].account \in Accounts /\ call[t].row \in Row /\ edits \in 0 .. MaxEdits
    BY <1>5 DEF SaveEdit, TypeInv, CallsOK, CallFits, CallType, TableOK
  <2>4. Saved(call[t].account, [call[t].row EXCEPT !.rule = edits]) \in Row
    BY <2>3, EditChange, SavedType DEF TypeInv
  <2>5. TableOK'
    BY <1>5, <2>1, <2>4 DEF SaveEdit, TypeInv, TableOK
  <2>. QED BY <2>1, <2>2, <2>5, Kept DEF TypeInv, WindowsOK, TracksOK, LooksOK, windows, monitor
<1>6. CASE ForgetInMonitor(t)
  <2>1. UNCHANGED <<table, windows, history, claimed, look>> /\ call' = [call EXCEPT ![t] = IdleCall]
    BY <1>6 DEF ForgetInMonitor
  <2>2. CallsOK'
    BY <1>4, <2>1, CallStep
  <2>3. TracksOK' /\ IntentsOK'
    BY <1>6, <2>1 DEF ForgetInMonitor, TypeInv, TracksOK, IntentsOK, history
  <2>. QED BY <2>1, <2>2, <2>3, Kept DEF TypeInv, TableOK, WindowsOK, LooksOK, windows, table
<1> QED
  BY <1>1, <1>2, <1>3, <1>5, <1>6 DEF UserStep

LEMMA ReorderType == TypeInv /\ Reorder => TypeInv'
<1> SUFFICES ASSUME TypeInv, Reorder PROVE TypeInv'
  OBVIOUS
<1>1. UNCHANGED <<monitor, windows, history, claimed, call, look>>
  BY DEF Reorder
<1>2. edits + 1 \in 0 .. MaxEdits /\ edits' = edits + 1
  BY DEF Reorder, Edits, TypeInv, TableOK
<1>3. \A a \in Accounts : row[a] \in Row /\ [row[a] EXCEPT !.order = edits + 1] \in Row
  BY <1>2, EditChange DEF TypeInv, TableOK
<1>4. TableOK'
  BY <1>2, <1>3 DEF Reorder, TableOK
<1> QED
  BY <1>1, <1>4, Kept DEF TypeInv, WindowsOK, TracksOK, LooksOK, windows, monitor

\* The one way to count a set of launches: as many places as launches.
LEMMA InOrderType ==
    ASSUME NEW S, S \subseteq Launch, NEW f \in InOrder(S)
    PROVE  f \in Seq(S) /\ \A i \in DOMAIN f : f[i] \in S
<1>1. IsFiniteSet(Launch)
  BY FS_Interval DEF Launch
<1>2. Cardinality(S) \in Nat
  BY <1>1, FS_Subset, FS_CardinalityType
<1>3. f \in [1 .. Cardinality(S) -> S]
  BY DEF InOrder
<1> QED
  BY <1>2, <1>3

LEMMA ScanBegins ==
    ASSUME TypeInv, NEW t \in Threads, NEW complete \in BOOLEAN, BeginScan(t, complete)
    PROVE  TypeInv'
<1>1. UNCHANGED <<table, pending, tracked, due, windows, history, claimed, call>> /\ expired' = {}
  BY DEF BeginScan
<1>2. PICK seen \in SUBSET Launch, oldest \in InOrder(expired) :
        look' = [look EXCEPT ![t] = [IdleLook EXCEPT
          !.pc = "scanning", !.seen = seen, !.complete = complete,
          !.events = [i \in DOMAIN oldest |-> Event(owner[oldest[i]], "ready")]]]
  BY DEF BeginScan
<1>. DEFINE events == [i \in DOMAIN oldest |-> Event(owner[oldest[i]], "ready")]
<1>3. expired \subseteq Launch /\ \A n \in expired : owner[n] \in Accounts
  BY DEF TypeInv, IntentsOK
<1>4. oldest \in Seq(expired) /\ \A i \in DOMAIN oldest : oldest[i] \in expired
  BY <1>3, InOrderType
<1>5. \A a \in Accounts : Event(a, "ready") \in EventType
  BY DEF Event, EventType, Statuses
<1>6. events \in Seq(EventType)
  <2>1. PICK k \in Nat : DOMAIN oldest = 1 .. k
    BY <1>4
  <2>2. \A i \in 1 .. k : Event(owner[oldest[i]], "ready") \in EventType
    BY <1>3, <1>4, <1>5, <2>1
  <2>3. events \in [1 .. k -> EventType]
    BY <2>1, <2>2
  <2>. QED BY <2>3
<1>. HIDE DEF events
<1>7. [IdleLook EXCEPT !.pc = "scanning", !.seen = seen, !.complete = complete, !.events = events]
        \in LookType
  BY <1>6, IdleLookType DEF LookType
<1>8. LooksOK'
  BY <1>2, <1>7 DEF TypeInv, LooksOK, events
<1> QED
  BY <1>1, <1>8, Kept DEF TypeInv, TableOK, WindowsOK, TracksOK, IntentsOK, table, windows, history

\* A step of one scan.
LEMMA LookStep ==
    ASSUME TypeInv, NEW t \in Threads, NEW l \in LookType, look' = [look EXCEPT ![t] = l]
    PROVE  LooksOK'
BY DEF TypeInv, LooksOK

LEMMA EventsMove ==
    ASSUME NEW l \in LookType
    PROVE  /\ \A e \in EventType : [l EXCEPT !.events = Append(@, e)] \in LookType
           /\ l.events # <<>> => /\ [l EXCEPT !.events = Tail(@)] \in LookType
                                 /\ Head(l.events) \in EventType
<1>1. l.events \in Seq(EventType)
  BY DEF LookType
<1>2. \A e \in Seq(EventType) : [l EXCEPT !.events = e] \in LookType
  BY DEF LookType
<1>3. \A e \in EventType : Append(l.events, e) \in Seq(EventType)
  BY <1>1
<1>4. l.events # <<>> => Tail(l.events) \in Seq(EventType) /\ Head(l.events) \in EventType
  BY <1>1
<1> QED
  BY <1>2, <1>3, <1>4

LEMMA LookMoves ==
    ASSUME NEW l \in LookType
    PROVE  /\ \A pc \in {"idle", "scanning", "recording", "reconciling"} :
                [l EXCEPT !.pc = pc] \in LookType
           /\ \A s \in SUBSET (Accounts \X Statuses) : [l EXCEPT !.todo = s] \in LookType
           /\ \A s \in SUBSET Accounts : [l EXCEPT !.live = s] \in LookType
<1>1. \A pc \in {"idle", "scanning", "recording", "reconciling"} : [l EXCEPT !.pc = pc] \in LookType
  BY DEF LookType
<1>2. \A s \in SUBSET (Accounts \X Statuses) : [l EXCEPT !.todo = s] \in LookType
  BY DEF LookType
<1>3. \A s \in SUBSET Accounts : [l EXCEPT !.live = s] \in LookType
  BY DEF LookType
<1> QED
  BY <1>1, <1>2, <1>3

LEMMA ReadRowType ==
    ASSUME TypeInv, NEW l \in LookType, NEW a \in Accounts, NEW s \in Statuses
    PROVE  ReadRow(a, s, l) \in LookType
<1>1. row[a] \in Row
  BY DEF TypeInv, TableOK
<1>2. [l EXCEPT !.account = a, !.label = s, !.row = row[a]] \in LookType
  BY <1>1 DEF LookType
<1> QED
  BY <1>2 DEF ReadRow

LEMMA ScanStepType == ASSUME TypeInv, NEW t \in Threads, ScanStep(t) PROVE TypeInv'
<1>. DEFINE l == look[t]
<1>1. l \in LookType
  BY DEF TypeInv, LooksOK
<1>. HIDE DEF l
<1>2. \A n \in pending : owner[n] \in Accounts /\ Event(owner[n], "in_game") \in EventType
  BY DEF TypeInv, IntentsOK, Event, EventType, Statuses
<1>3. ASSUME NEW n \in Launch, Track(t, n) PROVE TypeInv'
  <2>1. UNCHANGED <<table, expired, due, windows, history, claimed, call>> /\ pending' \subseteq pending
    BY <1>3 DEF Track
  <2>2. TracksOK' /\ LooksOK'
    <3>1. \/ tracked' = [tracked EXCEPT ![n] = Orphan] /\ look' = look
          \/ \E m \in pending : /\ tracked' = [tracked EXCEPT ![n] = owner[m]]
                                /\ look' = [look EXCEPT ![t].events = Append(@, Event(owner[m], "in_game"))]
      BY <1>3 DEF Track
    <3>2. CASE tracked' = [tracked EXCEPT ![n] = Orphan] /\ look' = look
      BY <2>1, <3>2 DEF TypeInv, TracksOK, LooksOK
    <3>3. ASSUME NEW m \in pending, tracked' = [tracked EXCEPT ![n] = owner[m]],
                 look' = [look EXCEPT ![t].events = Append(@, Event(owner[m], "in_game"))]
          PROVE  TracksOK' /\ LooksOK'
      <4>1. look' = [look EXCEPT ![t] = [l EXCEPT !.events = Append(@, Event(owner[m], "in_game"))]]
        BY <3>3 DEF l, TypeInv, LooksOK
      <4>2. [l EXCEPT !.events = Append(@, Event(owner[m], "in_game"))] \in LookType
        BY <1>1, <1>2, EventsMove
      <4>. QED BY <1>2, <2>1, <3>3, <4>1, <4>2, LookStep DEF TypeInv, TracksOK
    <3>. QED BY <3>1, <3>2, <3>3
  <2>3. IntentsOK'
    BY <2>1 DEF TypeInv, IntentsOK, history
  <2>. QED BY <2>1, <2>2, <2>3, Kept DEF TypeInv, TableOK, WindowsOK, table, windows
<1>4. ASSUME NEW n \in Launch, Retire(t, n) PROVE TypeInv'
  <2>1. UNCHANGED <<table, pending, expired, windows, history, claimed, call>>
    BY <1>4 DEF Retire
  <2>2. /\ tracked' = [tracked EXCEPT ![n] = Unseen]
        /\ \/ due' = due /\ look' = look
           \/ /\ tracked[n] \in Accounts
              /\ look' = [look EXCEPT ![t].events = Append(@, Event(tracked[n], "ready"))]
              /\ due' \subseteq due \cup {[launch |-> n, account |-> tracked[n]]}
    BY <1>4 DEF Retire, Missing, TypeInv, TracksOK
  <2>3. LooksOK'
    <3>1. CASE look' = look
      BY <3>1 DEF TypeInv, LooksOK
    <3>2. CASE /\ tracked[n] \in Accounts
               /\ look' = [look EXCEPT ![t].events = Append(@, Event(tracked[n], "ready"))]
      <4>1. look' = [look EXCEPT ![t] = [l EXCEPT !.events = Append(@, Event(tracked[n], "ready"))]]
        BY <3>2 DEF l, TypeInv, LooksOK
      <4>2. Event(tracked[n], "ready") \in EventType
        BY <3>2 DEF Event, EventType, Statuses
      <4>. QED BY <1>1, <4>1, <4>2, EventsMove, LookStep
    <3>. QED BY <2>2, <3>1, <3>2
  <2>4. TracksOK'
    BY <2>1, <2>2 DEF TypeInv, TracksOK
  <2>. QED BY <2>1, <2>3, <2>4, Kept DEF TypeInv, TableOK, WindowsOK, table, windows
<1>5. ASSUME UNCHANGED <<table, monitor, windows, history, claimed, call>>, LooksOK' PROVE TypeInv'
  BY <1>5, Kept DEF TypeInv, TableOK, WindowsOK, TracksOK, table, monitor, windows
<1>6. CASE EndScan(t)
  <2>. DEFINE seen == {a \in Accounts : Tracks(a)}
  <2>1. look' = [look EXCEPT ![t] = [[l EXCEPT !.pc = "recording"] EXCEPT !.live = seen]]
    BY <1>1, <1>6 DEF EndScan, l, TypeInv, LooksOK, LookType
  <2>2. [[l EXCEPT !.pc = "recording"] EXCEPT !.live = seen] \in LookType
    BY <1>1, LookMoves
  <2>. QED BY <1>5, <1>6, <2>1, <2>2, LookStep DEF EndScan
<1>7. CASE RecordEvent(t)
  <2>1. look' = [look EXCEPT ![t] = ReadRow(Head(l.events).account, Head(l.events).label,
                                            [l EXCEPT !.events = Tail(@)])] /\ l.events # <<>>
    BY <1>7 DEF RecordEvent, l
  <2>2. /\ Head(l.events).account \in Accounts /\ Head(l.events).label \in Statuses
        /\ [l EXCEPT !.events = Tail(@)] \in LookType
    BY <1>1, <2>1, EventsMove DEF EventType
  <2>. QED BY <1>5, <1>7, <2>1, <2>2, ReadRowType, LookStep DEF RecordEvent
<1>8. CASE BeginReconcile(t)
  <2>1. look' = [look EXCEPT ![t] = IF l.complete
                   THEN [[l EXCEPT !.pc = "reconciling"] EXCEPT !.todo = Labelled] ELSE IdleLook]
    BY <1>1, <1>8 DEF BeginReconcile, l, LookType
  <2>2. Labelled \in SUBSET (Accounts \X Statuses)
    BY DEF Labelled, Statuses
  <2>3. [[l EXCEPT !.pc = "reconciling"] EXCEPT !.todo = Labelled] \in LookType
    BY <1>1, <2>2, LookMoves
  <2>. QED BY <1>5, <1>8, <2>1, <2>3, IdleLookType, LookStep DEF BeginReconcile
<1>9. ASSUME NEW a \in Accounts, NEW enlisted \in Statuses, Reconcile(t, a, enlisted) PROVE TypeInv'
  <2>. DEFINE rest == [l EXCEPT !.todo = @ \ {<<a, enlisted>>}]
              label == Label(a, l.live)
  <2>1. label \in Statuses
    BY DEF Label, Statuses
  <2>2. l.todo \in SUBSET (Accounts \X Statuses)
    BY <1>1 DEF LookType
  <2>3. rest \in LookType
    BY <1>1, <2>2, LookMoves
  <2>4. ReadRow(a, label, rest) \in LookType
    BY <2>1, <2>3, ReadRowType
  <2>5. look' = [look EXCEPT ![t] = IF label = enlisted THEN rest ELSE ReadRow(a, label, rest)]
    BY <1>9 DEF Reconcile, l
  <2>. QED BY <1>5, <1>9, <2>3, <2>4, <2>5, LookStep DEF Reconcile
<1>10. CASE WriteLabel(t)
  <2>1. UNCHANGED <<monitor, windows, history, claimed, call>>
    BY <1>10 DEF WriteLabel
  <2>2. l.account \in Accounts /\ l.row \in Row /\ l.label \in Statuses
    BY <1>1, <1>10 DEF WriteLabel, l, LookType
  <2>3. Saved(l.account, [l.row EXCEPT !.status = l.label]) \in Row
    BY <2>2, StatusChange, SavedType DEF TypeInv
  <2>4. TableOK'
    BY <1>10, <2>3 DEF WriteLabel, Edits, l, TypeInv, TableOK
  <2>5. look' = [look EXCEPT ![t] = [l EXCEPT !.account = "none", !.label = "ready", !.row = NoRow]]
    BY <1>10 DEF WriteLabel, l, TypeInv, LooksOK
  <2>6. [l EXCEPT !.account = "none", !.label = "ready", !.row = NoRow] \in LookType
    BY <1>1, NoRowType DEF LookType, Statuses
  <2>7. LooksOK'
    BY <2>5, <2>6, LookStep
  <2>. QED BY <2>1, <2>4, <2>7, Kept DEF TypeInv, WindowsOK, TracksOK, monitor, windows
<1>11. CASE EndReconcile(t)
  BY <1>5, <1>11, IdleLookType, LookStep DEF EndReconcile
<1> QED
  BY <1>3, <1>4, <1>6, <1>7, <1>8, <1>9, <1>10, <1>11 DEF ScanStep

LEMMA SetCapType == TypeInv /\ SetCap => TypeInv'
<1> SUFFICES ASSUME TypeInv, SetCap PROVE TypeInv'
  OBVIOUS
<1>1. UNCHANGED <<row, monitor, client, ahead, left, history, claimed, call, look>> /\ file' = "user"
  BY DEF SetCap
<1>2. WindowsOK'
  BY <1>1 DEF TypeInv, WindowsOK, Contents, Strange
<1>3. TableOK'
  BY <1>1, Kept DEF SetCap, Edits, TypeInv, TableOK
<1> QED
  BY <1>1, <1>2, <1>3, Kept DEF TypeInv, TracksOK, LooksOK, monitor

LEMMA TypeStep == TypeInv /\ [Next]_vars => TypeInv'
<1>1. TypeInv /\ UNCHANGED vars => TypeInv'
  BY Kept DEF vars, table, monitor, windows, history, TypeInv, TableOK, WindowsOK, TracksOK, LooksOK
<1> QED
  BY <1>1, RobloxType, LaunchStepType, ScanBegins, ScanStepType, UserType, DispatchType, ReorderType,
     SetCapType DEF Next

\* Every variable keeps the shape the code gives it, and a launch the account it was asked for
\* (application_service.py, launch_account and the callers of save_account).
THEOREM LaunchTypes == Spec => []TypeOK
BY InitType, TypeStep, TypeInvImplies, PTL DEF Spec

-----------------------------------------------------------------------------
(* The order of the accounts.                                               *)

OrderKept ==
    \A a \in Accounts : (row[a].present /\ row'[a].present /\ row'[a].order # row[a].order)
        => edits' = edits + 1 /\ row'[a].order = edits'

\* Whatever row is saved, its order is that of the row in the table.
LEMMA SavedKeepsOrder ==
    ASSUME TypeInv, NEW a \in Accounts, NEW r \in Row, row' = [row EXCEPT ![a] = Saved(a, r)]
    PROVE  OrderKept
<1>1. \A b \in Accounts : row'[b] = IF b = a THEN Saved(a, r) ELSE row[b]
  BY DEF TypeInv, TableOK
<1>2. row[a].present => Saved(a, r).order = row[a].order
  BY SavedType DEF TypeInv
<1> QED
  BY <1>1, <1>2 DEF OrderKept

LEMMA OrderStep == TypeInv /\ [Next]_vars => OrderKept
<1> SUFFICES ASSUME TypeInv, [Next]_vars PROVE OrderKept
  OBVIOUS
<1>1. CASE UNCHANGED row
  BY <1>1 DEF OrderKept
<1>2. CASE Reorder
  <2>1. \A a \in Accounts : [row[a] EXCEPT !.order = edits + 1].order = edits + 1
    BY DEF TypeInv, TableOK, Row
  <2>2. edits' = edits + 1 /\ \A a \in Accounts : row'[a] = row[a] \/ row'[a].order = edits + 1
    BY <1>2, <2>1 DEF Reorder, Edits
  <2>. QED BY <2>2 DEF OrderKept
<1>3. ASSUME NEW t \in Threads, LaunchStep(t) PROVE OrderKept
  <2>1. CASE SaveLaunched(t)
    <3>1. [call[t].row EXCEPT !.status = "launching"] \in Row /\ call[t].account \in Accounts
      BY <2>1, StatusChange DEF SaveLaunched, TypeInv, CallsOK, CallType, CallFits, Launching,
                                UnderLock, Statuses
    <3>. QED BY <1>1, <2>1, <3>1, SavedKeepsOrder DEF SaveLaunched
  <2>2. CASE ~ SaveLaunched(t)
    BY <1>1, <1>3, <2>2 DEF LaunchStep, CheckDuplicate, EnterLaunch, PreparationFails,
                           RegisterIntent, HandOff, HandOffFails, table
  <2>. QED BY <2>1, <2>2
<1>4. ASSUME NEW t \in Threads, ScanStep(t) PROVE OrderKept
  <2>1. CASE WriteLabel(t)
    <3>1. look[t] \in LookType /\ look[t].account # "none"
      BY <2>1 DEF WriteLabel, TypeInv, LooksOK
    <3>2. [look[t].row EXCEPT !.status = look[t].label] \in Row /\ look[t].account \in Accounts
      BY <3>1, StatusChange DEF LookType
    <3>. QED BY <1>1, <2>1, <3>2, SavedKeepsOrder DEF WriteLabel
  <2>2. CASE ~ WriteLabel(t)
    BY <1>1, <1>4, <2>2 DEF ScanStep, Track, Retire, EndScan, RecordEvent, BeginReconcile, Reconcile,
                           EndReconcile, table
  <2>. QED BY <2>1, <2>2
<1>5. ASSUME NEW t \in Threads, UserStep(t) PROVE OrderKept
  <2>1. CASE SaveEdit(t)
    <3>1. call[t].row \in Row /\ call[t].account \in Accounts /\ edits \in 0 .. MaxEdits
      BY <2>1 DEF SaveEdit, TypeInv, TableOK, CallsOK, CallType, CallFits
    <3>2. [call[t].row EXCEPT !.rule = edits] \in Row
      BY <3>1, EditChange
    <3>. QED BY <2>1, <3>1, <3>2, SavedKeepsOrder DEF SaveEdit
  <2>2. ASSUME NEW a \in Accounts, DeleteRow(t, a) PROVE OrderKept
    <3>1. \A b \in Accounts : row'[b] = row[b] \/ ~ row'[b].present
      BY <2>2 DEF DeleteRow, NoRow, TypeInv, TableOK
    <3>. QED BY <3>1 DEF OrderKept
  <2>3. CASE ~ SaveEdit(t) /\ \A a \in Accounts : ~ DeleteRow(t, a)
    BY <1>1, <1>5, <2>3 DEF UserStep, StartLaunch, BeginEdit, ForgetInMonitor, table
  <2>. QED BY <2>1, <2>2, <2>3
<1>6. CASE Roblox \/ Dispatch \/ SetCap \/ UNCHANGED vars
  BY <1>1, <1>6 DEF SetCap, Roblox, ClientStarts, ClientDies, IntentExpires, Dispatch, ClaimDue,
                    StartRelaunch, DropRelaunch, table, vars
<1>7. ASSUME NEW t \in Threads, AwaitReturns(t) \/ \E complete \in BOOLEAN : BeginScan(t, complete)
      PROVE  OrderKept
  BY <1>1, <1>7 DEF AwaitReturns, BeginScan, table
<1> QED
  BY <1>2, <1>3, <1>4, <1>5, <1>6, <1>7 DEF Next

\* "reorder_accounts is the only operation allowed to change an established order": for any number
\* of threads, the stale rows that launches, labels and edits save whole never move an account that
\* the user has arranged (application_service.py; sqlite_repository.py, save_account).
THEOREM OrderIsTheUsers == Spec => OnlyReorderReorders
<1>1. Spec => []TypeInv
  BY InitType, TypeStep, PTL DEF Spec
<1>2. Spec => [][OrderKept]_vars
  BY <1>1, OrderStep, PTL DEF Spec
<1> QED
  BY <1>2 DEF OrderKept, OnlyReorderReorders

-----------------------------------------------------------------------------
(* Launches that failed.                                                    *)

LEMMA IntentStep == TypeInv /\ NoIntentOfFailedLaunch /\ [Next]_vars => NoIntentOfFailedLaunch'
<1> SUFFICES ASSUME TypeInv, NoIntentOfFailedLaunch, [Next]_vars, NEW n \in pending'
             PROVE  \/ client'[n] # "none"
                    \/ \E t \in Threads : call'[t].launch = n /\ call'[t].pc = "registered"
  BY DEF NoIntentOfFailedLaunch
<1>. DEFINE Goal == \/ client'[n] # "none"
                    \/ \E t \in Threads : call'[t].launch = n /\ call'[t].pc = "registered"
<1>1. call \in [Threads -> CallType] /\ client \in [Launch -> {"none", "starting", "running", "dead"}]
  BY DEF TypeInv, CallsOK, WindowsOK
\* A step that leaves the calls at "registered" and the clients there are.
<1>2. ASSUME n \in pending, client[n] # "none" => client'[n] # "none",
             \A t \in Threads : call[t].pc = "registered" => call'[t] = call[t]
      PROVE  Goal
  BY <1>2 DEF NoIntentOfFailedLaunch
<1>3. CASE Roblox
  <2>1. call' = call /\ pending' \subseteq pending
    BY <1>3 DEF Roblox, ClientStarts, ClientDies, IntentExpires, monitor
  <2>2. n \in Launch /\ (client[n] # "none" => client'[n] # "none")
    BY <1>1, <1>3, <2>1 DEF Roblox, ClientStarts, ClientDies, IntentExpires, windows, TypeInv, IntentsOK
  <2>. QED BY <1>2, <2>1, <2>2
<1>4. ASSUME NEW t \in Threads, LaunchStep(t) PROVE Goal
  <2>1. CASE RegisterIntent(t)
    <3>1. CASE n = call[t].launch
      BY <1>1, <2>1, <3>1 DEF RegisterIntent, CallType
    <3>2. CASE n # call[t].launch
      BY <1>1, <1>2, <2>1, <3>2 DEF RegisterIntent, windows
    <3>. QED BY <3>1, <3>2
  <2>2. CASE HandOff(t)
    <3>0. n \in pending /\ n \in Launch
      BY <2>2 DEF HandOff, monitor, TypeInv, IntentsOK
    <3>1. CASE n = call[t].launch
      BY <1>1, <2>2, <3>0, <3>1 DEF HandOff
    <3>2. CASE n # call[t].launch
      <4>1. client'[n] = client[n]
        BY <1>1, <2>2, <3>2 DEF HandOff
      <4>2. \A u \in Threads : u # t => call'[u] = call[u]
        BY <1>1, <2>2 DEF HandOff
      <4>. QED BY <3>0, <3>2, <4>1, <4>2 DEF NoIntentOfFailedLaunch
    <3>. QED BY <3>1, <3>2
  <2>3. CASE HandOffFails(t)
    <3>1. n \in pending /\ n # call[t].launch /\ client' = client
      BY <2>3 DEF HandOffFails, Cancelled
    <3>2. \A u \in Threads : u # t => call'[u] = call[u]
      BY <1>1, <2>3 DEF HandOffFails
    <3>. QED BY <3>1, <3>2 DEF NoIntentOfFailedLaunch
  <2>4. CASE CheckDuplicate(t) \/ EnterLaunch(t) \/ PreparationFails(t) \/ SaveLaunched(t)
    BY <1>1, <1>2, <2>4 DEF CheckDuplicate, EnterLaunch, PreparationFails, SaveLaunched, monitor, windows
  <2>. QED BY <1>4, <2>1, <2>2, <2>3, <2>4 DEF LaunchStep
<1>5. ASSUME NEW t \in Threads, AwaitReturns(t) \/ ScanStep(t) \/ UserStep(t) PROVE Goal
  <2>1. n \in pending /\ client' = client
    BY <1>5 DEF AwaitReturns, ScanStep, Track, Retire, EndScan, RecordEvent, BeginReconcile, Reconcile,
                WriteLabel, EndReconcile, UserStep, StartLaunch, BeginEdit, SaveEdit, DeleteRow,
                ForgetInMonitor, monitor, windows
  <2>2. \A u \in Threads : call[u].pc = "registered" => call'[u] = call[u]
    BY <1>1, <1>5 DEF AwaitReturns, ScanStep, Track, Retire, EndScan, RecordEvent, BeginReconcile, Reconcile,
                WriteLabel, EndReconcile, UserStep, StartLaunch, Load, BeginEdit, SaveEdit, DeleteRow,
                ForgetInMonitor
  <2>. QED BY <1>2, <2>1, <2>2
<1>6. CASE Dispatch
  <2>1. n \in pending /\ client' = client
    BY <1>6 DEF Dispatch, ClaimDue, StartRelaunch, DropRelaunch, monitor, windows
  <2>2. \A u \in Threads : call[u].pc = "registered" => call'[u] = call[u]
    BY <1>1, <1>6 DEF Dispatch, ClaimDue, StartRelaunch, DropRelaunch, Load
  <2>. QED BY <1>2, <2>1, <2>2
<1>7. CASE Reorder \/ SetCap \/ UNCHANGED vars \/ \E t \in Threads, complete \in BOOLEAN : BeginScan(t, complete)
  BY <1>2, <1>7 DEF Reorder, SetCap, vars, BeginScan, monitor, windows
<1> QED
  BY <1>3, <1>4, <1>5, <1>6, <1>7 DEF Next

\* A launch that failed, at whatever step, leaves no intent in the monitor: it could neither refuse
\* the next launch of its account as a duplicate, nor be given to somebody else's client
\* (application_service.py, launch_account and its except clauses).
THEOREM FailedLaunchesLeaveNothing == Spec => []NoIntentOfFailedLaunch
<1>1. Init => NoIntentOfFailedLaunch
  BY DEF Init, NoIntentOfFailedLaunch
<1>2. Spec => []TypeInv
  BY InitType, TypeStep, PTL DEF Spec
<1> QED
  BY <1>1, <1>2, IntentStep, PTL DEF Spec

-----------------------------------------------------------------------------
(* Every client goes to its account.                                        *)
(*                                                                          *)
(* The launch lock is held until the client of the launch has been seen, so *)
(* that one client at most is still to be seen, the settings file is as its *)
(* launch left it, and the one intent pending is its own.  This needs       *)
(* clients that come up within the wait, and that no two calls for one      *)
(* account overlap: the wait ends as soon as the account is seen in the     *)
(* game, and that may be another client of it.                              *)

Alone == Prompt = TRUE /\ NoOverlap

Earlier == {"loaded", "checked", "locked", "registered"}    \* of the hand-off
After  == {"handed", "awaiting"}

Holds(t, n) == call[t].launch = n /\ call[t].pc \in After

OneLock == \A t, u \in Threads : (call[t].pc \in UnderLock /\ call[u].pc \in UnderLock) => t = u
OneScanner ==
    \A t, u \in Threads : (look[t].pc = "scanning" /\ look[u].pc = "scanning") => t = u

\* Until its client starts, the file is as the launch left it, or as the user set it.
FileIsHis ==
    \A t \in Threads :
        (call[t].pc \in UnderLock /\ client[call[t].launch] \in {"none", "starting"})
            => file \in {left[call[t].launch], "user"}

\* An intent is that of the launch under way, until its client is seen.
IntentHeld(t, n) ==
    /\ call[t].launch = n
    /\ \/ call[t].pc = "registered" /\ client[n] = "none"
       \/ /\ call[t].pc \in After /\ Unobserved(n)
          /\ client[n] = "running" => n \in ahead[n]
IntentsHeld == \A n \in pending : \E t \in Threads : IntentHeld(t, n)
ClientsHeld == \A n \in Launch : Unobserved(n) => \E t \in Threads : Holds(t, n)

\* A client that is not up has left no trace.
NoTrace ==
    /\ \A n \in Launch : client[n] \in {"none", "starting"} => tracked[n] = Unseen
    /\ \A t \in Threads : call[t].pc \in Earlier => client[call[t].launch] = "none"
    /\ \A n \in Launch : n > calls => client[n] = "none"

\* What a scan works on is not outdated by what happens during the scan.
ScansFit ==
    \A t \in Threads : look[t].pc = "scanning" =>
        /\ \A n \in look[t].seen : tracked[n] = Unseen => client[n] = "running"
        /\ look[t].complete =>
             \A n \in Launch \ look[t].seen : tracked[n] # Unseen => client[n] = "dead"

\* While an account is being launched, no other client of it is in the game.
Unrivalled ==
    \A t \in Threads : call[t].pc \in {"checked"} \cup UnderLock =>
        \A n \in Launch : tracked[n] = call[t].account => n = call[t].launch

\* An account is in the game once.
OneEach == \A m, n \in Launch : (tracked[m] = tracked[n] /\ tracked[n] \in Accounts) => m = n

\* The monitor never gives a client to somebody else.
GoesNowhereElse == \A n \in Launch : tracked[n] \in {Unseen, Orphan, owner[n]}

\* Without deletions, no intent is taken from a client.
NobodyDeleted ==
    MaxEdits = 0 =>
        /\ \A n \in Launch : tracked[n] # Orphan /\ (Unobserved(n) => n \in pending)
        /\ \A t \in Threads : call[t].pc # "deleting"
                           /\ (call[t].pc = "registered" => call[t].launch \in pending)

LaneInv ==
    /\ OneLock /\ OneScanner /\ FileIsHis
    /\ IntentsHeld /\ ClientsHeld /\ NoTrace /\ ScansFit /\ Unrivalled
    /\ GoesNowhereElse /\ NobodyDeleted

\* An account is launched by one thread at a time.
LEMMA OneLauncher ==
    ASSUME Alone, NEW t \in Threads, NEW u \in Threads,
           call[t].pc \in Launching, call[u].pc \in Launching, call[t].account = call[u].account
    PROVE  t = u
BY DEF Alone, NoOverlap, Launching

LEMMA OneCall ==
    ASSUME Alone, TypeInv, NEW t \in Threads, NEW u \in Threads,
           call[t].pc \in Launching, call[u].pc \in Launching, call[t].launch = call[u].launch
    PROVE  t = u
<1>1. call[t].account = call[u].account
  BY DEF TypeInv, CallsOK, CallFits
<1> QED
  BY <1>1, OneLauncher

LEMMA InitLane == Init => LaneInv
<1> SUFFICES ASSUME Init PROVE LaneInv
  OBVIOUS
<1>1. (\A t \in Threads : call[t].pc = "idle") /\ (\A t \in Threads : look[t].pc = "idle")
  BY DEF Init, IdleCall, IdleLook
<1>2. OneLock /\ OneScanner /\ FileIsHis /\ ScansFit /\ Unrivalled
  BY <1>1 DEF Init, OneLock, OneScanner, FileIsHis, ScansFit, Unrivalled,
              UnderLock, Launching
<1>3. \A n \in Launch : client[n] = "none" /\ tracked[n] = Unseen /\ ~ Unobserved(n)
  BY DEF Init, Unobserved
<1>4. IntentsHeld /\ ClientsHeld /\ NoTrace
  BY <1>1, <1>3 DEF Init, IntentsHeld, ClientsHeld, NoTrace, Earlier
<1>5. GoesNowhereElse /\ NobodyDeleted
  BY <1>1, <1>3 DEF GoesNowhereElse, NobodyDeleted, Unseen, Orphan
<1> QED
  BY <1>2, <1>4, <1>5 DEF LaneInv

\* What a step that leaves the clients and the monitor alone leaves alone.
LEMMA SameClients ==
    ASSUME UNCHANGED <<client, tracked>>
    PROVE  \A n : Unobserved(n)' <=> Unobserved(n)
BY DEF Unobserved

\* The end of a scan, and what follows it.
LEMMA LaneFrame ==
    ASSUME LaneInv, UNCHANGED <<pending, tracked, windows, history, call>>,
           \A t \in Threads : look'[t].pc = "scanning" =>
               /\ look[t].pc = "scanning" /\ look'[t].seen = look[t].seen
               /\ look'[t].complete = look[t].complete
    PROVE  LaneInv'
<1>1. \A n : Unobserved(n)' <=> Unobserved(n)
  BY SameClients DEF windows
<1>2. OneLock' /\ OneScanner' /\ FileIsHis'
  BY DEF LaneInv, OneLock, OneScanner, FileIsHis, windows
<1>3. IntentsHeld' /\ ClientsHeld' /\ NoTrace'
  BY <1>1 DEF LaneInv, IntentsHeld, IntentHeld, ClientsHeld, Holds, NoTrace, windows, history
<1>4. ScansFit' /\ Unrivalled'
  BY DEF LaneInv, ScansFit, Unrivalled, windows
<1>5. GoesNowhereElse' /\ NobodyDeleted'
  BY <1>1 DEF LaneInv, GoesNowhereElse, NobodyDeleted, windows, history
<1> QED
  BY <1>2, <1>3, <1>4, <1>5 DEF LaneInv

\* A call that has registered nothing ends, or is one of an edit.
LEMMA CallFrame ==
    ASSUME Alone, TypeInv, LaneInv, NEW t \in Threads, NEW c, call' = [call EXCEPT ![t] = c],
           c.pc \notin Launching, c.pc = "deleting" => MaxEdits # 0,
           call[t].pc \notin {"registered", "handed", "awaiting"},
           UNCHANGED <<pending, tracked, client, ahead, file, history, look>>,
           \/ left' = left
           \/ call[t].pc \in Launching /\ left' = [left EXCEPT ![call[t].launch] = "none"]
    PROVE  LaneInv'
<1>1. \A n : Unobserved(n)' <=> Unobserved(n)
  BY SameClients
<1>2. \A u \in Threads : call'[u] = IF u = t THEN c ELSE call[u]
  BY DEF TypeInv, CallsOK
<1>3. /\ \A u \in Threads : call'[u].pc \in Launching => u # t /\ call'[u] = call[u]
      /\ \A u \in Threads : call[u].pc \in {"registered", "handed", "awaiting"} => call'[u] = call[u]
  BY <1>2
<1>4. OneLock' /\ OneScanner'
  BY <1>3 DEF LaneInv, OneLock, OneScanner, Launching
<1>9. FileIsHis'
  <2>. SUFFICES ASSUME NEW u \in Threads, call'[u].pc \in UnderLock,
                       client'[call'[u].launch] \in {"none", "starting"}
                PROVE  file' \in {left'[call'[u].launch], "user"}
    BY DEF FileIsHis
  <2>1. u # t /\ call'[u] = call[u] /\ call[u].pc \in Launching /\ call[u].launch \in Launch
    BY <1>3 DEF Launching, TypeInv, CallsOK, CallFits
  <2>2. call[t].pc \in Launching => call[t].launch # call[u].launch
    BY <2>1, OneCall
  <2>3. left'[call[u].launch] = left[call[u].launch]
    BY <2>1, <2>2 DEF TypeInv, WindowsOK
  <2>. QED BY <2>1, <2>3 DEF LaneInv, FileIsHis
<1>5. IntentsHeld' /\ ClientsHeld'
  BY <1>1, <1>3 DEF LaneInv, IntentsHeld, IntentHeld, ClientsHeld, Holds, After
<1>6. NoTrace' /\ ScansFit' /\ Unrivalled'
  BY <1>3 DEF LaneInv, NoTrace, Earlier, ScansFit, Unrivalled, history, Launching, UnderLock
<1>7. GoesNowhereElse'
  BY DEF LaneInv, GoesNowhereElse, history
<1>8. NobodyDeleted'
  <2>1. \A u \in Threads : MaxEdits = 0 => /\ call'[u].pc # "deleting"
                                           /\ call'[u].pc = "registered" => call'[u] = call[u]
    BY <1>2, <1>3 DEF LaneInv, NobodyDeleted, Launching, UnderLock
  <2>. QED BY <1>1, <2>1 DEF LaneInv, NobodyDeleted
<1> QED
  BY <1>4, <1>5, <1>6, <1>7, <1>8, <1>9 DEF LaneInv

LEMMA LaneClientStarts ==
    ASSUME Alone, TypeInv, LaneInv, NEW n \in Launch, ClientStarts(n) PROVE LaneInv'
<1>1. PICK t \in Threads : Holds(t, n)
  BY DEF ClientStarts, Unobserved, LaneInv, ClientsHeld
<1>2. /\ \A u \in Threads : call[u].pc \in UnderLock => u = t
      /\ \A u \in Threads : call[u].launch = n /\ call[u].pc \in Launching => u = t
  <2>1. call[t].pc \in UnderLock /\ call[t].pc \in Launching /\ call[t].launch = n
    BY <1>1 DEF Holds, After, UnderLock, Launching
  <2>. QED BY <2>1, OneCall DEF LaneInv, OneLock
<1>3. /\ \A m \in Launch : client'[m] = IF m = n THEN "running" ELSE client[m]
      /\ \A m \in Launch : m # n => left'[m] = left[m]
      /\ \A m \in Launch : ahead'[m] = IF m = n THEN pending ELSE ahead[m]
      /\ client[n] = "starting" /\ tracked[n] = Unseen
  BY <1>2 DEF ClientStarts, TypeInv, WindowsOK, LaneInv, NoTrace
<1>4. UNCHANGED <<pending, tracked, due, claimed, file, owner, calls, call, look>>
  BY DEF ClientStarts, monitor, history
<1>5. \A m \in Launch : Unobserved(m)' <=> Unobserved(m)
  BY <1>3, <1>4 DEF Unobserved
<1>6. OneLock' /\ OneScanner' /\ Unrivalled'
  BY <1>4 DEF LaneInv, OneLock, OneScanner, Unrivalled
<1>12. FileIsHis'
  <2>1. \A u \in Threads : call[u].pc \in UnderLock => call[u].launch \in Launch
    BY DEF TypeInv, CallsOK, CallFits, Launching
  <2>. QED BY <1>3, <1>4, <2>1 DEF LaneInv, FileIsHis
<1>7. IntentsHeld'
  <2>1. SUFFICES ASSUME NEW m \in pending PROVE \E u \in Threads : IntentHeld(u, m)'
    BY <1>4 DEF IntentsHeld
  <2>2. PICK u \in Threads : IntentHeld(u, m)
    BY DEF LaneInv, IntentsHeld
  <2>3. m \in Launch
    BY DEF TypeInv, IntentsOK
  <2>4. IntentHeld(u, m)'
    BY <1>3, <1>4, <1>5, <2>2, <2>3 DEF IntentHeld, Unobserved
  <2>. QED BY <2>4
<1>8. ClientsHeld'
  BY <1>4, <1>5 DEF LaneInv, ClientsHeld, Holds
<1>9. NoTrace'
  <2>1. \A u \in Threads : call[u].pc \in Earlier => call[u].launch # n
    BY <1>3 DEF LaneInv, NoTrace
  <2>2. n <= calls
    BY <1>3 DEF LaneInv, NoTrace, TypeInv, HistoryOK, Launch
  <2>3. \A u \in Threads : call[u].pc \in Earlier => call[u].launch \in Launch
    BY DEF TypeInv, CallsOK, CallFits, Earlier, Launching, UnderLock
  <2>. QED BY <1>3, <1>4, <2>1, <2>2, <2>3 DEF LaneInv, NoTrace
<1>10. ScansFit'
  <2>1. \A u \in Threads : look[u].seen \subseteq Launch
    BY DEF TypeInv, LooksOK, LookType
  <2>2. /\ \A m \in Launch : client[m] = "running" => client'[m] = "running"
        /\ \A m \in Launch : tracked[m] # Unseen => client'[m] = client[m]
    BY <1>3
  <2>. QED BY <1>4, <2>1, <2>2 DEF LaneInv, ScansFit
<1>11. GoesNowhereElse' /\ NobodyDeleted'
  BY <1>3, <1>4, <1>5 DEF LaneInv, GoesNowhereElse, NobodyDeleted
<1> QED
  BY <1>6, <1>7, <1>8, <1>9, <1>10, <1>11, <1>12 DEF LaneInv

LEMMA LaneClientDies ==
    ASSUME Alone, TypeInv, LaneInv, NEW n \in Launch, ClientDies(n) PROVE LaneInv'
<1>1. /\ ~ Unobserved(n) /\ client[n] = "running"
      /\ \A m \in Launch : client'[m] = IF m = n THEN "dead" ELSE client[m]
  BY DEF ClientDies, Alone, TypeInv, WindowsOK, Unobserved
<1>2. /\ UNCHANGED <<pending, tracked, due, claimed, ahead, file, owner, calls, call, look>>
      /\ \A m \in Launch : m # n => left'[m] = left[m]
  BY DEF ClientDies, monitor, history, TypeInv, WindowsOK
<1>3. \A m \in Launch : Unobserved(m)' <=> Unobserved(m)
  BY <1>1, <1>2 DEF Unobserved
<1>4. OneLock' /\ OneScanner' /\ Unrivalled'
  BY <1>2 DEF LaneInv, OneLock, OneScanner, Unrivalled
<1>10. FileIsHis'
  <2>1. \A u \in Threads : call[u].pc \in UnderLock => call[u].launch \in Launch
    BY DEF TypeInv, CallsOK, CallFits, Launching
  <2>. QED BY <1>1, <1>2, <2>1 DEF LaneInv, FileIsHis
<1>5. IntentsHeld'
  <2>1. SUFFICES ASSUME NEW m \in pending PROVE \E u \in Threads : IntentHeld(u, m)'
    BY <1>2 DEF IntentsHeld
  <2>2. PICK u \in Threads : IntentHeld(u, m)
    BY DEF LaneInv, IntentsHeld
  <2>3. m \in Launch
    BY DEF TypeInv, IntentsOK
  <2>4. m # n /\ client'[m] = client[m]
    BY <1>1, <2>2, <2>3 DEF IntentHeld
  <2>5. IntentHeld(u, m)'
    BY <1>2, <1>3, <2>2, <2>3, <2>4 DEF IntentHeld
  <2>. QED BY <2>5
<1>6. ClientsHeld'
  BY <1>2, <1>3 DEF LaneInv, ClientsHeld, Holds
<1>7. NoTrace'
  <2>1. \A u \in Threads : call[u].pc \in Earlier => call[u].launch # n /\ call[u].launch \in Launch
    BY <1>1 DEF LaneInv, NoTrace, TypeInv, CallsOK, CallFits, Earlier, Launching, UnderLock
  <2>. QED BY <1>1, <1>2, <2>1 DEF LaneInv, NoTrace
<1>8. ScansFit'
  <2>1. \A u \in Threads : look[u].seen \subseteq Launch
    BY DEF TypeInv, LooksOK, LookType
  <2>2. /\ \A m \in Launch : tracked[m] = Unseen /\ client[m] = "running" => client'[m] = "running"
        /\ \A m \in Launch : client[m] = "dead" => client'[m] = "dead"
    BY <1>1 DEF Unobserved
  <2>. QED BY <1>2, <2>1, <2>2 DEF LaneInv, ScansFit
<1>9. GoesNowhereElse' /\ NobodyDeleted'
  BY <1>2, <1>3 DEF LaneInv, GoesNowhereElse, NobodyDeleted
<1> QED
  BY <1>4, <1>5, <1>6, <1>7, <1>8, <1>9, <1>10 DEF LaneInv

LEMMA LaneIntentExpires ==
    ASSUME Alone, TypeInv, LaneInv, NEW n \in Launch, IntentExpires(n) PROVE LaneInv'
<1>1. /\ ~ Unobserved(n) /\ pending' = pending \ {n}
      /\ \A t \in Threads : call[t].launch # n
  BY DEF IntentExpires, Alone
<1>2. UNCHANGED <<tracked, due, claimed, client, ahead, file, left, owner, calls, call, look>>
  BY DEF IntentExpires, windows, history
<1>3. \A m \in Launch : Unobserved(m)' <=> Unobserved(m)
  BY <1>2 DEF Unobserved
<1>4. OneLock' /\ OneScanner' /\ FileIsHis' /\ Unrivalled'
  BY <1>2 DEF LaneInv, OneLock, OneScanner, FileIsHis, Unrivalled
<1>5. IntentsHeld'
  <2>1. SUFFICES ASSUME NEW m \in pending PROVE \E u \in Threads : IntentHeld(u, m)'
    BY <1>1 DEF IntentsHeld
  <2>2. PICK u \in Threads : IntentHeld(u, m)
    BY DEF LaneInv, IntentsHeld
  <2>3. m \in Launch
    BY DEF TypeInv, IntentsOK
  <2>4. IntentHeld(u, m)'
    BY <1>2, <1>3, <2>2, <2>3 DEF IntentHeld
  <2>. QED BY <2>4
<1>6. ClientsHeld' /\ NoTrace' /\ ScansFit' /\ GoesNowhereElse'
  BY <1>2, <1>3 DEF LaneInv, ClientsHeld, Holds, NoTrace, ScansFit, GoesNowhereElse
<1>7. NobodyDeleted'
  BY <1>1, <1>2, <1>3 DEF LaneInv, NobodyDeleted
<1> QED
  BY <1>4, <1>5, <1>6, <1>7 DEF LaneInv

LEMMA LaneRoblox == Alone /\ TypeInv /\ LaneInv /\ Roblox => LaneInv'
BY LaneClientStarts, LaneClientDies, LaneIntentExpires DEF Roblox

\* The call of a launch moves on to `pc`; nothing else changes but the settings file.
LEMMA LaneCallMoves ==
    ASSUME Alone, TypeInv, LaneInv, NEW t \in Threads, NEW pc \in Launching,
           call[t].pc \in Launching, call' = [call EXCEPT ![t].pc = pc],
           call[t].pc # "registered", pc # "registered",
           pc \in Earlier => call[t].pc \in Earlier, call[t].pc \in After <=> pc \in After,
           pc \in UnderLock => LaunchLockFree \/ call[t].pc \in UnderLock,
           \/ UNCHANGED <<file, left>> /\ (pc \in UnderLock => call[t].pc \in UnderLock)
           \/ pc \in UnderLock /\ file' = left'[call[t].launch],
           pc \in {"checked"} \cup UnderLock =>
               \/ call[t].pc \in {"checked"} \cup UnderLock
               \/ ~ Tracks(call[t].account),
           UNCHANGED <<pending, tracked, client, ahead, history, look>>
    PROVE  LaneInv'
<1>1. \A n : Unobserved(n)' <=> Unobserved(n)
  BY SameClients
<1>2. /\ \A u \in Threads : u # t => call'[u] = call[u]
      /\ call'[t].pc = pc /\ call'[t].launch = call[t].launch /\ call'[t].account = call[t].account
  BY DEF TypeInv, CallsOK, CallType
<1>3. OneLock' /\ FileIsHis'
  <2>1. \A u \in Threads : u # t /\ call[u].pc \in UnderLock => pc \notin UnderLock
    BY DEF LaunchLockFree, LaneInv, OneLock
  <2>. QED BY <1>2, <2>1 DEF LaneInv, OneLock, FileIsHis
<1>4. OneScanner' /\ ScansFit' /\ GoesNowhereElse'
  BY DEF LaneInv, OneScanner, ScansFit, GoesNowhereElse, history
<1>5. IntentsHeld' /\ ClientsHeld'
  <2>1. \A u \in Threads, n \in Launch : Holds(u, n) => Holds(u, n)'
    BY <1>2 DEF Holds
  <2>2. \A u \in Threads, n \in pending : IntentHeld(u, n) => IntentHeld(u, n)'
    BY <1>1, <1>2 DEF IntentHeld
  <2>. QED BY <1>1, <2>1, <2>2 DEF LaneInv, IntentsHeld, ClientsHeld
<1>6. NoTrace'
  BY <1>2 DEF LaneInv, NoTrace, history
<1>7. Unrivalled'
  BY <1>2 DEF LaneInv, Unrivalled, Tracks
<1>8. NobodyDeleted'
  BY <1>1, <1>2 DEF LaneInv, NobodyDeleted, Launching, UnderLock
<1> QED
  BY <1>3, <1>4, <1>5, <1>6, <1>7, <1>8 DEF LaneInv

\* A call begins, of a user or of the watcher.
LEMMA LaneLoad ==
    ASSUME Alone, TypeInv, LaneInv, NEW t \in Threads, NEW a \in Accounts, Load(t, a),
           UNCHANGED <<table, monitor, windows, look>>
    PROVE  LaneInv'
<1>. DEFINE n == calls + 1
<1>1. /\ \A u \in Threads : u # t => call'[u] = call[u]
      /\ call'[t].pc = "loaded" /\ call'[t].launch = n /\ call'[t].account = a
      /\ call[t].pc = "idle"
  BY DEF Load, TypeInv, CallsOK
<1>2. /\ n \in Launch /\ client[n] = "none" /\ tracked[n] = Unseen
      /\ \A m \in Launch : m > n => m > calls
  <2>1. n \in Launch /\ n > calls
    BY DEF Load, TypeInv, HistoryOK, Launch
  <2>2. \A m \in Launch : m > n => m > calls
    BY DEF TypeInv, HistoryOK, Launch
  <2>. QED BY <2>1, <2>2 DEF LaneInv, NoTrace
<1>3. /\ \A m \in Launch : m # n => owner'[m] = owner[m]
      /\ calls' = n
  BY DEF Load, TypeInv, HistoryOK
<1>4. UNCHANGED <<pending, tracked, client, ahead, file, left, look>>
  BY DEF monitor, windows
<1>5. \A m : Unobserved(m)' <=> Unobserved(m)
  BY <1>4, SameClients
<1> HIDE DEF n
<1>6. OneLock' /\ FileIsHis' /\ Unrivalled'
  BY <1>1, <1>4 DEF LaneInv, OneLock, FileIsHis, Unrivalled, UnderLock
<1>7. OneScanner' /\ ScansFit'
  BY <1>4 DEF LaneInv, OneScanner, ScansFit
<1>8. IntentsHeld' /\ ClientsHeld'
  <2>1. \A u \in Threads, m \in Launch : Holds(u, m) => Holds(u, m)'
    BY <1>1 DEF Holds, After
  <2>2. \A u \in Threads, m \in pending : IntentHeld(u, m) => IntentHeld(u, m)'
    BY <1>1, <1>4, <1>5 DEF IntentHeld, After
  <2>. QED BY <1>4, <1>5, <2>1, <2>2 DEF LaneInv, IntentsHeld, ClientsHeld
<1>9. NoTrace'
  BY <1>1, <1>2, <1>3, <1>4 DEF LaneInv, NoTrace
<1>10. GoesNowhereElse'
  BY <1>2, <1>3, <1>4 DEF LaneInv, GoesNowhereElse
<1>11. NobodyDeleted'
  BY <1>1, <1>4, <1>5 DEF LaneInv, NobodyDeleted
<1> QED
  BY <1>6, <1>7, <1>8, <1>9, <1>10, <1>11 DEF LaneInv

LEMMA LaneRegisterIntent ==
    ASSUME Alone, TypeInv, LaneInv, NEW t \in Threads, RegisterIntent(t) PROVE LaneInv'
<1>. PICK n : n = call[t].launch
  OBVIOUS
<1>1. /\ \A u \in Threads : u # t => call'[u] = call[u]
      /\ call'[t].pc = "registered" /\ call'[t].launch = n /\ call'[t].account = call[t].account
      /\ call[t].pc = "locked" /\ n \in Launch /\ pending' = pending \cup {n}
  BY DEF RegisterIntent, Alone, TypeInv, CallsOK, CallType, CallFits, Launching, UnderLock
<1>2. UNCHANGED <<tracked, client, ahead, file, left, owner, calls, look>>
  BY DEF RegisterIntent, windows, history
<1>3. \A m : Unobserved(m)' <=> Unobserved(m)
  BY <1>2, SameClients
<1>4. client[n] = "none"
  BY <1>1 DEF LaneInv, NoTrace, Earlier
<1>5. OneLock' /\ FileIsHis' /\ Unrivalled'
  BY <1>1, <1>2 DEF LaneInv, OneLock, FileIsHis, Unrivalled, UnderLock, Launching
<1>6. OneScanner' /\ ScansFit' /\ GoesNowhereElse'
  BY <1>2 DEF LaneInv, OneScanner, ScansFit, GoesNowhereElse
<1>7. IntentsHeld' /\ ClientsHeld'
  <2>1. \A u \in Threads, m \in Launch : Holds(u, m) => Holds(u, m)'
    BY <1>1 DEF Holds, After
  <2>2. \A u \in Threads, m \in pending : IntentHeld(u, m) => IntentHeld(u, m)'
    BY <1>1, <1>2, <1>3 DEF IntentHeld, After
  <2>3. IntentHeld(t, n)'
    BY <1>1, <1>2, <1>4 DEF IntentHeld
  <2>. QED BY <1>1, <1>2, <1>3, <2>1, <2>2, <2>3 DEF LaneInv, IntentsHeld, ClientsHeld
<1>8. NoTrace'
  BY <1>1, <1>2, <1>4 DEF LaneInv, NoTrace
<1>9. NobodyDeleted'
  BY <1>1, <1>2, <1>3 DEF LaneInv, NobodyDeleted
<1> QED
  BY <1>5, <1>6, <1>7, <1>8, <1>9 DEF LaneInv

LEMMA LaneHandOff ==
    ASSUME Alone, TypeInv, LaneInv, NEW t \in Threads, HandOff(t) PROVE LaneInv'
<1>. PICK n : n = call[t].launch
  OBVIOUS
<1>1. /\ \A u \in Threads : u # t => call'[u] = call[u]
      /\ call'[t].pc = "handed" /\ call'[t].launch = n /\ call'[t].account = call[t].account
      /\ call[t].pc = "registered" /\ n \in Launch /\ n <= calls
  BY DEF HandOff, TypeInv, CallsOK, CallType, CallFits, Launching, UnderLock
<1>2. UNCHANGED <<pending, tracked, ahead, file, left, owner, calls, look>>
  BY DEF HandOff, monitor, history
<1>3. client[n] = "none" /\ tracked[n] = Unseen
  BY <1>1 DEF LaneInv, NoTrace, Earlier
<1>4. \A m \in Launch : client'[m] = IF m = n THEN "starting" ELSE client[m]
  BY DEF HandOff, TypeInv, WindowsOK
<1>5. \A m \in Launch : Unobserved(m)' <=> m = n \/ Unobserved(m)
  BY <1>2, <1>4 DEF Unobserved
<1>6. \A u \in Threads : call[u].pc \in Launching /\ call[u].launch = n => u = t
  BY <1>1, OneCall DEF LaneInv, Launching, UnderLock
<1>7. OneLock' /\ Unrivalled'
  BY <1>1, <1>2 DEF LaneInv, OneLock, Unrivalled, UnderLock, Launching
<1>14. FileIsHis'
  <2>1. \A u \in Threads : call'[u].pc \in UnderLock =>
            /\ call[u].pc \in UnderLock /\ call'[u].launch = call[u].launch /\ call[u].launch \in Launch
    BY <1>1 DEF TypeInv, CallsOK, CallFits, Launching, UnderLock
  <2>. QED BY <1>2, <1>3, <1>4, <2>1 DEF LaneInv, FileIsHis
<1>8. OneScanner' /\ GoesNowhereElse'
  BY <1>2 DEF LaneInv, OneScanner, GoesNowhereElse
<1>9. ScansFit'
  <2>1. \A u \in Threads : look[u].seen \subseteq Launch
    BY DEF TypeInv, LooksOK, LookType
  <2>2. \A m \in Launch : client[m] \in {"running", "dead"} => client'[m] = client[m]
    BY <1>3, <1>4
  <2>. QED BY <1>2, <2>1, <2>2 DEF LaneInv, ScansFit
<1>10. ClientsHeld'
  <2>1. Holds(t, n)'
    BY <1>1 DEF Holds, After
  <2>2. \A u \in Threads, m \in Launch : Holds(u, m) => Holds(u, m)'
    BY <1>1 DEF Holds, After
  <2>. QED BY <1>5, <2>1, <2>2 DEF LaneInv, ClientsHeld
<1>11. IntentsHeld'
  <2>1. SUFFICES ASSUME NEW m \in pending PROVE \E u \in Threads : IntentHeld(u, m)'
    BY <1>2 DEF IntentsHeld
  <2>2. m \in Launch
    BY DEF TypeInv, IntentsOK
  <2>3. CASE m = n
    BY <1>1, <1>4, <1>5, <2>2, <2>3 DEF IntentHeld, After
  <2>4. CASE m # n
    <3>1. PICK u \in Threads : IntentHeld(u, m)
      BY DEF LaneInv, IntentsHeld
    <3>2. u # t /\ client'[m] = client[m]
      BY <1>1, <1>4, <2>2, <2>4, <3>1 DEF IntentHeld
    <3>3. IntentHeld(u, m)'
      BY <1>1, <1>2, <1>5, <2>2, <3>1, <3>2 DEF IntentHeld
    <3>. QED BY <3>3
  <2>. QED BY <2>3, <2>4
<1>12. NoTrace'
  <2>1. \A u \in Threads : call[u].pc \in Earlier /\ u # t => call[u].launch # n /\ call[u].launch \in Launch
    BY <1>6 DEF TypeInv, CallsOK, CallFits, Earlier, Launching, UnderLock
  <2>2. ~ n > calls
    BY <1>1 DEF TypeInv, HistoryOK, Launch
  <2>3. \A u \in Threads : call'[u].pc \in Earlier => client'[call'[u].launch] = "none"
    BY <1>1, <1>4, <2>1 DEF LaneInv, NoTrace, Earlier
  <2>. QED BY <1>2, <1>3, <1>4, <2>2, <2>3 DEF LaneInv, NoTrace
<1>13. NobodyDeleted'
  BY <1>1, <1>2, <1>5 DEF LaneInv, NobodyDeleted
<1> QED
  BY <1>7, <1>8, <1>9, <1>10, <1>11, <1>12, <1>13, <1>14 DEF LaneInv

LEMMA LaneHandOffFails ==
    ASSUME Alone, TypeInv, LaneInv, NEW t \in Threads, HandOffFails(t) PROVE LaneInv'
<1>. PICK n : n = call[t].launch
  OBVIOUS
<1>1. /\ \A u \in Threads : u # t => call'[u] = call[u]
      /\ call'[t] = IdleCall
      /\ call[t].pc = "registered" /\ pending' = pending \ {n}
  BY DEF HandOffFails, Cancelled, TypeInv, CallsOK
<1>2. UNCHANGED <<tracked, client, ahead, file, owner, calls, look>>
  BY DEF HandOffFails, history
<1>3. \A m : Unobserved(m)' <=> Unobserved(m)
  BY <1>2, SameClients
<1>4. client[n] = "none" /\ ~ Unobserved(n)
  BY <1>1 DEF LaneInv, NoTrace, Earlier, Unobserved
<1>5. OneLock' /\ FileIsHis' /\ Unrivalled' /\ NoTrace'
  BY <1>1, <1>2, IdleCallType DEF LaneInv, OneLock, FileIsHis, Unrivalled, NoTrace,
                                  UnderLock, Launching, Earlier
<1>6. OneScanner' /\ ScansFit' /\ GoesNowhereElse'
  BY <1>2 DEF LaneInv, OneScanner, ScansFit, GoesNowhereElse
<1>7. ClientsHeld'
  <2>1. \A u \in Threads, m \in Launch : Holds(u, m) => Holds(u, m)'
    BY <1>1 DEF Holds, After
  <2>. QED BY <1>3, <2>1 DEF LaneInv, ClientsHeld
<1>8. IntentsHeld'
  <2>1. \A u \in Threads, m \in pending \ {n} : IntentHeld(u, m) => IntentHeld(u, m)'
    BY <1>1, <1>2, <1>3 DEF IntentHeld
  <2>. QED BY <1>1, <2>1 DEF LaneInv, IntentsHeld
<1>9. NobodyDeleted'
  <2>1. \A u \in Threads : call'[u].pc = "registered" /\ MaxEdits = 0 => call'[u].launch # n
    <3>1. \A u \in Threads : call[u].pc = "registered" => u = t
      BY <1>1 DEF LaneInv, OneLock, UnderLock
    <3>. QED BY <1>1, <3>1, IdleCallType
  <2>. QED BY <1>1, <1>2, <1>3, <1>4, <2>1, IdleCallType DEF LaneInv, NobodyDeleted
<1> QED
  BY <1>5, <1>6, <1>7, <1>8, <1>9 DEF LaneInv

LEMMA LaneLaunchStep ==
    ASSUME Alone, TypeInv, LaneInv, NEW t \in Threads, LaunchStep(t) PROVE LaneInv'
<1>1. CASE CheckDuplicate(t)
  <2>1. CASE HasActiveOrPending(call[t].account)
    BY <1>1, <2>1, IdleCallType, CallFrame DEF CheckDuplicate, monitor, windows, Launching, UnderLock
  <2>2. CASE ~ HasActiveOrPending(call[t].account)
    <3>1. call' = [call EXCEPT ![t].pc = "checked"] /\ ~ Tracks(call[t].account)
      BY <1>1, <2>2 DEF CheckDuplicate, HasActiveOrPending
    <3>2. UNCHANGED <<pending, tracked, due, client, ahead, file, left, history, claimed, look>>
      BY <1>1 DEF CheckDuplicate, monitor, windows
    <3>3. call[t].pc = "loaded"
      BY <1>1 DEF CheckDuplicate
    <3>. QED BY <3>1, <3>2, <3>3, LaneCallMoves DEF Launching, UnderLock, Earlier, After
  <2>. QED BY <2>1, <2>2
<1>2. CASE EnterLaunch(t)
  <2>1. /\ call[t].pc = "checked" /\ LaunchLockFree /\ call' = [call EXCEPT ![t].pc = "locked"]
        /\ file' = left'[call[t].launch]
    BY <1>2 DEF EnterLaunch, TypeInv, WindowsOK, CallsOK, CallFits, Launching
  <2>2. UNCHANGED <<pending, tracked, due, client, ahead, history, claimed, look>>
    BY <1>2 DEF EnterLaunch, monitor
  <2>. QED BY <2>1, <2>2, LaneCallMoves DEF Launching, UnderLock, Earlier, After
<1>3. CASE PreparationFails(t)
  BY <1>3, IdleCallType, CallFrame DEF PreparationFails, monitor, Launching, UnderLock
<1>4. CASE SaveLaunched(t)
  <2>1. call[t].pc = "handed" /\ call' = [call EXCEPT ![t].pc = "awaiting"]
    BY <1>4 DEF SaveLaunched
  <2>2. UNCHANGED <<pending, tracked, due, client, ahead, file, left, history, claimed, look>>
    BY <1>4 DEF SaveLaunched, monitor, windows
  <2>. QED BY <2>1, <2>2, LaneCallMoves DEF Launching, UnderLock, Earlier, After
<1> QED
  BY <1>1, <1>2, <1>3, <1>4, LaneRegisterIntent, LaneHandOff, LaneHandOffFails DEF LaunchStep

\* The wait ends when the client of the launch has been seen: no other client of the account has.
LEMMA LaneAwaitReturns ==
    ASSUME Alone, TypeInv, LaneInv, NEW t \in Threads, AwaitReturns(t) PROVE LaneInv'
<1>. PICK n : n = call[t].launch
  OBVIOUS
<1>1. /\ \A u \in Threads : u # t => call'[u] = call[u]
      /\ call'[t] = IdleCall /\ call[t].pc = "awaiting"
      /\ n \in Launch /\ call[t].account \in Accounts
  BY DEF AwaitReturns, TypeInv, CallsOK, CallFits, Launching, UnderLock
<1>2. UNCHANGED <<pending, tracked, due, claimed, client, ahead, file, left, owner, calls, look>>
  BY DEF AwaitReturns, monitor, windows, history
<1>3. \A m : Unobserved(m)' <=> Unobserved(m)
  BY <1>2, SameClients
<1>4. ~ Unobserved(n)
  <2>1. CASE Tracks(call[t].account)
    <3>1. tracked[n] = call[t].account
      BY <1>1, <2>1 DEF Tracks, LaneInv, Unrivalled, UnderLock
    <3>2. tracked[n] # Unseen
      BY <1>1, <3>1
    <3>. QED BY <1>1, <3>2 DEF Unobserved, LaneInv, NoTrace
  <2>2. CASE ~ Tracks(call[t].account)
    BY <2>2 DEF AwaitReturns, MayReturn, Alone
  <2>. QED BY <2>1, <2>2
<1>5. OneLock' /\ FileIsHis' /\ Unrivalled' /\ NoTrace'
  BY <1>1, <1>2, IdleCallType DEF LaneInv, OneLock, FileIsHis, Unrivalled, NoTrace,
                                  UnderLock, Launching, Earlier
<1>6. OneScanner' /\ ScansFit' /\ GoesNowhereElse'
  BY <1>2 DEF LaneInv, OneScanner, ScansFit, GoesNowhereElse
<1>7. ClientsHeld'
  <2>1. \A u \in Threads, m \in Launch \ {n} : Holds(u, m) => Holds(u, m)'
    BY <1>1 DEF Holds
  <2>. QED BY <1>3, <1>4, <2>1 DEF LaneInv, ClientsHeld
<1>8. IntentsHeld'
  <2>1. SUFFICES ASSUME NEW m \in pending PROVE \E u \in Threads : IntentHeld(u, m)'
    BY <1>2 DEF IntentsHeld
  <2>2. PICK u \in Threads : IntentHeld(u, m)
    BY DEF LaneInv, IntentsHeld
  <2>3. u # t
    BY <1>1, <1>4, <2>2 DEF IntentHeld
  <2>4. IntentHeld(u, m)'
    BY <1>1, <1>2, <1>3, <2>2, <2>3 DEF IntentHeld
  <2>. QED BY <2>4
<1>9. NobodyDeleted'
  BY <1>1, <1>2, <1>3, IdleCallType DEF LaneInv, NobodyDeleted
<1> QED
  BY <1>5, <1>6, <1>7, <1>8, <1>9 DEF LaneInv

LEMMA LaneUserStep ==
    ASSUME Alone, TypeInv, LaneInv, NEW t \in Threads, UserStep(t) PROVE LaneInv'
<1>1. ASSUME NEW a \in Accounts, StartLaunch(t, a) PROVE LaneInv'
  BY <1>1, LaneLoad DEF StartLaunch
<1>2. ASSUME NEW a \in Accounts, BeginEdit(t, a) \/ DeleteRow(t, a) PROVE LaneInv'
  <2>1. MaxEdits # 0
    BY <1>2 DEF BeginEdit, DeleteRow, Edits, TypeInv, TableOK
  <2>2. UNCHANGED <<pending, tracked, client, ahead, file, left, history, look>> /\ call[t].pc = "idle"
    BY <1>2 DEF BeginEdit, DeleteRow, monitor, windows
  <2>3. CASE BeginEdit(t, a)
    <3>. DEFINE c == [pc |-> "editing", row |-> row[a], account |-> a, launch |-> 0]
    <3>1. call' = [call EXCEPT ![t] = c] /\ c.pc = "editing"
      BY <2>3 DEF BeginEdit
    <3>. QED BY <2>2, <3>1, CallFrame DEF Launching, UnderLock
  <2>4. CASE DeleteRow(t, a)
    <3>. DEFINE c == [pc |-> "deleting", row |-> NoRow, account |-> a, launch |-> 0]
    <3>1. call' = [call EXCEPT ![t] = c] /\ c.pc = "deleting"
      BY <2>4 DEF DeleteRow
    <3>. QED BY <2>1, <2>2, <3>1, CallFrame DEF Launching, UnderLock
  <2>. QED BY <1>2, <2>3, <2>4
<1>3. CASE SaveEdit(t)
  BY <1>3, IdleCallType, CallFrame DEF SaveEdit, monitor, windows, Launching, UnderLock
<1>4. CASE ForgetInMonitor(t)
  <2>. PICK a : a = call[t].account
    OBVIOUS
  <2>1. /\ \A u \in Threads : u # t => call'[u] = call[u]
        /\ call'[t] = IdleCall /\ call[t].pc = "deleting" /\ a \in Accounts
    BY <1>4 DEF ForgetInMonitor, TypeInv, CallsOK, CallFits
  <2>2. /\ pending' \subseteq pending
        /\ \A n \in Launch : tracked'[n] = IF tracked[n] = a THEN Orphan ELSE tracked[n]
        /\ due' = {q \in due : q.account # a}
    BY <1>4 DEF ForgetInMonitor
  <2>3. UNCHANGED <<claimed, client, ahead, file, left, owner, calls, look>>
    BY <1>4 DEF ForgetInMonitor, windows, history
  <2>4. /\ Unseen # Orphan
        /\ \A n \in Launch : tracked'[n] = Unseen <=> tracked[n] = Unseen
        /\ \A n \in Launch : tracked'[n] = tracked[n] \/ tracked'[n] = Orphan
    BY <2>1, <2>2 DEF Unseen, Orphan
  <2>5. \A n \in Launch : Unobserved(n)' <=> Unobserved(n)
    BY <2>3, <2>4 DEF Unobserved
  <2>6. OneLock' /\ FileIsHis' /\ OneScanner'
    BY <2>1, <2>2, <2>3, IdleCallType DEF LaneInv, OneLock, FileIsHis, OneScanner,
                                          UnderLock, Launching
  <2>7. Unrivalled'
    <3>1. \A u \in Threads : call[u].pc \in {"checked"} \cup UnderLock => call[u].account # Orphan
      BY DEF TypeInv, CallsOK, CallFits, Launching
    <3>. QED BY <2>1, <2>4, <3>1, IdleCallType DEF LaneInv, Unrivalled, UnderLock
  <2>8. NoTrace'
    BY <2>1, <2>3, <2>4, IdleCallType DEF LaneInv, NoTrace, Earlier
  <2>9. ScansFit'
    <3>1. \A u \in Threads : look[u].seen \subseteq Launch
      BY DEF TypeInv, LooksOK, LookType
    <3>. QED BY <2>3, <2>4, <3>1 DEF LaneInv, ScansFit
  <2>10. ClientsHeld'
    <3>1. \A u \in Threads, m \in Launch : Holds(u, m) => Holds(u, m)'
      BY <2>1 DEF Holds, After
    <3>. QED BY <2>5, <3>1 DEF LaneInv, ClientsHeld
  <2>11. IntentsHeld'
    <3>1. \A u \in Threads, m \in Launch : IntentHeld(u, m) => IntentHeld(u, m)'
      BY <2>1, <2>3, <2>5 DEF IntentHeld, After
    <3>2. pending \subseteq Launch
      BY DEF TypeInv, IntentsOK
    <3>. QED BY <2>2, <3>1, <3>2 DEF LaneInv, IntentsHeld
  <2>12. GoesNowhereElse'
    BY <2>3, <2>4 DEF LaneInv, GoesNowhereElse
  <2>13. NobodyDeleted'
    BY <2>1 DEF LaneInv, NobodyDeleted
  <2>. QED BY <2>6, <2>7, <2>8, <2>9, <2>10, <2>11, <2>12, <2>13 DEF LaneInv
<1> QED
  BY <1>1, <1>2, <1>3, <1>4 DEF UserStep

\* What a step that adds an event to a scan leaves alone.
LEMMA EventAdded ==
    ASSUME LooksOK, NEW t \in Threads,
           look' = look \/ \E e : look' = [look EXCEPT ![t].events = Append(@, e)]
    PROVE  \A u \in Threads : /\ look'[u].pc = look[u].pc /\ look'[u].seen = look[u].seen
                              /\ look'[u].complete = look[u].complete
<1>1. CASE look' = look
  BY <1>1
<1>2. ASSUME NEW e, look' = [look EXCEPT ![t].events = Append(@, e)] PROVE
        \A u \in Threads : /\ look'[u].pc = look[u].pc /\ look'[u].seen = look[u].seen
                           /\ look'[u].complete = look[u].complete
  <2>1. look[t] \in LookType
    BY DEF LooksOK
  <2>2. \A u \in Threads : look'[u] = IF u = t THEN [look[t] EXCEPT !.events = Append(@, e)] ELSE look[u]
    BY <1>2 DEF LooksOK
  <2>. QED BY <2>1, <2>2 DEF LookType
<1> QED
  BY <1>1, <1>2

\* While one thread scans, no other does; what has left no trace fits the new scan.
LEMMA LaneBeginScan ==
    ASSUME Alone, TypeInv, LaneInv, NEW t \in Threads, NEW complete \in BOOLEAN, BeginScan(t, complete)
    PROVE  LaneInv'
<1>1. PICK seen, events :
        /\ look' = [look EXCEPT ![t] = [IdleLook EXCEPT !.pc = "scanning", !.seen = seen,
                                           !.complete = complete, !.events = events]]
        /\ seen \subseteq {n \in Launch : client[n] = "running"}
        /\ complete => seen = {n \in Launch : client[n] = "running"}
  BY DEF BeginScan
<1>2. /\ \A u \in Threads : u # t => look'[u] = look[u]
      /\ look'[t].pc = "scanning" /\ look'[t].seen = seen /\ look'[t].complete = complete
  BY <1>1 DEF TypeInv, LooksOK, IdleLook
<1>3. UNCHANGED <<pending, tracked, due, claimed, client, ahead, file, left, owner, calls, call>>
  BY DEF BeginScan, windows, history
<1>4. \A m : Unobserved(m)' <=> Unobserved(m)
  BY <1>3, SameClients
<1>5. OneLock' /\ FileIsHis' /\ Unrivalled' /\ NoTrace' /\ GoesNowhereElse'
  BY <1>3 DEF LaneInv, OneLock, FileIsHis, Unrivalled, NoTrace, GoesNowhereElse
<1>6. ClientsHeld' /\ IntentsHeld' /\ NobodyDeleted'
  BY <1>3, <1>4 DEF LaneInv, ClientsHeld, Holds, IntentsHeld, IntentHeld, NobodyDeleted
<1>7. OneScanner'
  <2>1. \A u \in Threads : look[u].pc # "scanning"
    BY DEF BeginScan, MonitorFree
  <2>. QED BY <1>2, <2>1 DEF OneScanner
<1>8. ScansFit'
  <2>1. \A n \in Launch : client[n] # "running" /\ tracked[n] # Unseen => client[n] = "dead"
    BY DEF LaneInv, NoTrace, TypeInv, WindowsOK
  <2>2. \A u \in Threads : look'[u].pc = "scanning" => u = t
    BY <1>2 DEF BeginScan, MonitorFree
  <2>. QED BY <1>1, <1>2, <1>3, <2>1, <2>2 DEF ScansFit
<1> QED
  BY <1>5, <1>6, <1>7, <1>8 DEF LaneInv

\* A client that is gone.
LEMMA LaneRetire ==
    ASSUME Alone, TypeInv, LaneInv, NEW t \in Threads, NEW n \in Launch, Retire(t, n) PROVE LaneInv'
<1>1. /\ look[t].pc = "scanning" /\ look[t].complete /\ n \notin look[t].seen /\ tracked[n] # Unseen
      /\ \A m \in Launch : tracked'[m] = IF m = n THEN Unseen ELSE tracked[m]
  BY DEF Retire, Missing, TypeInv, TracksOK
<1>2. client[n] = "dead"
  BY <1>1 DEF LaneInv, ScansFit
<1>3. UNCHANGED <<pending, claimed, client, ahead, file, left, owner, calls, call>>
  BY DEF Retire, windows, history
<1>4. \A u \in Threads : /\ look'[u].pc = look[u].pc /\ look'[u].seen = look[u].seen
                         /\ look'[u].complete = look[u].complete
  <2>1. \/ look' = look
        \/ look' = [look EXCEPT ![t].events = Append(@, Event(tracked[n], "ready"))]
    BY DEF Retire
  <2>. QED BY <2>1, EventAdded DEF TypeInv
<1>5. \A m \in Launch : Unobserved(m)' <=> Unobserved(m)
  BY <1>1, <1>2, <1>3 DEF Unobserved
<1>6. OneLock' /\ FileIsHis' /\ OneScanner'
  BY <1>1, <1>3, <1>4 DEF LaneInv, OneLock, FileIsHis, OneScanner
<1>7. Unrivalled'
  <2>1. \A u \in Threads : call[u].pc \in {"checked"} \cup UnderLock => call[u].account # Unseen
    BY DEF TypeInv, CallsOK, CallFits, Launching
  <2>. QED BY <1>1, <1>3, <2>1 DEF LaneInv, Unrivalled
<1>8. NoTrace' /\ GoesNowhereElse'
  BY <1>1, <1>3 DEF LaneInv, NoTrace, GoesNowhereElse
<1>9. ScansFit'
  <2>1. \A u \in Threads : look[u].pc = "scanning" => u = t
    BY <1>1 DEF LaneInv, OneScanner
  <2>2. look[t].seen \subseteq Launch
    BY DEF TypeInv, LooksOK, LookType
  <2>. QED BY <1>1, <1>3, <1>4, <2>1, <2>2 DEF LaneInv, ScansFit
<1>10. ClientsHeld'
  BY <1>3, <1>5 DEF LaneInv, ClientsHeld, Holds
<1>11. IntentsHeld'
  <2>1. pending \subseteq Launch
    BY DEF TypeInv, IntentsOK
  <2>. QED BY <1>3, <1>5, <2>1 DEF LaneInv, IntentsHeld, IntentHeld
<1>12. NobodyDeleted'
  BY <1>1, <1>3, <1>5 DEF LaneInv, NobodyDeleted, Unseen, Orphan
<1> QED
  BY <1>6, <1>7, <1>8, <1>9, <1>10, <1>11, <1>12 DEF LaneInv

\* A client that is seen for the first time is that of the launch under way, and the only intent
\* there can be is its own.
LEMMA LaneTrack ==
    ASSUME Alone, TypeInv, LaneInv, NEW t \in Threads, NEW n \in Launch, Track(t, n) PROVE LaneInv'
<1>1. look[t].pc = "scanning" /\ n \in look[t].seen /\ tracked[n] = Unseen
  BY DEF Track
<1>2. client[n] = "running" /\ Unobserved(n)
  BY <1>1 DEF LaneInv, ScansFit, Unobserved
<1>3. PICK h \in Threads : Holds(h, n)
  BY <1>2 DEF LaneInv, ClientsHeld
<1>4. \A m \in pending : m = n /\ n \in ahead[n]
  <2>1. SUFFICES ASSUME NEW m \in pending PROVE m = n /\ n \in ahead[n]
    OBVIOUS
  <2>2. PICK u \in Threads : IntentHeld(u, m)
    BY DEF LaneInv, IntentsHeld
  <2>3. u = h
    BY <1>3, <2>2 DEF LaneInv, OneLock, IntentHeld, Holds, After, UnderLock
  <2>. QED BY <1>2, <1>3, <2>2, <2>3 DEF IntentHeld, Holds, After
<1>5. PICK eligible, x :
        /\ eligible \subseteq pending /\ pending \cap ahead[n] \subseteq eligible
        /\ tracked' = [tracked EXCEPT ![n] = x] /\ pending' \subseteq pending
        /\ Cardinality(eligible) = 1 => x \in {owner[m] : m \in eligible} /\ pending' = pending \ eligible
        /\ Cardinality(eligible) # 1 => x = Orphan /\ pending' = pending
  <2>1. PICK late \in SUBSET (pending \ ahead[n]) :
         LET eligible == (pending \cap ahead[n]) \cup late
         IN  IF Cardinality(eligible) = 1
             THEN /\ pending' = pending \ eligible
                  /\ \E m \in eligible : tracked' = [tracked EXCEPT ![n] = owner[m]]
             ELSE tracked' = [tracked EXCEPT ![n] = Orphan] /\ pending' = pending
    BY DEF Track
  <2>. DEFINE e == (pending \cap ahead[n]) \cup late
  <2>2. e \subseteq pending /\ pending \cap ahead[n] \subseteq e
    OBVIOUS
  <2>3. CASE Cardinality(e) = 1
    <3>1. PICK m \in e : tracked' = [tracked EXCEPT ![n] = owner[m]]
      BY <2>1, <2>3
    <3>2. pending' = pending \ e
      BY <2>1, <2>3
    <3> HIDE DEF e
    <3>. QED BY <2>2, <2>3, <3>1, <3>2
  <2>4. CASE Cardinality(e) # 1
    <3>1. tracked' = [tracked EXCEPT ![n] = Orphan] /\ pending' = pending
      BY <2>1, <2>4
    <3> HIDE DEF e
    <3>. QED BY <2>2, <2>4, <3>1
  <2>. QED BY <2>3, <2>4
<1>6. /\ x \in {owner[n], Orphan} /\ x # Unseen
      /\ n \in pending => x = owner[n] /\ pending' = {}
      /\ n \notin pending => pending' = pending
  <2>1. n \in pending => eligible = {n} /\ Cardinality(eligible) = 1
    <3>1. n \in pending => eligible = {n}
      BY <1>4, <1>5
    <3>2. Cardinality({n}) = 1
      BY FS_Singleton
    <3>. QED BY <3>1, <3>2
  <2>2. n \notin pending => eligible = {} /\ Cardinality(eligible) # 1
    BY <1>4, <1>5, FS_EmptySet
  <2>3. owner[n] \in Accounts
    BY <1>3 DEF Holds, After, TypeInv, CallsOK, CallFits, Launching, UnderLock
  <2>. QED BY <1>4, <1>5, <2>1, <2>2, <2>3 DEF Unseen, Orphan
<1>7. /\ \A m \in Launch : tracked'[m] = IF m = n THEN x ELSE tracked[m]
      /\ UNCHANGED <<client, ahead, file, left, owner, calls, call>>
  BY <1>5 DEF Track, windows, history, TypeInv, TracksOK
<1>8. \A u \in Threads : /\ look'[u].pc = look[u].pc /\ look'[u].seen = look[u].seen
                         /\ look'[u].complete = look[u].complete
  <2>1. \/ look' = look
        \/ \E m : look' = [look EXCEPT ![t].events = Append(@, Event(owner[m], "in_game"))]
    BY DEF Track
  <2>. QED BY <2>1, EventAdded DEF TypeInv
<1>9. \A m \in Launch : Unobserved(m)' <=> Unobserved(m) /\ m # n
  BY <1>2, <1>6, <1>7 DEF Unobserved
<1>10. OneLock' /\ FileIsHis' /\ OneScanner'
  BY <1>7, <1>8 DEF LaneInv, OneLock, FileIsHis, OneScanner
<1>11. Unrivalled'
  <2>1. SUFFICES ASSUME NEW u \in Threads, call[u].pc \in {"checked"} \cup UnderLock, x = call[u].account
                 PROVE  n = call[u].launch
    BY <1>7 DEF LaneInv, Unrivalled
  <2>2. call[u].account \in Accounts /\ call[u].pc \in Launching
    BY <2>1 DEF TypeInv, CallsOK, CallFits, Launching
  <2>3. x = owner[n]
    BY <1>6, <2>1, <2>2 DEF Orphan
  <2>4. call[h].pc \in Launching /\ call[h].launch = n /\ owner[n] = call[h].account
    BY <1>3 DEF Holds, After, Launching, UnderLock, TypeInv, CallsOK, CallFits
  <2>5. u = h
    BY <2>1, <2>2, <2>3, <2>4, OneLauncher DEF LaneInv
  <2>. QED BY <2>4, <2>5
<1>12. NoTrace' /\ GoesNowhereElse'
  BY <1>2, <1>6, <1>7 DEF LaneInv, NoTrace, GoesNowhereElse
<1>13. ScansFit'
  <2>1. \A u \in Threads : look[u].pc = "scanning" => u = t
    BY <1>1 DEF LaneInv, OneScanner
  <2>2. look[t].seen \subseteq Launch
    BY DEF TypeInv, LooksOK, LookType
  <2>. QED BY <1>1, <1>7, <1>8, <2>1, <2>2 DEF LaneInv, ScansFit
<1>14. ClientsHeld'
  BY <1>7, <1>9 DEF LaneInv, ClientsHeld, Holds
<1>15. IntentsHeld'
  <2>1. n \notin pending'
    BY <1>6
  <2>2. \A m \in pending' : m \in pending /\ m # n
    BY <1>4, <1>5, <2>1
  <2>. QED BY <1>4, <2>2 DEF IntentsHeld
<1>16. NobodyDeleted'
  <2>1. SUFFICES ASSUME MaxEdits = 0 PROVE NobodyDeleted'
    BY DEF NobodyDeleted
  <2>2. n \in pending
    BY <1>2, <2>1 DEF LaneInv, NobodyDeleted
  <2>3. \A u \in Threads : call[u].pc # "registered"
    BY <1>3 DEF Holds, After, LaneInv, OneLock, UnderLock
  <2>4. \A m \in Launch : Unobserved(m) => m = n
    BY <1>4, <2>1 DEF LaneInv, NobodyDeleted
  <2>5. owner[n] # Orphan
    BY <1>3 DEF Holds, After, TypeInv, CallsOK, CallFits, Launching, UnderLock
  <2>. QED BY <1>6, <1>7, <1>9, <2>1, <2>2, <2>3, <2>4, <2>5 DEF LaneInv, NobodyDeleted
<1> QED
  BY <1>10, <1>11, <1>12, <1>13, <1>14, <1>15, <1>16 DEF LaneInv

LEMMA LaneScanStep ==
    ASSUME Alone, TypeInv, LaneInv, NEW t \in Threads, ScanStep(t) PROVE LaneInv'
<1>1. CASE \E n \in Launch : Track(t, n) \/ Retire(t, n)
  BY <1>1, LaneTrack, LaneRetire
<1>2. ASSUME NEW cur, look' = [look EXCEPT ![t] = cur], cur.pc # "scanning",
             UNCHANGED <<pending, tracked, windows, history, call>>
      PROVE  LaneInv'
  <2>1. \A u \in Threads : look'[u].pc = "scanning" => look'[u] = look[u]
    BY <1>2 DEF TypeInv, LooksOK
  <2>. QED BY <1>2, <2>1, LaneFrame
<1>3. look[t] \in LookType
  BY DEF TypeInv, LooksOK
<1>4. \A a, label, cur : ReadRow(a, label, cur).pc = cur.pc \/ cur \notin LookType
  BY DEF ReadRow, LookType
<1>5. CASE EndScan(t)
  <2>1. [look[t] EXCEPT !.pc = "recording", !.live = {a \in Accounts : Tracks(a)}].pc = "recording"
    BY <1>3 DEF LookType
  <2>2. look' = [look EXCEPT ![t] = [look[t] EXCEPT !.pc = "recording", !.live = {a \in Accounts : Tracks(a)}]]
    BY <1>5 DEF EndScan, TypeInv, LooksOK
  <2>. QED BY <1>2, <1>5, <2>1, <2>2 DEF EndScan, monitor
<1>6. CASE RecordEvent(t)
  <2>. DEFINE rest == [look[t] EXCEPT !.events = Tail(@)]
              event == Head(look[t].events)
              cur == ReadRow(event.account, event.label, rest)
  <2>1. rest \in LookType /\ rest.pc = "recording"
    <3>1. look[t].events # <<>> /\ look[t].pc = "recording"
      BY <1>6 DEF RecordEvent
    <3>2. rest \in LookType
      BY <1>3, <3>1, EventsMove
    <3>. QED BY <1>3, <3>1, <3>2 DEF LookType
  <2>2. look' = [look EXCEPT ![t] = cur]
    BY <1>6 DEF RecordEvent
  <2> HIDE DEF rest, event
  <2>3. cur.pc = "recording"
    BY <1>4, <2>1
  <2> HIDE DEF cur
  <2>. QED BY <1>2, <1>6, <2>2, <2>3 DEF RecordEvent, monitor
<1>7. CASE BeginReconcile(t)
  <2>. DEFINE cur == IF look[t].complete THEN [look[t] EXCEPT !.pc = "reconciling", !.todo = Labelled]
                     ELSE IdleLook
  <2>1. cur.pc # "scanning"
    BY <1>3 DEF LookType, IdleLook
  <2>2. look' = [look EXCEPT ![t] = cur]
    BY <1>7 DEF BeginReconcile
  <2> HIDE DEF cur
  <2>. QED BY <1>2, <1>7, <2>1, <2>2 DEF BeginReconcile, monitor
<1>8. ASSUME NEW a \in Accounts, NEW enlisted \in Statuses, Reconcile(t, a, enlisted) PROVE LaneInv'
  <2>. DEFINE rest == [look[t] EXCEPT !.todo = @ \ {<<a, enlisted>>}]
              label == Label(a, look[t].live)
              cur == IF label = enlisted THEN rest ELSE ReadRow(a, label, rest)
  <2>1. rest \in LookType /\ rest.pc = "reconciling"
    BY <1>3, <1>8 DEF Reconcile, LookType
  <2>2. look' = [look EXCEPT ![t] = cur]
    BY <1>8 DEF Reconcile
  <2> HIDE DEF rest, label
  <2>3. cur.pc = "reconciling"
    BY <1>4, <2>1
  <2> HIDE DEF cur
  <2>. QED BY <1>2, <1>8, <2>2, <2>3 DEF Reconcile, monitor
<1>9. CASE WriteLabel(t)
  <2>. DEFINE cur == [look[t] EXCEPT !.account = "none", !.label = "ready", !.row = NoRow]
  <2>1. look' = [look EXCEPT ![t] = cur] /\ cur.pc = look[t].pc
    BY <1>3, <1>9 DEF WriteLabel, LookType, TypeInv, LooksOK
  <2>2. \A u \in Threads : look'[u].pc = "scanning" =>
               /\ look[u].pc = "scanning" /\ look'[u].seen = look[u].seen
               /\ look'[u].complete = look[u].complete
    BY <1>3, <1>9 DEF WriteLabel, LookType, TypeInv, LooksOK
  <2>. QED BY <1>9, <2>2, LaneFrame DEF WriteLabel, monitor
<1>10. CASE EndReconcile(t)
  <2>1. IdleLook.pc = "idle"
    BY DEF IdleLook
  <2>. QED BY <1>2, <1>10, <2>1 DEF EndReconcile, monitor
<1> QED
  BY <1>1, <1>5, <1>6, <1>7, <1>8, <1>9, <1>10 DEF ScanStep

LEMMA LaneDispatch ==
    ASSUME Alone, TypeInv, LaneInv, Dispatch PROVE LaneInv'
<1>1. ASSUME NEW q \in claimed, StartRelaunch(q) PROVE LaneInv'
  <2>1. q.account \in Accounts /\ Watcher \in Threads
    BY DEF TypeInv, TracksOK, Threads
  <2>. QED BY <1>1, <2>1, LaneLoad DEF StartRelaunch
<1>2. CASE ClaimDue \/ \E q \in claimed : DropRelaunch(q)
  BY <1>2, LaneFrame DEF ClaimDue, DropRelaunch, monitor
<1> QED
  BY <1>1, <1>2 DEF Dispatch

\* A screen writes the file: what is there is then the user's.
LEMMA LaneSetCap ==
    ASSUME LaneInv, SetCap PROVE LaneInv'
<1>1. UNCHANGED <<pending, tracked, client, ahead, left, history, call, look>> /\ file' = "user"
  BY DEF SetCap, monitor
<1>2. \A n : Unobserved(n)' <=> Unobserved(n)
  BY <1>1, SameClients
<1>3. OneLock' /\ OneScanner' /\ FileIsHis' /\ ScansFit' /\ Unrivalled'
  BY <1>1 DEF LaneInv, OneLock, OneScanner, FileIsHis, ScansFit, Unrivalled
<1>4. IntentsHeld' /\ ClientsHeld' /\ NoTrace' /\ GoesNowhereElse' /\ NobodyDeleted'
  BY <1>1, <1>2 DEF LaneInv, IntentsHeld, IntentHeld, ClientsHeld, Holds, NoTrace, GoesNowhereElse,
                    NobodyDeleted, history
<1> QED
  BY <1>3, <1>4 DEF LaneInv

LEMMA LaneStep == Alone /\ TypeInv /\ LaneInv /\ [Next]_vars => LaneInv'
<1> SUFFICES ASSUME Alone, TypeInv, LaneInv, [Next]_vars PROVE LaneInv'
  OBVIOUS
<1>1. CASE Reorder \/ UNCHANGED vars
  BY <1>1, LaneFrame DEF Reorder, vars, monitor
<1> QED
  BY <1>1, LaneRoblox, LaneLaunchStep, LaneAwaitReturns, LaneScanStep, LaneUserStep, LaneBeginScan,
     LaneDispatch, LaneSetCap DEF Next

\* A client that is still to start has its launch under the lock.
LEMMA ReadsItsSettings == ASSUME TypeInv, LaneInv PROVE ClientReadsItsSettings
<1>. SUFFICES ASSUME NEW n \in Launch, client[n] = "starting" PROVE file \in {left[n], "user"}
  BY DEF ClientReadsItsSettings
<1>1. PICK t \in Threads : Holds(t, n)
  BY DEF LaneInv, ClientsHeld, Unobserved
<1>. QED BY <1>1 DEF LaneInv, FileIsHis, Holds, After, UnderLock

LEMMA LaneSpec == ASSUME Prompt = TRUE PROVE Spec /\ []NoOverlap => [](TypeInv /\ LaneInv)
<1>1. NoOverlap /\ TypeInv /\ LaneInv /\ [Next]_vars => (TypeInv /\ LaneInv)'
  BY TypeStep, LaneStep DEF Alone
<1> QED
  BY <1>1, InitType, InitLane, PTL DEF Spec

\* Deletions aside, the monitor gives each client to the account it was launched for, and the client
\* reads the settings that its own launch has left, for any number of threads, launches and relaunches,
\* whatever the file refuses and whoever else writes it: as long as clients come up within the wait and
\* no two calls for one account overlap (application_service.py, launch_account under _launch_lock;
\* process_monitor.py, _match_pending_intent).
THEOREM ClientsGetTheirOwn ==
    ASSUME Prompt = TRUE, MaxEdits = 0
    PROVE  Spec /\ []NoOverlap => []ClientGetsItsOwn
<1>1. TypeInv /\ LaneInv => ClientGetsItsOwn
  <2>. SUFFICES ASSUME TypeInv, LaneInv PROVE ClientGetsItsOwn
    OBVIOUS
  <2>1. ClientGoesToItsAccount
    BY DEF LaneInv, GoesNowhereElse, NobodyDeleted, ClientGoesToItsAccount
  <2>. QED BY <2>1, ReadsItsSettings DEF ClientGetsItsOwn
<1> QED
  BY <1>1, LaneSpec, PTL

\* Whatever the user deletes meanwhile, the worst that happens to a client is to belong to nobody:
\* it never goes to another account, nor does it read what another's launch wrote after its own.
THEOREM ClientsGoNowhereElse ==
    ASSUME Prompt = TRUE
    PROVE  Spec /\ []NoOverlap => [](GoesNowhereElse /\ ClientReadsItsSettings)
<1>1. TypeInv /\ LaneInv => GoesNowhereElse /\ ClientReadsItsSettings
  BY ReadsItsSettings DEF LaneInv
<1> QED
  BY <1>1, LaneSpec, PTL

LEMMA OneEachStep == Alone /\ TypeInv /\ LaneInv /\ OneEach /\ [Next]_vars => OneEach'
<1> SUFFICES ASSUME Alone, TypeInv, LaneInv, OneEach, [Next]_vars PROVE OneEach'
  OBVIOUS
<1>1. CASE \A n \in Launch : tracked'[n] \in Accounts => tracked'[n] = tracked[n]
  BY <1>1 DEF OneEach
<1>2. ASSUME NEW t \in Threads, NEW n \in Launch, Track(t, n) PROVE OneEach'
  <2>1. Unobserved(n)
    BY <1>2 DEF Track, Unobserved, LaneInv, ScansFit
  <2>2. PICK h \in Threads : Holds(h, n)
    BY <2>1 DEF LaneInv, ClientsHeld
  <2>3. call[h].pc \in UnderLock /\ call[h].launch = n /\ call[h].account = owner[n]
    BY <2>2 DEF Holds, After, UnderLock, Launching, TypeInv, CallsOK, CallFits
  <2>4. \A m \in Launch : m # n => tracked'[m] = tracked[m] /\ tracked[m] # owner[n]
    <3>1. \A m \in Launch : m # n => tracked'[m] = tracked[m]
      BY <1>2 DEF Track, TypeInv, TracksOK
    <3>2. \A m \in Launch : m # n => tracked[m] # owner[n]
      BY <2>3 DEF LaneInv, Unrivalled
    <3>. QED BY <3>1, <3>2
  <2>5. tracked'[n] \in Accounts => tracked'[n] = owner[n]
    <3>1. tracked'[n] \in {Unseen, Orphan, owner'[n]}
      BY LaneStep DEF LaneInv, GoesNowhereElse
    <3>2. owner' = owner
      BY <1>2 DEF Track, history
    <3>. QED BY <3>1, <3>2
  <2>. QED BY <2>4, <2>5 DEF OneEach
<1>3. ASSUME NEW t \in Threads, NEW n \in Launch, Retire(t, n) PROVE OneEach'
  BY <1>1, <1>3 DEF Retire, TypeInv, TracksOK
<1>4. ASSUME NEW t \in Threads, ForgetInMonitor(t) PROVE OneEach'
  BY <1>1, <1>4 DEF ForgetInMonitor
<1>5. CASE UNCHANGED tracked
  BY <1>1, <1>5
<1>6. CASE UNCHANGED vars \/ Roblox \/ Dispatch \/ Reorder \/ SetCap
  BY <1>5, <1>6 DEF SetCap, vars, monitor, Roblox, ClientStarts, ClientDies, IntentExpires, Dispatch, ClaimDue,
                    StartRelaunch, DropRelaunch, Reorder
<1>7. ASSUME NEW t \in Threads,
             LaunchStep(t) \/ AwaitReturns(t) \/ \E complete \in BOOLEAN : BeginScan(t, complete)
      PROVE  OneEach'
  BY <1>5, <1>7 DEF monitor, LaunchStep, CheckDuplicate, EnterLaunch, PreparationFails, RegisterIntent,
                    HandOff, HandOffFails, SaveLaunched, AwaitReturns, BeginScan
<1>8. ASSUME NEW t \in Threads, ScanStep(t) \/ UserStep(t) PROVE OneEach'
  BY <1>2, <1>3, <1>4, <1>5, <1>8 DEF monitor, ScanStep, EndScan, RecordEvent, BeginReconcile, Reconcile,
      WriteLabel, EndReconcile, UserStep, StartLaunch, BeginEdit, SaveEdit, DeleteRow
<1> QED
  BY <1>6, <1>7, <1>8 DEF Next

\* "preventing two rapid launches": the duplicate check is made before the launch lock is taken, and
\* two calls for one account that are under way at once are the only way past it.  As long as calls for
\* one account follow each other, by whatever threads, relaunches of clients that ended included, the
\* account never has two clients under way or running (clients that come up within the wait, nothing
\* deleted meanwhile).
THEOREM NoAccountTwice ==
    ASSUME Prompt = TRUE, MaxEdits = 0
    PROVE  Spec /\ []NoOverlap => []NoDuplicateLaunch
<1>1. Init => OneEach
  BY DEF Init, OneEach
<1>2. NoOverlap /\ TypeInv /\ LaneInv /\ OneEach => NoDuplicateLaunch
  <2>. SUFFICES ASSUME Alone, TypeInv, LaneInv, OneEach, NEW m \in Launch, NEW n \in Launch, owner[m] = owner[n],
                       client[m] \in {"starting", "running"}, client[n] \in {"starting", "running"}
                PROVE  m = n
    BY DEF NoDuplicateLaunch, Alone
  <2>1. \A k \in Launch : client[k] \in {"starting", "running"} =>
           tracked[k] = owner[k] \/ \E t \in Threads : Holds(t, k)
    BY DEF LaneInv, ClientsHeld, NobodyDeleted, GoesNowhereElse, Unobserved
  <2>2. \A t \in Threads, k \in Launch : Holds(t, k) =>
           /\ call[t].pc \in Launching /\ call[t].pc \in UnderLock
           /\ call[t].account = owner[k] /\ call[t].launch = k /\ owner[k] \in Accounts
    BY DEF Holds, After, UnderLock, Launching, TypeInv, CallsOK, CallFits
  <2>3. \A t, u \in Threads : Holds(t, m) /\ Holds(u, n) => m = n
    BY <2>2, OneLauncher DEF LaneInv
  <2>4. \A t \in Threads : Holds(t, m) /\ tracked[n] = owner[n] => m = n
    BY <2>2 DEF LaneInv, Unrivalled
  <2>5. \A t \in Threads : Holds(t, n) /\ tracked[m] = owner[m] => m = n
    BY <2>2 DEF LaneInv, Unrivalled
  <2>6. tracked[m] = owner[m] /\ tracked[n] = owner[n] => m = n
    <3>1. tracked[m] = owner[m] => tracked[m] \in Accounts
      BY DEF TypeInv, TracksOK, HistoryOK, Unseen, Orphan
    <3>. QED BY <3>1 DEF OneEach
  <2>. QED BY <2>1, <2>3, <2>4, <2>5, <2>6
<1>3. NoOverlap /\ TypeInv /\ LaneInv /\ OneEach /\ [Next]_vars => OneEach'
  BY OneEachStep DEF Alone
<1> QED
  BY <1>1, <1>2, <1>3, LaneSpec, PTL DEF Spec

-----------------------------------------------------------------------------
(* Relaunches: where an account is taken back to (module Relaunch).         *)

KnobsOK == knobs \in [watching : BOOLEAN, relaunches : BOOLEAN, threshold : Thresholds, sound : BOOLEAN]

\* A relaunch to the same server is one attempt more, so the attempts bound the returns.
ReturnsFit ==
    /\ returns \in Nat /\ intent.attempt \in Nat
    /\ knobs.sound => returns <= knobs.threshold /\ returns <= intent.attempt

\* The policy that travels with an intent was made when the user asked.
PolicyIsTheUsers == intent.policy.enabled => allowed

\* What is due follows the intent of the client that ended, and no other client is there.
DueFits ==
    queued # NothingDue =>
        /\ session = "absent" /\ queued.attempt = intent.attempt + 1
        /\ queued.policy = intent.policy /\ queued.policy.enabled

RelaunchInv == KnobsOK /\ ReturnsFit /\ PolicyIsTheUsers /\ DueFits

LEMMA ThresholdIsNumber == KnobsOK => knobs.threshold \in Nat
BY RelaunchAssumption DEF KnobsOK

LEMMA RelaunchBegins == RelaunchInit => RelaunchInv
<1> SUFFICES ASSUME RelaunchInit PROVE RelaunchInv
  OBVIOUS
<1>1. KnobsOK
  BY DEF RelaunchInit, KnobsOK
<1>2. knobs.threshold \in Nat
  BY <1>1, ThresholdIsNumber
<1>3. ReturnsFit
  BY <1>2 DEF RelaunchInit, ReturnsFit, NoIntentYet
<1>4. PolicyIsTheUsers /\ DueFits
  BY DEF RelaunchInit, PolicyIsTheUsers, DueFits, NoIntentYet, NoPolicy
<1>. QED BY <1>1, <1>3, <1>4 DEF RelaunchInv

\* A server that is kept has an attempt left below the threshold.
LEMMA KeptHasAttempts ==
    ASSUME KnobsOK, knobs.sound, NEW request, request.attempt \in Nat, ~ PlanFor(request).change
    PROVE  request.attempt + 1 <= knobs.threshold /\ code # "shutdown"
<1>1. PlanFor(request).change = GivesUp(code, request.attempt, knobs.threshold)
  BY DEF PlanFor, PlanRejoin
<1>2. knobs.threshold \in Nat
  BY ThresholdIsNumber
<1>3. ~ GivesUp(code, request.attempt, knobs.threshold)
  BY <1>1
<1>4. code # "shutdown" /\ knobs.threshold # 0 /\ ~ (request.attempt + 1 > knobs.threshold)
  BY <1>3 DEF GivesUp, Classify
<1>. QED BY <1>2, <1>4

\* The user asks: nothing is due, and the policy is that of the rule and the settings now.
LEMMA AskStep ==
    ASSUME RelaunchInv, NEW job, Asks(job), queued = NothingDue
    PROVE  RelaunchInv'
<1>1. KnobsOK'
  BY DEF RelaunchInv, KnobsOK, Asks
<1>2. intent'.attempt = 0 /\ returns' = 0 /\ knobs' = knobs
  BY DEF Asks
<1>3. ReturnsFit'
  <2>1. knobs.threshold \in Nat
    BY ThresholdIsNumber DEF RelaunchInv
  <2>. QED BY <1>2, <2>1 DEF ReturnsFit
<1>4. intent'.policy.enabled = Armed(knobs, Understood(rule))
  BY DEF Asks, PolicyFor
<1>5. PolicyIsTheUsers'
  BY <1>4 DEF Asks, PolicyIsTheUsers
<1>6. DueFits'
  BY DEF Asks, DueFits
<1>. QED BY <1>1, <1>3, <1>5, <1>6 DEF RelaunchInv

LEMMA EndStep ==
    ASSUME RelaunchInv, NEW how, ClientEnds(how)
    PROVE  RelaunchInv'
<1>1. queued = NothingDue
  BY DEF RelaunchInv, DueFits, ClientEnds
<1>2. KnobsOK' /\ ReturnsFit' /\ PolicyIsTheUsers'
  BY DEF RelaunchInv, KnobsOK, ReturnsFit, PolicyIsTheUsers, ClientEnds
<1>3. DueFits'
  BY <1>1 DEF ClientEnds, DueFits
<1>. QED BY <1>2, <1>3 DEF RelaunchInv

\* What is due is consumed; a relaunch that keeps the server had an attempt left for it.
LEMMA DispatchStep ==
    ASSUME RelaunchInv, DispatchDue
    PROVE  RelaunchInv'
<1>1. KnobsOK' /\ knobs' = knobs /\ queued' = NothingDue /\ allowed' = allowed
  BY DEF RelaunchInv, KnobsOK, DispatchDue
<1>2. queued.attempt = intent.attempt + 1 /\ queued.policy = intent.policy
  BY DEF RelaunchInv, DueFits, DispatchDue
<1>3. CASE UNCHANGED <<intent, returns, session>>
  BY <1>1, <1>3 DEF RelaunchInv, ReturnsFit, PolicyIsTheUsers, DueFits
<1>4. CASE RelaunchAs(queued)
  <2>1. intent'.attempt = queued.attempt /\ intent'.policy = queued.policy
    BY <1>4 DEF RelaunchAs
  <2>2. ReturnsFit'
    <3>1. returns \in Nat /\ intent.attempt \in Nat /\ queued.attempt \in Nat
      BY <1>2 DEF RelaunchInv, ReturnsFit
    <3>2. CASE returns' = returns
      BY <1>1, <1>2, <2>1, <3>1, <3>2 DEF RelaunchInv, ReturnsFit
    <3>3. CASE returns' # returns
      <4>1. returns' = returns + 1 /\ ~ PlanFor(queued).change
        BY <1>4, <3>3 DEF RelaunchAs
      <4>2. knobs.sound => queued.attempt + 1 <= knobs.threshold
        BY <3>1, <4>1, KeptHasAttempts DEF RelaunchInv
      <4>3. knobs.threshold \in Nat
        BY ThresholdIsNumber DEF RelaunchInv
      <4>. QED BY <1>1, <1>2, <2>1, <3>1, <4>1, <4>2, <4>3 DEF RelaunchInv, ReturnsFit
    <3>. QED BY <3>2, <3>3
  <2>3. PolicyIsTheUsers' /\ DueFits'
    BY <1>1, <1>2, <2>1 DEF RelaunchInv, PolicyIsTheUsers, DueFits
  <2>. QED BY <1>1, <2>2, <2>3 DEF RelaunchInv
<1>. QED BY <1>3, <1>4 DEF DispatchDue

LEMMA RelaunchStep == RelaunchInv /\ [RelaunchNext]_relaunchVars => RelaunchInv'
<1> SUFFICES ASSUME RelaunchInv, [RelaunchNext]_relaunchVars PROVE RelaunchInv'
  OBVIOUS
<1> USE DEF RelaunchInv, KnobsOK, ReturnsFit, PolicyIsTheUsers, DueFits
<1>1. CASE UNCHANGED relaunchVars
  BY <1>1 DEF relaunchVars
<1>2. CASE \E r \in SavedRules : ConfigureRule(r)
  BY <1>2 DEF ConfigureRule
<1>3. CASE \E on \in BOOLEAN : SwitchRelaunches(on)
  BY <1>3 DEF SwitchRelaunches
<1>4. CASE \E job \in Jobs \cup {AnyServer} : LaunchByUser(job) \/ AssociateInstance(job)
  BY <1>4, AskStep DEF LaunchByUser, AssociateInstance
<1>5. CASE StartElsewhere \/ OrphanEnds
  BY <1>5 DEF StartElsewhere, OrphanEnds
<1>6. CASE LogJoined \/ \E c \in Codes : LogDisconnected(c)
  BY <1>6 DEF LogJoined, LogDisconnected
<1>7. CASE \E how \in {"crash", "exit"} : ClientEnds(how)
  BY <1>7, EndStep
<1>8. CASE DispatchDue
  BY <1>8, DispatchStep
<1>. QED BY <1>1, <1>2, <1>3, <1>4, <1>5, <1>6, <1>7, <1>8 DEF RelaunchNext

LEMMA RelaunchInvariant == RelaunchSpec => []RelaunchInv
BY RelaunchBegins, RelaunchStep, PTL DEF RelaunchSpec

\* For any thresholds, attempts and servers: while the settings make sense, one server is
\* tried again at most as often as the user allowed (watchers/rejoin_rules.py, plan_rejoin,
\* as _dispatch_due_restarts uses it).
THEOREM ServersAreLeftInTime == RelaunchSpec => []ServersAreGivenUp
<1>1. RelaunchInv => ServersAreGivenUp
  BY DEF RelaunchInv, ReturnsFit, ServersAreGivenUp
<1>. QED BY <1>1, RelaunchInvariant, PTL

\* What comes due was armed by the rule and the settings when the user last asked
\* (application_service.py, _restart_policy_for and _relaunch_arming_state).
THEOREM NothingUnarmedComesDue == RelaunchSpec => []OnlyWhatWasArmed
<1>1. RelaunchInv => OnlyWhatWasArmed
  BY DEF RelaunchInv, DueFits, PolicyIsTheUsers, OnlyWhatWasArmed
<1>. QED BY <1>1, RelaunchInvariant, PTL

LEMMA ShutStep ==
    ASSUME RelaunchInv, [RelaunchNext]_relaunchVars, knobs.sound, code = "shutdown", queued # NothingDue,
           session' = "bound", intent'.attempt > 0
    PROVE  intent'.job = AnyServer
<1>1. session = "absent" /\ queued.attempt \in Nat
  BY DEF RelaunchInv, DueFits, ReturnsFit
<1>2. DispatchDue
  BY <1>1 DEF RelaunchNext, relaunchVars, ConfigureRule, SwitchRelaunches, LaunchByUser,
              AssociateInstance, StartElsewhere, OrphanEnds, LogJoined, LogDisconnected, ClientEnds
<1>3. RelaunchAs(queued)
  BY <1>1, <1>2 DEF DispatchDue
<1>4. PlanFor(queued).change
  <2>1. PlanFor(queued).change = GivesUp(code, queued.attempt, knobs.threshold)
    BY DEF PlanFor, PlanRejoin
  <2>. QED BY <2>1 DEF GivesUp, Classify
<1>. QED BY <1>3, <1>4 DEF RelaunchAs

\* A relaunch after the server was shut down never names that server, whatever the threshold
\* and the attempts (rejoin_rules.py, the catalog of disconnect codes and plan_rejoin).
THEOREM ShutServersAreLeft == RelaunchSpec => FailedServerIsLeft
<1>1. RelaunchInv /\ [RelaunchNext]_relaunchVars =>
          [knobs.sound /\ code = "shutdown" /\ queued # NothingDue /\ session' = "bound" /\ intent'.attempt > 0
              => intent'.job = AnyServer]_relaunchVars
  BY ShutStep
<1>. QED BY <1>1, RelaunchInvariant, PTL DEF RelaunchSpec, FailedServerIsLeft

-----------------------------------------------------------------------------
(* Changes of the settings (module SettingsChange): what each store agrees  *)
(* with at each place of a call that is alone.                              *)

Values ==
    {<<>>} \cup {v \in Updates : "startup" \notin DOMAIN v} \cup {DefaultsOf(scope) : scope \in SUBSET Paths}

ChangeRecord ==
    [at : {"idle", "patch", "write", "clear", "register", "keep"}, values : Values,
     todo : SUBSET Paths, before : 0..2, patched : BOOLEAN, wrote : BOOLEAN,
     resets : SUBSET Paths, on : {0, On}]

SettingsOK ==
    /\ stored \in [Paths -> 0..2] /\ stored.startup \in {0, On}
    /\ capFile \in 0..2 /\ watchedWith \in 0..2 /\ run \in {"none", "ours", "moved"}
    /\ broken \subseteq {"overlap", "torn", "half", "uncompensated", "untold"} /\ resetOk \in BOOLEAN

ChangesOK ==
    /\ change \in [Changers -> ChangeRecord]
    /\ \A u \in Changers : /\ change[u].todo \subseteq DOMAIN change[u].values
                           /\ At(u, "patch") => "fps" \in DOMAIN change[u].values

FileIs == broken \cap {"torn", "half", "uncompensated"} = {} => capFile = stored.fps
GoodIs == "torn" \notin broken => Acceptable(stored)
RunIs  == "uncompensated" \notin broken => (stored.startup = On <=> run # "none")
ToldIs == broken \cap {"torn", "untold"} = {} => watchedWith = stored.watch

Settled == FileIs /\ GoodIs /\ RunIs /\ ToldIs /\ (resetOk => stored = Defaults)

\* While the rows are written: what is not left to do is stored, and the file is ahead of them.
Writing(c) ==
    /\ \A p \in DOMAIN c.values \ c.todo : stored[p] = c.values[p]
    /\ ~ c.wrote => c.todo = DOMAIN c.values /\ GoodIs /\ ToldIs
    /\ c.patched <=> "fps" \in DOMAIN c.values
    /\ broken \cap {"torn", "half", "uncompensated"} = {} =>
         /\ c.patched => capFile = c.values.fps /\ ("fps" \in c.todo => c.before = stored.fps)
         /\ ~ c.patched => capFile = stored.fps

\* The record of a call that is alone.
Sound(c) ==
    /\ ~ resetOk
    /\ c.at = "keep" => run = RunValue(c.on)
    /\ c.at # "keep" => RunIs
    /\ c.at # "write" => FileIs /\ GoodIs /\ ToldIs
    /\ c.at = "patch" => ~ c.patched /\ ~ c.wrote /\ c.todo = DOMAIN c.values
    /\ c.at \in {"patch", "write"} => Acceptable(Merged(stored, c.values))
    /\ c.at = "write" => Writing(c)
    /\ c.at = "clear" => \A p \in DOMAIN c.values : stored[p] = c.values[p]
    /\ c.at \in {"patch", "write", "clear"} /\ c.resets = Paths =>
         stored.startup = 0 /\ c.values = DefaultsOf(Paths)
    /\ c.at \in {"register", "keep"} /\ c.resets = Paths => c.on = 0

OnlyCall(u) == \A v \in Changers : v = u \/ At(v, "idle")

InStep ==
    "overlap" \notin broken =>
        /\ \A u \in Changers : ~ At(u, "idle") => OnlyCall(u) /\ Sound(change[u])
        /\ Quiet => Settled

ChangeInv == SettingsOK /\ ChangesOK /\ InStep

-----------------------------------------------------------------------------
LEMMA PathsAre == /\ Paths = {"fps", "warn", "critical", "watch", "recent", "startup", "extra"}
                  /\ Defaults \in [Paths -> 0..2] /\ Acceptable(Defaults) /\ DOMAIN <<>> = {}
BY DEF Paths, Defaults, Acceptable

LEMMA DefaultsAre ==
    ASSUME NEW scope \in SUBSET Paths
    PROVE  /\ DOMAIN DefaultsOf(scope) = scope \ {"startup", "extra"}
           /\ \A p \in DOMAIN DefaultsOf(scope) : DefaultsOf(scope)[p] = Defaults[p]
BY DEF DefaultsOf, Restrict, Paths

LEMMA ValuesFit ==
    ASSUME NEW v \in Values
    PROVE  DOMAIN v \subseteq Paths \ {"startup"} /\ \A p \in DOMAIN v : v[p] \in 0..2
<1>1. CASE v = <<>>
  BY <1>1, PathsAre
<1>2. CASE v \in Updates /\ "startup" \notin DOMAIN v
  BY <1>2, UpdatesAssumption
<1>3. ASSUME NEW scope \in SUBSET Paths, v = DefaultsOf(scope)
      PROVE  DOMAIN v \subseteq Paths \ {"startup"} /\ \A p \in DOMAIN v : v[p] \in 0..2
  <2>1. DOMAIN v = scope \ {"startup", "extra"} /\ \A p \in DOMAIN v : v[p] = Defaults[p]
    BY <1>3, DefaultsAre
  <2>2. \A p \in Paths : Defaults[p] \in 0..2
    BY PathsAre
  <2>. QED BY <2>1, <2>2
<1>. QED BY <1>1, <1>2, <1>3 DEF Values

LEMMA NoCallFits ==
    /\ NoCall \in ChangeRecord /\ NoCall.at = "idle" /\ NoCall.todo = {} /\ NoCall.resets = {}
    /\ ~ NoCall.patched /\ ~ NoCall.wrote
<1>1. <<>> \in Values
  BY DEF Values
<1>. QED BY <1>1 DEF NoCall, ChangeRecord, On

LEMMA WritesRecord ==
    ASSUME NEW v \in Values, NEW scope \in SUBSET Paths, NEW c, c = Writes(v, scope)
    PROVE  /\ c \in ChangeRecord /\ c.at = IF "fps" \in DOMAIN v THEN "patch" ELSE "write"
           /\ c.values = v /\ c.todo = DOMAIN v /\ ~ c.patched /\ ~ c.wrote /\ c.resets = scope
<1> DEFINE p == IF "fps" \in DOMAIN v THEN "patch" ELSE "write"
           d == DOMAIN v
<1>1. d \in SUBSET Paths /\ p \in {"patch", "write"}
  BY ValuesFit
<1>2. c = [NoCall EXCEPT !.at = p, !.values = v, !.todo = d, !.resets = scope]
  BY DEF Writes
<1> HIDE DEF p, d
<1>3. /\ c \in ChangeRecord /\ c.at = p /\ c.values = v /\ c.todo = d /\ c.resets = scope
      /\ c.patched = NoCall.patched /\ c.wrote = NoCall.wrote
  BY <1>1, <1>2, NoCallFits DEF ChangeRecord
<1>. QED BY <1>3 DEF p, d, NoCall

LEMMA ChangeTyped ==
    ASSUME ChangeInv, NEW u \in Changers
    PROVE  /\ SettingsOK /\ change \in [Changers -> ChangeRecord] /\ change[u] \in ChangeRecord
           /\ change[u].values \in Values /\ change[u].todo \subseteq DOMAIN change[u].values
           /\ At(u, "patch") => "fps" \in DOMAIN change[u].values
BY DEF ChangeInv, ChangesOK, ChangeRecord

\* A call goes to another place.
LEMMA ChangeMoves ==
    ASSUME ChangeInv, NEW u \in Changers, NEW c \in ChangeRecord, change' = [change EXCEPT ![u] = c],
           SettingsOK',
           c.todo \subseteq DOMAIN c.values, c.at = "patch" => "fps" \in DOMAIN c.values,
           "overlap" \notin broken' => OnlyCall(u),
           "overlap" \notin broken' /\ c.at # "idle" => Sound(change[u])',
           "overlap" \notin broken' /\ c.at = "idle" => Settled'
    PROVE  ChangeInv'
<1>1. change'[u] = c /\ \A v \in Changers : v # u => change'[v] = change[v]
  BY ChangeTyped
<1>2. ChangesOK'
  <2>1. change' \in [Changers -> ChangeRecord]
    BY ChangeTyped
  <2>2. ASSUME NEW v \in Changers
        PROVE  /\ change'[v].todo \subseteq DOMAIN change'[v].values
               /\ At(v, "patch")' => "fps" \in DOMAIN change'[v].values
    BY <1>1 DEF ChangeInv, ChangesOK, At
  <2>. QED BY <2>1, <2>2 DEF ChangesOK
<1>3. ASSUME "overlap" \notin broken', NEW v \in Changers, v # u PROVE At(v, "idle")'
  BY <1>1, <1>3 DEF OnlyCall, At
<1>4. InStep'
  <2> SUFFICES ASSUME "overlap" \notin broken'
               PROVE  /\ \A v \in Changers : ~ At(v, "idle")' => OnlyCall(v)' /\ Sound(change[v])'
                      /\ Quiet' => Settled'
    BY DEF InStep
  <2>1. OnlyCall(u)'
    BY <1>3 DEF OnlyCall
  <2>2. At(u, "idle")' <=> c.at = "idle"
    BY <1>1 DEF At
  <2>3. ASSUME NEW v \in Changers, ~ At(v, "idle")' PROVE OnlyCall(v)' /\ Sound(change[v])'
    <3>1. v = u
      BY <1>3, <2>3
    <3>. QED BY <2>1, <2>2, <2>3, <3>1
  <2>4. Quiet' => Settled'
    BY <2>2 DEF Quiet
  <2>. QED BY <2>3, <2>4
<1>. QED BY <1>2, <1>4 DEF ChangeInv

-----------------------------------------------------------------------------
LEMMA ChangeBegins == ChangeInit => ChangeInv
<1> SUFFICES ASSUME ChangeInit PROVE ChangeInv
  OBVIOUS
<1>0. PICK startup \in {0, On}, extra \in {0, 1} :
        stored = [Defaults EXCEPT !.startup = startup, !.extra = extra]
  BY DEF ChangeInit
<1>1. /\ stored \in [Paths -> 0..2] /\ stored.startup = startup
      /\ \A p \in Paths \ {"startup", "extra"} : stored[p] = Defaults[p]
  <2>0. startup \in 0..2 /\ extra \in 0..2
    BY DEF On
  <2>1. stored \in [Paths -> 0..2]
    BY <1>0, <2>0, PathsAre
  <2>3. stored.startup = startup
    BY <1>0, PathsAre
  <2>4. ASSUME NEW p \in Paths \ {"startup", "extra"} PROVE stored[p] = Defaults[p]
    BY <1>0, PathsAre
  <2>. QED BY <2>1, <2>3, <2>4
<1>2. SettingsOK
  <2>1. stored.fps \in 0..2 /\ stored.watch \in 0..2
    BY <1>1, PathsAre
  <2>. QED BY <1>1, <2>1 DEF SettingsOK, ChangeInit
<1>3. ChangesOK
  BY NoCallFits DEF ChangesOK, ChangeInit, At
<1>4. Settled
  <2>1. Acceptable(stored)
    BY <1>1, PathsAre DEF Acceptable
  <2>2. RunIs
    BY DEF ChangeInit, RunIs, On
  <2>. QED BY <2>1, <2>2 DEF Settled, FileIs, GoodIs, ToldIs, ChangeInit
<1>5. InStep
  BY <1>4, NoCallFits DEF InStep, ChangeInit, At
<1>. QED BY <1>2, <1>3, <1>5 DEF ChangeInv

\* The places where the stores agree, told in the state a step leads to.
LEMMA SoundWrites ==
    ASSUME NEW u, NEW v \in Values, NEW scope \in SUBSET Paths, change'[u] = Writes(v, scope),
           ~ resetOk', FileIs', GoodIs', RunIs', ToldIs', Acceptable(Merged(stored', v)),
           scope = Paths => stored'.startup = 0 /\ v = DefaultsOf(Paths)
    PROVE  Sound(change[u])'
<1>1. PICK c : c = change'[u]
  OBVIOUS
<1>2. /\ c.at = IF "fps" \in DOMAIN v THEN "patch" ELSE "write"
      /\ c.values = v /\ c.todo = DOMAIN v /\ ~ c.patched /\ ~ c.wrote /\ c.resets = scope
  BY <1>1, WritesRecord
<1>3. Writing(change[u])' \/ c.at # "write"
  BY <1>1, <1>2 DEF Writing, FileIs
<1>. QED BY <1>1, <1>2, <1>3 DEF Sound

\* A call begins, alone unless it overlaps.
LEMMA BeginStep ==
    ASSUME ChangeInv, NEW u \in Changers, NEW c \in ChangeRecord, Begins(u, c),
           UNCHANGED <<stored, capFile, run, watchedWith>>,
           c.todo \subseteq DOMAIN c.values, c.at = "patch" => "fps" \in DOMAIN c.values,
           Settled' /\ ~ resetOk' /\ change'[u] = c /\ c.at # "idle" => Sound(change[u])'
    PROVE  ChangeInv'
<1>1. change' = [change EXCEPT ![u] = c] /\ change'[u] = c /\ ~ resetOk'
  BY ChangeTyped DEF Begins
<1>2. SettingsOK'
  BY ChangeTyped DEF SettingsOK, Begins
<1>3. "overlap" \notin broken' => Quiet /\ broken' = broken /\ "overlap" \notin broken
  BY DEF Begins
<1>4. "overlap" \notin broken' => OnlyCall(u)
  BY <1>3 DEF Quiet, OnlyCall
<1>5. "overlap" \notin broken' => Settled'
  <2>1. "overlap" \notin broken' => Settled
    BY <1>3 DEF ChangeInv, InStep
  <2>. QED BY <1>1, <1>3, <2>1 DEF Settled, FileIs, GoodIs, RunIs, ToldIs
<1>. QED BY <1>1, <1>2, <1>4, <1>5, ChangeMoves

LEMMA UpdateStep ==
    ASSUME ChangeInv, NEW u \in Changers, NEW values \in Updates, UpdateSettings(u, values)
    PROVE  ChangeInv'
<1> DEFINE good == Acceptable(Merged(stored, values))
<1>1. values \in Values /\ {} \in SUBSET Paths /\ {} # Paths
  BY PathsAre DEF UpdateSettings, Values
<1>2. CASE good
  <2>1. PICK c : c = Writes(values, {})
    OBVIOUS
  <2>2. c \in ChangeRecord /\ c.todo = DOMAIN c.values /\ (c.at = "patch" => "fps" \in DOMAIN c.values)
    BY <1>1, <2>1, WritesRecord
  <2>3. Begins(u, c) /\ UNCHANGED <<stored, capFile, run, watchedWith>>
    BY <1>2, <2>1 DEF UpdateSettings
  <2>4. Settled' /\ ~ resetOk' /\ change'[u] = c => Sound(change[u])'
    BY <1>1, <1>2, <2>1, <2>3, SoundWrites DEF Settled
  <2>. QED BY <2>2, <2>3, <2>4, BeginStep
<1>3. CASE ~ good
  <2>1. Begins(u, NoCall) /\ UNCHANGED <<stored, capFile, run, watchedWith>>
    BY <1>3 DEF UpdateSettings
  <2>. QED BY <2>1, NoCallFits, BeginStep
<1>. QED BY <1>2, <1>3

LEMMA ResetStep ==
    ASSUME ChangeInv, NEW u \in Changers, NEW scope \in {Paths, {"watch"}}, ResetSettings(u, scope)
    PROVE  ChangeInv'
<1> DEFINE v == DefaultsOf(scope)
           good == Acceptable(Merged(stored, v))
<1>0. scope \in SUBSET Paths /\ v \in Values
  BY PathsAre DEF Values
<1>1. UNCHANGED <<stored, capFile, run, watchedWith>>
  BY DEF ResetSettings
<1>2. CASE "startup" \in scope /\ stored.startup = On
  <2>1. PICK c : c = [NoCall EXCEPT !.at = "register", !.on = 0, !.resets = scope]
    OBVIOUS
  <2>0. 0 \in {0, On} /\ Begins(u, c)
    BY <1>2, <2>1 DEF ResetSettings
  <2>2. c \in ChangeRecord /\ c.at = "register" /\ c.todo = {} /\ c.on = 0
    BY <1>0, <2>0, <2>1, NoCallFits DEF ChangeRecord
  <2>3. Settled' /\ ~ resetOk' /\ change'[u] = c => Sound(change[u])'
    BY <2>2 DEF Settled, Sound
  <2>. QED BY <1>1, <2>0, <2>2, <2>3, BeginStep
<1>3. CASE ~ ("startup" \in scope /\ stored.startup = On) /\ good
  <2>1. PICK c : c = Writes(v, scope)
    OBVIOUS
  <2>2. c \in ChangeRecord /\ c.todo = DOMAIN c.values /\ (c.at = "patch" => "fps" \in DOMAIN c.values)
    BY <1>0, <2>1, WritesRecord
  <2>3. Begins(u, c)
    BY <1>3, <2>1 DEF ResetSettings
  <2>4. scope = Paths => stored'.startup = 0 /\ v = DefaultsOf(Paths)
    BY <1>1, <1>3, ChangeTyped, PathsAre DEF SettingsOK
  <2>5. Settled' /\ ~ resetOk' /\ change'[u] = c => Sound(change[u])'
    BY <1>0, <1>1, <1>3, <2>1, <2>4, SoundWrites DEF Settled
  <2>. QED BY <1>1, <2>2, <2>3, <2>5, BeginStep
<1>4. CASE ~ ("startup" \in scope /\ stored.startup = On) /\ ~ good
  <2>1. Begins(u, NoCall)
    BY <1>4 DEF ResetSettings
  <2>. QED BY <1>1, <2>1, NoCallFits, BeginStep
<1>. QED BY <1>2, <1>3, <1>4

LEMMA StartupStep ==
    ASSUME ChangeInv, NEW u \in Changers, NEW on \in {0, On}, SetWindowsStartup(u, on)
    PROVE  ChangeInv'
<1>1. PICK c : c = [NoCall EXCEPT !.at = "register", !.on = on]
  OBVIOUS
<1>2. /\ c \in ChangeRecord /\ c.at = "register" /\ c.todo = {} /\ c.resets # Paths
  BY <1>1, NoCallFits, PathsAre DEF ChangeRecord
<1>3. Begins(u, c) /\ UNCHANGED <<stored, capFile, run, watchedWith>>
  BY <1>1 DEF SetWindowsStartup
<1>4. Settled' /\ ~ resetOk' /\ change'[u] = c => Sound(change[u])'
  BY <1>2 DEF Settled, Sound
<1>. QED BY <1>2, <1>3, <1>4, BeginStep

-----------------------------------------------------------------------------
(* The steps of a call that is under way.                                   *)

LEMMA CallGoesOn ==
    ASSUME ChangeInv, NEW u \in Changers, ~ At(u, "idle"), NEW c \in ChangeRecord, Goes(u, c),
           SettingsOK', broken \subseteq broken', c.todo \subseteq DOMAIN c.values,
           c.at = "patch" => "fps" \in DOMAIN c.values,
           "overlap" \notin broken' /\ Sound(change[u]) /\ change'[u] = c =>
             IF c.at = "idle" THEN Settled' ELSE Sound(change[u])'
    PROVE  ChangeInv'
<1>1. change' = [change EXCEPT ![u] = c] /\ change'[u] = c
  BY ChangeTyped DEF Goes
<1>2. "overlap" \notin broken' => OnlyCall(u) /\ Sound(change[u])
  BY DEF ChangeInv, InStep
<1>. QED BY <1>1, <1>2, ChangeMoves

LEMMA CallEnds ==
    ASSUME ChangeInv, NEW u \in Changers, ~ At(u, "idle"), Goes(u, NoCall), SettingsOK',
           broken \subseteq broken', "overlap" \notin broken' /\ Sound(change[u]) => Settled'
    PROVE  ChangeInv'
BY NoCallFits, CallGoesOn

LEMMA PatchStep ==
    ASSUME ChangeInv, NEW u \in Changers, PatchFile(u)
    PROVE  ChangeInv'
<1> DEFINE old == change[u]
<1>1. PICK c : c = [old EXCEPT !.at = "write", !.patched = TRUE, !.before = stored.fps]
  OBVIOUS
<1>2. stored.fps \in 0..2 /\ old.values.fps \in 0..2 /\ old \in ChangeRecord
  BY ChangeTyped, ValuesFit, PathsAre DEF SettingsOK, PatchFile
<1>3. /\ c \in ChangeRecord /\ c.at = "write" /\ c.values = old.values /\ c.todo = old.todo
      /\ c.patched /\ c.before = stored.fps /\ c.wrote = old.wrote /\ c.resets = old.resets
  BY <1>1, <1>2 DEF ChangeRecord
<1>4. /\ Goes(u, c) /\ capFile' = old.values.fps
      /\ UNCHANGED <<stored, run, watchedWith, resetOk, broken>> /\ At(u, "patch")
  BY <1>1 DEF PatchFile
<1>5. SettingsOK'
  BY <1>2, <1>4, ChangeTyped DEF SettingsOK
<1>6. ASSUME Sound(old), change'[u] = c PROVE Sound(change[u])'
  <2>1. /\ ~ resetOk /\ RunIs /\ FileIs /\ GoodIs /\ ToldIs /\ ~ old.wrote /\ old.todo = DOMAIN old.values
        /\ Acceptable(Merged(stored, old.values))
        /\ old.resets = Paths => stored.startup = 0 /\ old.values = DefaultsOf(Paths)
    BY <1>4, <1>6 DEF Sound, At
  <2>2. RunIs' /\ GoodIs' /\ ToldIs'
    BY <1>4, <2>1 DEF RunIs, GoodIs, ToldIs
  <2>3. Writing(change[u])'
    BY <1>3, <1>4, <1>6, <2>1, <2>2, ChangeTyped DEF Writing
  <2>. QED BY <1>3, <1>4, <1>6, <2>1, <2>2, <2>3 DEF Sound
<1>7. c.todo \subseteq DOMAIN c.values /\ ~ At(u, "idle") /\ broken \subseteq broken'
  BY <1>3, <1>4, ChangeTyped DEF At
<1>. QED BY <1>3, <1>4, <1>5, <1>6, <1>7, CallGoesOn

LEMMA SetStep ==
    ASSUME ChangeInv, NEW u \in Changers, NEW path \in Paths, SetSetting(u, path)
    PROVE  ChangeInv'
<1> DEFINE old == change[u]
<1>1. PICK c : c = [old EXCEPT !.todo = @ \ {path}, !.wrote = TRUE]
  OBVIOUS
<1>2. /\ old \in ChangeRecord /\ path \in DOMAIN old.values /\ path # "startup" /\ old.values[path] \in 0..2
      /\ path \in old.todo
  BY ChangeTyped, ValuesFit DEF SetSetting
<1>3. /\ c \in ChangeRecord /\ c.at = old.at /\ c.values = old.values /\ c.todo = old.todo \ {path}
      /\ c.patched = old.patched /\ c.before = old.before /\ c.wrote /\ c.resets = old.resets
  BY <1>1, <1>2 DEF ChangeRecord
<1>4. /\ Goes(u, c) /\ stored' = [stored EXCEPT ![path] = old.values[path]] /\ old.at = "write"
      /\ UNCHANGED <<capFile, run, watchedWith, resetOk, broken>>
  BY <1>1 DEF SetSetting, At
<1>5. /\ stored' \in [Paths -> 0..2] /\ stored'[path] = old.values[path]
      /\ \A p \in Paths \ {path} : stored'[p] = stored[p]
  BY <1>2, <1>4, ChangeTyped DEF SettingsOK
<1>6. SettingsOK' /\ stored'.startup = stored.startup
  BY <1>2, <1>4, <1>5, ChangeTyped, PathsAre DEF SettingsOK
<1>7. ASSUME Sound(old), change'[u] = c PROVE Sound(change[u])'
  <2>1. /\ ~ resetOk /\ RunIs /\ Acceptable(Merged(stored, old.values)) /\ Writing(old)
        /\ old.resets = Paths => stored.startup = 0 /\ old.values = DefaultsOf(Paths)
    BY <1>4, <1>7 DEF Sound
  <2>2. RunIs'
    BY <1>4, <1>6, <2>1 DEF RunIs
  <2>3. Merged(stored', old.values) = Merged(stored, old.values)
    BY <1>2, <1>5 DEF Merged
  <2>4. "fps" \notin c.todo \/ stored'.fps = stored.fps
    BY <1>3, <1>5, PathsAre
  <2>5. "fps" \in DOMAIN old.values \/ stored'.fps = stored.fps
    BY <1>2, <1>5, PathsAre
  <2>6. \A p \in DOMAIN c.values \ c.todo : stored'[p] = c.values[p]
    BY <1>2, <1>3, <1>5, <2>1, ChangeTyped, ValuesFit DEF Writing
  <2>7. Writing(change[u])'
    BY <1>3, <1>4, <1>7, <2>1, <2>4, <2>5, <2>6 DEF Writing
  <2>. QED BY <1>3, <1>4, <1>6, <1>7, <2>1, <2>2, <2>3, <2>7 DEF Sound
<1>8. /\ c.todo \subseteq DOMAIN c.values /\ ~ At(u, "idle") /\ broken \subseteq broken'
      /\ c.at # "idle" /\ c.at # "patch"
  BY <1>3, <1>4, ChangeTyped DEF At
<1>. QED BY <1>3, <1>4, <1>6, <1>7, <1>8, CallGoesOn

\* What is agreed when every row is written.
LEMMA WrittenIs ==
    ASSUME ChangeInv, NEW u \in Changers, At(u, "write"), change[u].todo = {}, Sound(change[u])
    PROVE  /\ FileIs /\ GoodIs /\ RunIs /\ ~ resetOk
           /\ \A p \in DOMAIN change[u].values : stored[p] = change[u].values[p]
           /\ change[u].resets = Paths => stored.startup = 0 /\ change[u].values = DefaultsOf(Paths)
<1>1. /\ \A p \in DOMAIN change[u].values : stored[p] = change[u].values[p]
      /\ Writing(change[u]) /\ Acceptable(Merged(stored, change[u].values))
      /\ RunIs /\ ~ resetOk
      /\ change[u].resets = Paths => stored.startup = 0 /\ change[u].values = DefaultsOf(Paths)
  BY DEF Sound, Writing, At
<1>2. FileIs
  BY <1>1 DEF FileIs, Writing
<1>3. Acceptable(stored)
  BY <1>1, PathsAre DEF Acceptable, Merged
<1>. QED BY <1>1, <1>2, <1>3 DEF GoodIs

LEMMA SetRefusedStep ==
    ASSUME ChangeInv, NEW u \in Changers, SetSettingRefused(u)
    PROVE  ChangeInv'
<1> DEFINE old == change[u]
<1>1. PICK undone \in IF old.patched THEN BOOLEAN ELSE {TRUE} :
        /\ capFile' = IF undone THEN UndoesFile(u) ELSE capFile
        /\ broken' = broken \cup (IF old.wrote THEN {"torn"} ELSE {})
                            \cup (IF undone THEN {} ELSE {"uncompensated"})
  BY DEF SetSettingRefused
<1>2. /\ Goes(u, NoCall) /\ ~ resetOk' /\ UNCHANGED <<stored, run, watchedWith>>
      /\ ~ At(u, "idle") /\ At(u, "write") /\ old.todo # {} /\ resetOk' \in BOOLEAN
  BY DEF SetSettingRefused, EndsRefused, At
<1>3. broken \subseteq broken' /\ broken' \subseteq broken \cup {"torn", "uncompensated"} /\ capFile' \in 0..2
  BY <1>1, ChangeTyped DEF UndoesFile, SettingsOK, ChangeRecord
<1>4. SettingsOK'
  BY <1>2, <1>3, ChangeTyped DEF SettingsOK
<1>5. ASSUME Sound(old) PROVE Settled'
  <2>1. Writing(old) /\ RunIs
    BY <1>2, <1>5 DEF Sound, At
  <2>2. RunIs'
    BY <1>2, <1>3, <2>1 DEF RunIs
  <2>3. "torn" \notin broken' => GoodIs' /\ ToldIs'
    BY <1>1, <1>2, <1>3, <2>1 DEF Writing, GoodIs, ToldIs
  <2>4. ASSUME broken' \cap {"torn", "half", "uncompensated"} = {} PROVE capFile' = stored.fps
    <3>1. ~ old.wrote /\ undone /\ broken \cap {"torn", "half", "uncompensated"} = {}
      BY <1>1, <2>4
    <3>2. old.todo = DOMAIN old.values
      BY <2>1, <3>1 DEF Writing
    <3>. QED BY <1>1, <2>1, <3>1, <3>2 DEF Writing, UndoesFile
  <2>. QED BY <1>2, <2>2, <2>3, <2>4 DEF Settled, FileIs, GoodIs, ToldIs
<1>. QED BY <1>2, <1>3, <1>4, <1>5, CallEnds

LEMMA PruneRefusedStep ==
    ASSUME ChangeInv, NEW u \in Changers, PruneRefused(u)
    PROVE  ChangeInv'
<1>1. /\ Goes(u, NoCall) /\ ~ resetOk' /\ UNCHANGED <<stored, capFile, run, watchedWith>>
      /\ ~ At(u, "idle") /\ At(u, "write") /\ change[u].todo = {} /\ broken' = broken \cup {"untold"}
      /\ resetOk' \in BOOLEAN
  BY DEF PruneRefused, EndsRefused, At
<1>2. SettingsOK'
  BY <1>1, ChangeTyped DEF SettingsOK
<1>3. Sound(change[u]) => Settled'
  BY <1>1, WrittenIs DEF Settled, FileIs, GoodIs, RunIs, ToldIs
<1>. QED BY <1>1, <1>2, <1>3, CallEnds

LEMMA ToldStep ==
    ASSUME ChangeInv, NEW u \in Changers, Told(u)
    PROVE  ChangeInv'
<1> DEFINE old == change[u]
<1>1. PICK c : c = IF old.resets = {} THEN NoCall ELSE [old EXCEPT !.at = "clear"]
  OBVIOUS
<1>2. /\ Goes(u, c) /\ watchedWith' = stored.watch /\ UNCHANGED <<stored, capFile, run, resetOk, broken>>
      /\ ~ At(u, "idle") /\ At(u, "write") /\ old.todo = {}
  BY <1>1 DEF Told, NewOptions, At
<1>3. SettingsOK'
  BY <1>2, ChangeTyped, PathsAre DEF SettingsOK
<1>4. Sound(old) => Settled'
  BY <1>2, WrittenIs DEF Settled, FileIs, GoodIs, RunIs, ToldIs
<1>5. CASE old.resets = {}
  BY <1>1, <1>2, <1>3, <1>4, <1>5, CallEnds
<1>6. CASE old.resets # {}
  <2>1. /\ c \in ChangeRecord /\ c.at = "clear" /\ c.values = old.values /\ c.todo = {}
        /\ c.resets = old.resets
    BY <1>1, <1>2, <1>6, ChangeTyped DEF ChangeRecord
  <2>2. Sound(old) /\ change'[u] = c => Sound(change[u])'
    BY <1>2, <1>4, <2>1, WrittenIs DEF Sound, Settled
  <2>. QED BY <1>2, <1>3, <2>1, <2>2, CallGoesOn
<1>. QED BY <1>5, <1>6

LEMMA DeleteStep ==
    ASSUME ChangeInv, NEW u \in Changers, DeleteExtra(u)
    PROVE  ChangeInv'
<1> DEFINE old == change[u]
<1>1. /\ Goes(u, NoCall) /\ UNCHANGED <<capFile, run, watchedWith, broken>> /\ resetOk' = (old.resets = Paths)
      /\ stored' = IF "extra" \in old.resets THEN [stored EXCEPT !.extra = 0] ELSE stored
      /\ ~ At(u, "idle") /\ At(u, "clear") /\ resetOk' \in BOOLEAN
  BY DEF DeleteExtra, At
<1>2. /\ stored' \in [Paths -> 0..2] /\ \A p \in Paths \ {"extra"} : stored'[p] = stored[p]
      /\ "extra" \in old.resets => stored'.extra = 0
  BY <1>1, ChangeTyped, PathsAre DEF SettingsOK
<1>3. SettingsOK'
  BY <1>1, <1>2, ChangeTyped, PathsAre DEF SettingsOK
<1>4. ASSUME Sound(old) PROVE Settled'
  <2>1. /\ RunIs /\ FileIs /\ GoodIs /\ ToldIs /\ \A p \in DOMAIN old.values : stored[p] = old.values[p]
        /\ old.resets = Paths => stored.startup = 0 /\ old.values = DefaultsOf(Paths)
    BY <1>1, <1>4 DEF Sound, At
  <2>2. RunIs' /\ FileIs' /\ GoodIs' /\ ToldIs'
    BY <1>1, <1>2, <2>1, PathsAre DEF RunIs, FileIs, GoodIs, ToldIs, Acceptable
  <2>3. ASSUME old.resets = Paths PROVE stored' = Defaults
    <3>1. \A p \in Paths \ {"startup", "extra"} : stored'[p] = Defaults[p]
      <4>1. DOMAIN DefaultsOf(Paths) = Paths \ {"startup", "extra"}
            /\ \A p \in DOMAIN DefaultsOf(Paths) : DefaultsOf(Paths)[p] = Defaults[p]
        BY DefaultsAre
      <4>. QED BY <1>2, <2>1, <2>3, <4>1
    <3>2. stored'.startup = Defaults.startup /\ stored'.extra = Defaults.extra
      BY <1>2, <2>1, <2>3, PathsAre DEF Defaults
    <3>. QED BY <1>2, <3>1, <3>2, PathsAre
  <2>. QED BY <1>1, <2>2, <2>3 DEF Settled
<1>. QED BY <1>1, <1>3, <1>4, CallEnds

\* Calls that are refused before they changed anything, or after they had nothing left to undo.
LEMMA RefusedStep ==
    ASSUME ChangeInv, NEW u \in Changers, PatchRefused(u) \/ DeleteRefused(u)
    PROVE  ChangeInv'
<1>1. /\ Goes(u, NoCall) /\ ~ resetOk' /\ UNCHANGED <<stored, run, watchedWith>>
      /\ ~ At(u, "idle") /\ change[u].at \in {"patch", "clear"} /\ resetOk' \in BOOLEAN
  BY DEF PatchRefused, DeleteRefused, EndsRefused, At
<1>5. \/ capFile' = capFile /\ broken' = broken
      \/ At(u, "patch") /\ capFile' = change[u].values.fps /\ broken' = broken \cup {"half"}
  BY DEF PatchRefused, DeleteRefused
<1>2. SettingsOK'
  <2>1. At(u, "patch") => change[u].values.fps \in 0..2
    BY ChangeTyped, ValuesFit, PathsAre
  <2>. QED BY <1>1, <1>5, <2>1, ChangeTyped DEF SettingsOK
<1>3. Sound(change[u]) => Settled'
  BY <1>1, <1>5 DEF Sound, Settled, FileIs, GoodIs, RunIs, ToldIs
<1>. QED BY <1>1, <1>2, <1>3, <1>5, CallEnds

LEMMA RegisterStep ==
    ASSUME ChangeInv, NEW u \in Changers, Register(u)
    PROVE  ChangeInv'
<1> DEFINE old == change[u]
<1>1. PICK c : c = [old EXCEPT !.at = "keep"]
  OBVIOUS
<1>2. /\ c \in ChangeRecord /\ c.at = "keep" /\ c.on = old.on /\ c.resets = old.resets
      /\ c.todo = old.todo /\ c.values = old.values
  BY <1>1, ChangeTyped DEF ChangeRecord
<1>3. /\ Goes(u, c) /\ run' = RunValue(old.on) /\ ~ At(u, "idle") /\ old.at = "register"
      /\ UNCHANGED <<stored, capFile, watchedWith, resetOk, broken>>
  BY <1>1 DEF Register, At
<1>4. SettingsOK'
  BY <1>3, ChangeTyped DEF SettingsOK, RunValue
<1>5. Sound(old) /\ change'[u] = c => Sound(change[u])'
  BY <1>2, <1>3 DEF Sound, FileIs, GoodIs, ToldIs, RunIs
<1>6. c.todo \subseteq DOMAIN c.values
  BY <1>2, ChangeTyped
<1>. QED BY <1>2, <1>3, <1>4, <1>5, <1>6, CallGoesOn

LEMMA RegisterRefusedStep ==
    ASSUME ChangeInv, NEW u \in Changers, RegisterRefused(u)
    PROVE  ChangeInv'
<1>1. /\ Goes(u, NoCall) /\ ~ resetOk' /\ UNCHANGED <<stored, capFile, watchedWith>> /\ resetOk' \in BOOLEAN
      /\ ~ At(u, "idle") /\ change[u].at = "register"
  BY DEF RegisterRefused, EndsRefused, At
<1>2. \/ run' = run /\ broken' = broken
      \/ /\ run' = "ours"
         /\ broken' = IF stored.startup = On THEN broken ELSE broken \cup {"uncompensated"}
  BY DEF RegisterRefused, RunValue
<1>3. SettingsOK' /\ broken \subseteq broken'
  BY <1>1, <1>2, ChangeTyped DEF SettingsOK
<1>4. ASSUME Sound(change[u]) PROVE Settled'
  <2>1. RunIs /\ FileIs /\ GoodIs /\ ToldIs
    BY <1>1, <1>4 DEF Sound
  <2>2. RunIs'
    BY <1>1, <1>2, <2>1 DEF RunIs
  <2>3. FileIs' /\ GoodIs' /\ ToldIs'
    BY <1>1, <1>3, <2>1 DEF FileIs, GoodIs, ToldIs
  <2>. QED BY <1>1, <2>2, <2>3 DEF Settled
<1>. QED BY <1>1, <1>3, <1>4, CallEnds

LEMMA KeepRefusedStep ==
    ASSUME ChangeInv, NEW u \in Changers, KeepRefused(u)
    PROVE  ChangeInv'
<1> DEFINE old == change[u]
<1>1. /\ Goes(u, NoCall) /\ ~ resetOk' /\ UNCHANGED <<stored, capFile, watchedWith>> /\ resetOk' \in BOOLEAN
      /\ ~ At(u, "idle") /\ old.at = "keep" /\ old.on \in {0, 1} /\ stored.startup \in {0, 1}
  BY ChangeTyped DEF KeepRefused, EndsRefused, At, ChangeRecord, SettingsOK, On
<1>2. \/ run' = RunValue(On - old.on) /\ (stored.startup = old.on => "uncompensated" \in broken')
      \/ run' = run /\ "uncompensated" \in broken'
  BY DEF KeepRefused
<1>3. broken \subseteq broken' /\ broken' \subseteq broken \cup {"uncompensated"}
  BY DEF KeepRefused
<1>4. SettingsOK'
  BY <1>1, <1>2, <1>3, ChangeTyped DEF SettingsOK, RunValue
<1>5. ASSUME Sound(old) PROVE Settled'
  <2>1. FileIs /\ GoodIs /\ ToldIs
    BY <1>1, <1>5 DEF Sound
  <2>2. RunIs'
    BY <1>1, <1>2 DEF RunIs, RunValue, On
  <2>3. FileIs' /\ GoodIs' /\ ToldIs'
    BY <1>1, <1>3, <2>1 DEF FileIs, GoodIs, ToldIs
  <2>. QED BY <1>1, <2>2, <2>3 DEF Settled
<1>. QED BY <1>1, <1>3, <1>4, <1>5, CallEnds

LEMMA KeepStep ==
    ASSUME ChangeInv, NEW u \in Changers, KeepStartup(u)
    PROVE  ChangeInv'
<1> DEFINE old == change[u]
           v == DefaultsOf(old.resets)
<1>1. PICK c : c = IF old.resets # {} /\ Acceptable(Merged(stored, v)) THEN Writes(v, old.resets) ELSE NoCall
  OBVIOUS
<1>2. /\ Goes(u, c) /\ stored' = [stored EXCEPT !.startup = old.on] /\ ~ At(u, "idle") /\ old.at = "keep"
      /\ UNCHANGED <<capFile, run, watchedWith, resetOk, broken>>
  BY <1>1 DEF KeepStartup, At
<1>3. old.on \in {0, On} /\ old.on \in 0..2 /\ old.resets \in SUBSET Paths /\ v \in Values
  BY ChangeTyped DEF ChangeRecord, Values, On
<1>4. /\ stored' \in [Paths -> 0..2] /\ stored'.startup = old.on
      /\ \A p \in Paths \ {"startup"} : stored'[p] = stored[p]
  BY <1>2, <1>3, ChangeTyped, PathsAre DEF SettingsOK
<1>5. SettingsOK'
  BY <1>2, <1>3, <1>4, ChangeTyped DEF SettingsOK
<1>6. ASSUME Sound(old) PROVE Settled' /\ ~ resetOk' /\ (old.resets = Paths => stored'.startup = 0)
  <2>1. /\ FileIs /\ GoodIs /\ ToldIs /\ run = RunValue(old.on) /\ ~ resetOk
        /\ old.resets = Paths => old.on = 0
    BY <1>2, <1>6 DEF Sound
  <2>2. RunIs'
    BY <1>2, <1>3, <1>4, <2>1 DEF RunIs, RunValue, On
  <2>3. FileIs' /\ GoodIs' /\ ToldIs'
    BY <1>2, <1>4, <2>1, PathsAre DEF FileIs, GoodIs, ToldIs, Acceptable
  <2>. QED BY <1>2, <1>4, <2>1, <2>2, <2>3 DEF Settled
<1>7. CASE c = NoCall
  BY <1>2, <1>5, <1>6, <1>7, CallEnds
<1>8. CASE c = Writes(v, old.resets) /\ Acceptable(Merged(stored, v))
  <2>1. c \in ChangeRecord /\ c.todo = DOMAIN c.values /\ (c.at = "patch" => "fps" \in DOMAIN c.values)
        /\ c.at # "idle"
    BY <1>3, <1>8, WritesRecord
  <2>2. Acceptable(Merged(stored', v))
    BY <1>4, <1>8, PathsAre DEF Acceptable, Merged
  <2>3. Sound(old) /\ change'[u] = c => Sound(change[u])'
    BY <1>3, <1>6, <1>8, <2>2, SoundWrites DEF Settled
  <2>. QED BY <1>2, <1>5, <2>1, <2>3, CallGoesOn
<1>. QED BY <1>1, <1>7, <1>8

-----------------------------------------------------------------------------
LEMMA ChangeStep == ChangeInv /\ [ChangeNext]_changeVars => ChangeInv'
<1> SUFFICES ASSUME ChangeInv, [ChangeNext]_changeVars PROVE ChangeInv'
  OBVIOUS
<1>1. CASE ChangeNext
  <2>1. PICK u \in Changers :
          \/ \E values \in Updates : UpdateSettings(u, values)
          \/ PatchFile(u) \/ PatchRefused(u)
          \/ \E path \in Paths : SetSetting(u, path)
          \/ SetSettingRefused(u) \/ PruneRefused(u) \/ Told(u)
          \/ ResetSettings(u, Paths) \/ ResetSettings(u, {"watch"})
          \/ DeleteExtra(u) \/ DeleteRefused(u)
          \/ \E on \in {0, On} : SetWindowsStartup(u, on)
          \/ Register(u) \/ RegisterRefused(u) \/ KeepStartup(u) \/ KeepRefused(u)
    BY <1>1 DEF ChangeNext
  <2>. QED BY <2>1, UpdateStep, PatchStep, RefusedStep, SetStep, SetRefusedStep, PruneRefusedStep, ToldStep,
              ResetStep, DeleteStep, StartupStep, RegisterStep, RegisterRefusedStep, KeepStep, KeepRefusedStep
<1>2. CASE UNCHANGED changeVars
  BY <1>2 DEF changeVars, ChangeInv, SettingsOK, ChangesOK, InStep, OnlyCall, Sound, Writing, Settled,
              FileIs, GoodIs, RunIs, ToldIs, At, Quiet
<1>. QED BY <1>1, <1>2

LEMMA ChangeInvariant == ChangeSpec => []ChangeInv
<1>. QED BY ChangeBegins, ChangeStep, PTL DEF ChangeSpec

LEMMA SettingsAreInStep == ChangeInv => SettingsAgree
BY DEF ChangeInv, InStep, Settled, FileIs, GoodIs, RunIs, ToldIs, SettingsAgree, FileFollows,
       StoredIsAcceptable, StartupFollows, MonitorFollows, ResetIsWhole, Except

\* However calls that change settings follow one another, and whichever of their writes are
\* refused, the file Roblox reads, the Run key of Windows, the monitor and the two memory
\* thresholds agree with what is stored; a reset that came to its end has reset everything.
\* (Calls that overlap are outside, and so are the refusals that leave a half behind.)
THEOREM SettingsFollow == ChangeSpec => []SettingsAgree
<1>. QED BY ChangeInvariant, SettingsAreInStep, PTL

-----------------------------------------------------------------------------
\* The user's word about the settings and about the relaunches, in one run: the two parts
\* move by themselves.
THEOREM UserObeyed == DecisionSpec => []UserIsObeyed
<1>1. DecisionInit => RelaunchInit /\ ChangeInit
  BY DEF DecisionInit
<1>2. [DecisionNext]_decisionVars => [RelaunchNext]_relaunchVars /\ [ChangeNext]_changeVars
  BY DEF DecisionNext, decisionVars
<1>3. RelaunchInv => ServersAreGivenUp /\ OnlyWhatWasArmed
  BY DEF RelaunchInv, ReturnsFit, DueFits, PolicyIsTheUsers, ServersAreGivenUp, OnlyWhatWasArmed
<1>4. RelaunchInv /\ ChangeInv => UserIsObeyed
  BY <1>3, SettingsAreInStep DEF UserIsObeyed
<1>. QED BY <1>1, <1>2, <1>4, RelaunchInvariant, ChangeInvariant, PTL DEF DecisionSpec, RelaunchSpec, ChangeSpec

-----------------------------------------------------------------------------
(* The registry of servers.  What follows does not need the assumptions     *)
(* about launches.                                                          *)

HIDE LaunchAssumption DEF LaunchAssumption

VisitRow == [job : ServerJobs, players : 0..Room, joins : Nat, failures : Nat, seen : Nat]
OneEachJob(rows) == \A i, j \in DOMAIN rows : i # j => rows[i].job # rows[j].job
Histories == {rows \in Seq(VisitRow) : OneEachJob(rows) /\ Len(rows) <= MaxHistory}
NoneTwice(rows) == \A i, j \in DOMAIN rows : i # j => rows[i] # rows[j]
Blacklists == {rows \in Seq(ServerJobs) : NoneTwice(rows) /\ Len(rows) <= MaxBlacklist}

VisitorType ==
    [at : {"idle", "save"}, what : {"visit", "ban", "unban"}, job : ServerJobs \cup {NoServer},
     failed : BOOLEAN, players : 0..Room, seen : Nat, rows : Histories \cup Blacklists, of : {0}]

\* No row tells of more than happened.
NotMore(rows) ==
    \A i \in DOMAIN rows : /\ rows[i].joins <= happened[rows[i].job].joins
                           /\ rows[i].failures <= happened[rows[i].job].failures
\* What a call holds between its read and its write.
CallHolds(v) ==
    v.at = "save" =>
        /\ v.job \in ServerJobs
        /\ v.what = "visit" => v.rows \in Histories /\ NotMore(v.rows)
        /\ v.what # "visit" => v.rows \in Blacklists
\* Nothing got lost: each server has a row that tells of all that happened.
AllTold ==
    /\ \A i \in DOMAIN visited : /\ visited[i].joins = happened[visited[i].job].joins
                                 /\ visited[i].failures = happened[visited[i].job].failures
    /\ \A job \in ServerJobs : ~ Known(visited, job) => happened[job].joins = 0 /\ happened[job].failures = 0

RegistryInv ==
    /\ visited \in Histories /\ blacklist \in Blacklists
    /\ visitor \in [Visitors -> VisitorType] /\ \A u \in Visitors : CallHolds(visitor[u])
    /\ visits \in Nat /\ unread \in Nat /\ lost \in BOOLEAN
    /\ happened \in [ServerJobs -> [joins : Nat, failures : Nat]]
    /\ NotMore(visited) /\ (~ lost => AllTold)

LEMMA NoRows == <<>> \in Histories /\ <<>> \in Blacklists /\ NotMore(<<>>)
BY RegistryAssumption DEF RegistryAssumption, Histories, Blacklists, OneEachJob, NoneTwice, NotMore

LEMMA RegistryBegins == RegistryInit => RegistryInv
<1>. SUFFICES ASSUME RegistryInit PROVE RegistryInv
  OBVIOUS
<1>1. IdleVisitor \in VisitorType /\ CallHolds(IdleVisitor)
  BY NoRows DEF IdleVisitor, VisitorType, CallHolds, Room
<1>2. AllTold
  BY DEF AllTold, RegistryInit
<1>. QED BY <1>1, <1>2, NoRows DEF RegistryInit, RegistryInv

\* The row of a visit goes in front, and the others follow.
VisitOf(rows, visit) ==
    Record(visit.job, Players(rows, visit), Joined(rows, visit), Failed(rows, visit), visit.seen)
Folded(new, rows, visit) ==
    /\ new \in Histories /\ new # <<>> /\ new[1] = VisitOf(rows, visit)
    /\ \A i \in DOMAIN new : i # 1 => \E j \in DOMAIN rows : rows[j].job # visit.job /\ new[i] = rows[j]
    /\ Known(rows, visit.job) \/ Len(rows) < MaxHistory =>
           \A j \in DOMAIN rows : rows[j].job # visit.job => \E i \in DOMAIN new : new[i] = rows[j]

LEMMA VisitIsARow ==
    ASSUME NEW rows \in Histories, NEW visit \in VisitorType, visit.job \in ServerJobs
    PROVE  VisitOf(rows, visit) \in VisitRow
<1>1. Known(rows, visit.job) => RecordOf(rows, visit.job) \in VisitRow
  <2>1. ASSUME Known(rows, visit.job) PROVE \E i \in DOMAIN rows : rows[i].job = visit.job
    BY <2>1 DEF Known
  <2>. QED BY <2>1 DEF RecordOf, Histories
<1>2. /\ Players(rows, visit) \in 0..Room /\ Joined(rows, visit) \in Nat /\ Failed(rows, visit) \in Nat
  BY <1>1 DEF Players, Joined, Failed, VisitRow, VisitorType
<1>. QED BY <1>2 DEF VisitOf, Record, VisitRow, VisitorType

LEMMA VisitFolds ==
    ASSUME NEW rows \in Histories, NEW visit \in VisitorType, visit.job \in ServerJobs
    PROVE  Folded(RecordVisit(rows, visit), rows, visit)
<1>. DEFINE S == {i \in DOMAIN rows : rows[i].job # visit.job}
            others == Others(rows, visit.job)
            first == VisitOf(rows, visit)
            all == <<first>> \o others
            new == RecordVisit(rows, visit)
<1>0. rows \in Seq(VisitRow) /\ Len(rows) \in Nat /\ Len(rows) <= MaxHistory /\ DOMAIN rows = 1..Len(rows) /\ MaxHistory \in Nat \ {0}
  BY RegistryAssumption DEF Histories, RegistryAssumption
<1>1. first \in VisitRow /\ first.job = visit.job
  BY VisitIsARow DEF VisitOf, Record
<1>2. others = Taken(rows, S)
  BY DEF Others
<1>3. /\ others \in Seq(VisitRow) /\ Len(others) = Cardinality(S) /\ Len(others) <= Len(rows)
      /\ TakenFrom(others, rows, S)
  <2>1. S \subseteq DOMAIN rows
    OBVIOUS
  <2>. HIDE DEF S, others
  <2>. QED BY <1>0, <1>2, <2>1, TakenFits
<1>4. PICK p : TakenBy(p, others, rows, S)
  BY <1>3 DEF TakenFrom
<1>. HIDE DEF others, first
<1>5. /\ all \in Seq(VisitRow) /\ Len(all) = Len(others) + 1 /\ all[1] = first
      /\ \A k \in 2..Len(all) : k - 1 \in DOMAIN others /\ all[k] = others[k - 1]
      /\ Len(others) \in Nat
  <2>1. Len(others) \in Nat /\ DOMAIN others = 1..Len(others)
    BY <1>3
  <2>2. <<first>> \in Seq(VisitRow) /\ Len(<<first>>) = 1 /\ <<first>>[1] = first
    BY <1>1
  <2>3. all \in Seq(VisitRow) /\ Len(all) = Len(others) + 1
    BY <1>3, <2>1, <2>2
  <2>4. all[1] = first
    BY <1>3, <2>1, <2>2
  <2>5. ASSUME NEW k \in 2..Len(all) PROVE k - 1 \in DOMAIN others /\ all[k] = others[k - 1]
    <3>1. k \in 2..(Len(others) + 1)
      BY <2>3
    <3>2. k - 1 \in 1..Len(others)
      BY <2>1, <3>1
    <3>. QED BY <1>3, <2>1, <2>2, <3>1, <3>2
  <2>. HIDE DEF all
  <2>. QED BY <2>1, <2>3, <2>4, <2>5
<1>6. \A k \in 2..Len(all) : p[k - 1] \in DOMAIN rows /\ rows[p[k - 1]].job # visit.job /\ all[k] = rows[p[k - 1]]
  BY <1>4, <1>5 DEF TakenBy
<1>7. OneEachJob(all)
  <2>1. ASSUME NEW k \in 2..Len(all), NEW m \in 2..Len(all), k < m PROVE p[k - 1] # p[m - 1]
    <3>1. k - 1 \in DOMAIN others /\ m - 1 \in DOMAIN others /\ k - 1 < m - 1
      BY <1>5, <2>1
    <3>2. p[k - 1] < p[m - 1] /\ p[k - 1] \in Nat /\ p[m - 1] \in Nat
      BY <1>0, <1>4, <3>1 DEF TakenBy
    <3>. QED BY <3>2
  <2>2. \A i, j \in DOMAIN rows : i # j => rows[i].job # rows[j].job
    BY DEF Histories, OneEachJob
  <2>3. \A k, m \in 2..Len(all) : k < m => all[k].job # all[m].job
    BY <1>6, <2>1, <2>2
  <2>4. \A m \in 2..Len(all) : all[1].job # all[m].job
    BY <1>1, <1>5, <1>6
  <2>. HIDE DEF all
  <2>5. ASSUME NEW k \in 1..Len(all), NEW m \in 1..Len(all), k < m PROVE all[k].job # all[m].job
    <3>1. m \in 2..Len(all) /\ (k = 1 \/ k \in 2..Len(all))
      BY <1>5, <2>5
    <3>. QED BY <2>3, <2>4, <2>5, <3>1
  <2>6. DOMAIN all = 1..Len(all)
    BY <1>5
  <2>. QED BY <1>5, <2>5, <2>6 DEF OneEachJob
<1>8. new = SubSeq(all, 1, IF Len(all) <= MaxHistory THEN Len(all) ELSE MaxHistory)
  BY DEF RecordVisit, Shortened, VisitOf, first, others
<1>. HIDE DEF all, new
<1>9. /\ new \in Seq(VisitRow) /\ Len(new) = (IF Len(all) <= MaxHistory THEN Len(all) ELSE MaxHistory)
      /\ DOMAIN new = 1..Len(new) /\ \A k \in DOMAIN new : k \in DOMAIN all /\ new[k] = all[k]
  BY <1>0, <1>5, <1>8
<1>10. new \in Histories
  BY <1>0, <1>5, <1>7, <1>9 DEF Histories, OneEachJob
<1>11. new # <<>> /\ new[1] = first
  BY <1>0, <1>5, <1>9
<1>12. \A i \in DOMAIN new : i # 1 => \E j \in DOMAIN rows : rows[j].job # visit.job /\ new[i] = rows[j]
  <2>. SUFFICES ASSUME NEW i \in DOMAIN new, i # 1 
                PROVE \E j \in DOMAIN rows : rows[j].job # visit.job /\ new[i] = rows[j]
    OBVIOUS
  <2>1. i \in 2..Len(all) /\ new[i] = all[i]
    BY <1>0, <1>5, <1>9
  <2>. QED BY <1>6, <2>1
<1>13. ASSUME Known(rows, visit.job) \/ Len(rows) < MaxHistory, NEW j \in DOMAIN rows, rows[j].job # visit.job
       PROVE  \E i \in DOMAIN new : new[i] = rows[j]
  <2>1. Len(all) <= MaxHistory
    <3>1. CASE Len(rows) < MaxHistory
      BY <1>0, <1>3, <1>5, <3>1
    <3>2. CASE Known(rows, visit.job)
      <4>1. S \subseteq DOMAIN rows /\ S # DOMAIN rows
        BY <3>2 DEF Known
      <4>2. IsFiniteSet(DOMAIN rows) /\ Cardinality(DOMAIN rows) = Len(rows)
        <5>1. IsFiniteSet(1..Len(rows)) /\ Cardinality(1..Len(rows)) = Len(rows)
          BY <1>0, UpTo
        <5>. QED BY <1>0, <5>1
      <4>. HIDE DEF S
      <4>3. Cardinality(S) # Len(rows)
        BY <4>1, <4>2, FS_Subset
      <4>. QED BY <1>0, <1>3, <1>5, <4>3
    <3>. QED BY <1>13, <3>1, <3>2
  <2>2. PICK k \in DOMAIN others : p[k] = j
    BY <1>4, <1>13 DEF TakenBy
  <2>3. others[k] = rows[j]
    BY <1>4, <2>2 DEF TakenBy
  <2>4. k + 1 \in 2..Len(all) /\ k = (k + 1) - 1
    BY <1>3, <1>5, <2>2
  <2>5. all[k + 1] = rows[j]
    BY <1>5, <2>3, <2>4
  <2>6. k + 1 \in DOMAIN new
    BY <1>5, <1>9, <2>1, <2>4
  <2>. QED BY <1>9, <2>5, <2>6
<1>14. Folded(new, rows, visit)
  BY <1>10, <1>11, <1>12, <1>13 DEF Folded, first
<1>. QED BY <1>14 DEF new

\* What is taken of a blacklist is one.
LEMMA BlacklistTaken ==
    ASSUME NEW rows \in Blacklists, NEW job
    PROVE  /\ BlacklistRemove(rows, job) \in Blacklists
           /\ \A i \in DOMAIN BlacklistRemove(rows, job) : BlacklistRemove(rows, job)[i] # job
<1>. DEFINE S == {i \in DOMAIN rows : rows[i] # job}
            taken == BlacklistRemove(rows, job)
<1>0. rows \in Seq(ServerJobs) /\ Len(rows) \in Nat /\ Len(rows) <= MaxBlacklist /\ DOMAIN rows = 1..Len(rows)
      /\ MaxBlacklist \in Nat /\ S \subseteq DOMAIN rows
  BY RegistryAssumption DEF Blacklists, RegistryAssumption
<1>1. taken = Taken(rows, S)
  BY DEF BlacklistRemove
<1>2. /\ taken \in Seq(ServerJobs) /\ Len(taken) <= Len(rows)
      /\ TakenFrom(taken, rows, S)
  <2>. HIDE DEF S, taken
  <2>. QED BY <1>0, <1>1, TakenFits
<1>3. PICK p : TakenBy(p, taken, rows, S)
  BY <1>2 DEF TakenFrom
<1>. HIDE DEF taken
<1>4. Len(taken) \in Nat /\ DOMAIN taken = 1..Len(taken)
  BY <1>2
<1>5. \A k \in DOMAIN taken : p[k] \in DOMAIN rows /\ taken[k] = rows[p[k]] /\ taken[k] # job
  BY <1>3 DEF TakenBy
<1>6. \A k, m \in DOMAIN taken : k < m => taken[k] # taken[m]
  <2>. SUFFICES ASSUME NEW k \in DOMAIN taken, NEW m \in DOMAIN taken, k < m PROVE taken[k] # taken[m]
    OBVIOUS
  <2>1. p[k] < p[m] /\ p[k] \in Nat /\ p[m] \in Nat
    BY <1>0, <1>3 DEF TakenBy
  <2>2. p[k] # p[m]
    BY <2>1
  <2>. QED BY <1>5, <2>2 DEF Blacklists, NoneTwice
<1>7. NoneTwice(taken)
  BY <1>4, <1>6 DEF NoneTwice
<1>8. taken \in Blacklists
  BY <1>0, <1>2, <1>4, <1>7 DEF Blacklists
<1>. QED BY <1>5, <1>8 DEF taken

LEMMA BlacklistAdded ==
    ASSUME NEW rows \in Blacklists, NEW job \in ServerJobs PROVE BlacklistAdd(rows, job) \in Blacklists
<1>. DEFINE others == BlacklistRemove(rows, job)
            all == <<job>> \o others
<1>0. MaxBlacklist \in Nat
  BY RegistryAssumption DEF RegistryAssumption
<1>1. others \in Blacklists /\ \A i \in DOMAIN others : others[i] # job
  BY BlacklistTaken
<1>. HIDE DEF others
<1>2. /\ others \in Seq(ServerJobs) /\ Len(others) \in Nat /\ DOMAIN others = 1..Len(others) /\ NoneTwice(others)
  BY <1>1 DEF Blacklists
<1>3. all \in Seq(ServerJobs) /\ Len(all) = Len(others) + 1 /\ all[1] = job /\ DOMAIN all = 1..Len(all)
  BY <1>2
<1>4. ASSUME NEW k \in DOMAIN all, k # 1 PROVE k - 1 \in DOMAIN others /\ all[k] = others[k - 1]
  <2>1. k \in 2..(Len(others) + 1)
    BY <1>2, <1>3, <1>4
  <2>2. k - 1 \in 1..Len(others)
    BY <1>2, <2>1
  <2>. QED BY <1>2, <2>1, <2>2
<1>. HIDE DEF all
<1>5. ASSUME NEW i \in DOMAIN all, NEW j \in DOMAIN all, i # j PROVE all[i] # all[j]
  <2>1. CASE i = 1
    BY <1>1, <1>3, <1>4, <1>5, <2>1
  <2>2. CASE j = 1
    BY <1>1, <1>3, <1>4, <1>5, <2>2
  <2>3. CASE i # 1 /\ j # 1
    <3>1. i \in Nat /\ j \in Nat /\ i - 1 # j - 1
      BY <1>2, <1>3, <1>5
    <3>. QED BY <1>2, <1>4, <2>3, <3>1 DEF NoneTwice
  <2>. QED BY <2>1, <2>2, <2>3
<1>6. NoneTwice(all)
  BY <1>5 DEF NoneTwice
<1>7. Len(others) < MaxBlacklist => all \in Blacklists
  BY <1>0, <1>2, <1>3, <1>6 DEF Blacklists
<1>. QED BY <1>0, <1>2, <1>7 DEF BlacklistAdd, others, all

LEMMA LoadStep ==
    ASSUME RegistryInv, NEW u \in Visitors, NEW job \in ServerJobs,
           \/ \E failed \in BOOLEAN, players \in 0..Room : LoadHistory(u, job, failed, players)
           \/ \E ban \in BOOLEAN : LoadBlacklist(u, job, ban)
    PROVE  RegistryInv'
<1>. USE DEF RegistryInv
<1>0. IdleVisitor \in VisitorType /\ IdleVisitor.what = "visit"
  BY NoRows DEF IdleVisitor, VisitorType, Room
<1>1. /\ visits' = visits + 1 /\ unread' \in Nat
      /\ UNCHANGED <<visited, blacklist, happened, lost>>
  <2>1. ASSUME NEW new, NEW now, Loads(u, new, now) PROVE visits' = visits + 1 /\ unread' \in Nat
    BY <2>1 DEF Loads
  <2>. QED BY <2>1 DEF LoadHistory, LoadBlacklist
<1>2. PICK v : visitor' = [visitor EXCEPT ![u] = v] /\ v \in VisitorType /\ CallHolds(v)
  <2>1. CASE \E failed \in BOOLEAN, players \in 0..Room : LoadHistory(u, job, failed, players)
    <3>1. PICK failed \in BOOLEAN, players \in 0..Room : LoadHistory(u, job, failed, players)
      BY <2>1
    <3>2. PICK rows \in {visited, <<>>} :
            visitor' = [visitor EXCEPT ![u] = [[IdleVisitor EXCEPT !.at = "save", !.job = job, !.failed = failed,
                                                 !.players = players, !.seen = visits + 1] EXCEPT !.rows = rows]]
      BY <3>1 DEF LoadHistory, Loads
    <3>3. rows \in Histories /\ NotMore(rows)
      BY NoRows
    <3>4. PICK w : w = [IdleVisitor EXCEPT !.at = "save", !.job = job, !.failed = failed,
                                           !.players = players, !.seen = visits + 1]
      OBVIOUS
    <3>5. w \in VisitorType /\ w.at = "save" /\ w.job = job /\ w.what = "visit"
      <4>1. visits + 1 \in Nat
        OBVIOUS
      <4>. QED BY <1>0, <3>4, <4>1 DEF VisitorType
    <3>6. PICK v : v = [w EXCEPT !.rows = rows]
      OBVIOUS
    <3>8. visitor' = [visitor EXCEPT ![u] = v]
      BY <3>2, <3>4, <3>6
    <3>9. v \in VisitorType /\ v.at = "save" /\ v.job = job /\ v.what = "visit" /\ v.rows = rows
      BY <3>3, <3>5, <3>6 DEF VisitorType
    <3>10. CallHolds(v)
      BY <3>3, <3>9 DEF CallHolds
    <3>. QED BY <3>8, <3>9, <3>10
  <2>2. CASE \E ban \in BOOLEAN : LoadBlacklist(u, job, ban)
    <3>1. PICK ban \in BOOLEAN : LoadBlacklist(u, job, ban)
      BY <2>2
    <3>2. PICK rows \in {blacklist, <<>>} :
            visitor' = [visitor EXCEPT ![u] = [[IdleVisitor EXCEPT !.at = "save", !.what = IF ban THEN "ban" ELSE "unban",
                                                 !.job = job] EXCEPT !.rows = rows]]
      BY <3>1 DEF LoadBlacklist, Loads
    <3>3. rows \in Blacklists
      BY NoRows
    <3>4. PICK v : v = [[IdleVisitor EXCEPT !.at = "save", !.what = IF ban THEN "ban" ELSE "unban", !.job = job]
                           EXCEPT !.rows = rows]
      OBVIOUS
    <3>5. visitor' = [visitor EXCEPT ![u] = v]
      BY <3>2, <3>4
    <3>6. v \in VisitorType /\ v.at = "save" /\ v.job = job /\ v.what # "visit" /\ v.rows = rows
      BY <1>0, <3>3, <3>4 DEF VisitorType
    <3>7. CallHolds(v)
      BY <3>3, <3>6 DEF CallHolds
    <3>. QED BY <3>5, <3>6, <3>7
  <2>. QED BY <2>1, <2>2
<1>3. visitor' \in [Visitors -> VisitorType]
  BY <1>2
<1>4. \A w \in Visitors : CallHolds(visitor[w])'
  BY <1>1, <1>2 DEF CallHolds, NotMore
<1>5. NotMore(visited)' /\ (~ lost' => AllTold')
  BY <1>1 DEF NotMore, AllTold, Known
<1>. QED BY <1>1, <1>3, <1>4, <1>5

LEMMA BlacklistStep ==
    ASSUME RegistryInv, NEW u \in Visitors, SaveBlacklist(u) \/ SaveRefused(u)
    PROVE  RegistryInv'
<1>. USE DEF RegistryInv
<1>1. /\ visitor' = [visitor EXCEPT ![u] = IdleVisitor] /\ UNCHANGED <<visited, visits, unread, happened, lost>>
      /\ visitor[u].at = "save"
  BY DEF SaveBlacklist, SaveRefused
<1>2. blacklist' \in Blacklists
  <2>1. CASE SaveBlacklist(u)
    <3>1. visitor[u].rows \in Blacklists /\ visitor[u].job \in ServerJobs
      BY <1>1, <2>1 DEF SaveBlacklist, CallHolds
    <3>. QED BY <2>1, <3>1, BlacklistAdded, BlacklistTaken DEF SaveBlacklist
  <2>2. CASE SaveRefused(u)
    BY <2>2 DEF SaveRefused
  <2>. QED BY <2>1, <2>2
<1>3. IdleVisitor \in VisitorType /\ IdleVisitor.at = "idle"
  BY NoRows DEF IdleVisitor, VisitorType, Room
<1>4. visitor' \in [Visitors -> VisitorType]
  BY <1>1, <1>3
<1>5. \A w \in Visitors : CallHolds(visitor[w])'
  BY <1>1, <1>3 DEF CallHolds, NotMore
<1>6. NotMore(visited)' /\ (~ lost' => AllTold')
  BY <1>1 DEF NotMore, AllTold, Known
<1>. QED BY <1>1, <1>2, <1>4, <1>5, <1>6

LEMMA HistoryStep ==
    ASSUME RegistryInv, NEW u \in Visitors, SaveHistory(u)
    PROVE  RegistryInv'
<1>. USE DEF RegistryInv
<1>. DEFINE v == visitor[u]
            job == visitor[u].job
            rows == visitor[u].rows
            front == VisitOf(rows, v)
<1>0. v \in VisitorType /\ v.at = "save" /\ v.what = "visit"
  BY DEF SaveHistory
<1>1. job \in ServerJobs /\ rows \in Histories /\ NotMore(rows)
  BY <1>0 DEF CallHolds
<1>2. /\ visited' = RecordVisit(rows, v)
      /\ lost' = (lost \/ rows # visited \/ (Len(visited) = MaxHistory /\ ~ Known(visited, job)))
      /\ happened' = [happened EXCEPT ![job].joins = @ + (IF v.failed THEN 0 ELSE 1),
                                      ![job].failures = @ + (IF v.failed THEN 1 ELSE 0)]
      /\ visitor' = [visitor EXCEPT ![u] = IdleVisitor]
      /\ UNCHANGED <<blacklist, visits, unread>>
  BY <1>1 DEF SaveHistory
<1>3. Folded(visited', rows, v) /\ front \in VisitRow
  BY <1>0, <1>1, <1>2, VisitFolds, VisitIsARow
<1>4. /\ front.job = job
      /\ front.joins = Joined(rows, v) /\ front.failures = Failed(rows, v)
  BY DEF VisitOf, Record
<1>5. /\ happened' \in [ServerJobs -> [joins : Nat, failures : Nat]]
      /\ happened'[job].joins = happened[job].joins + (IF v.failed THEN 0 ELSE 1)
      /\ happened'[job].failures = happened[job].failures + (IF v.failed THEN 1 ELSE 0)
      /\ \A other \in ServerJobs : other # job => happened'[other] = happened[other]
  <2>1. happened[job] \in [joins : Nat, failures : Nat]
    BY <1>1
  <2>0. PICK a \in Nat, b \in Nat : a = (IF v.failed THEN 0 ELSE 1) /\ b = (IF v.failed THEN 1 ELSE 0)
    OBVIOUS
  <2>2. PICK h : h = [[happened[job] EXCEPT !.joins = @ + a] EXCEPT !.failures = @ + b]
    OBVIOUS
  <2>3. h \in [joins : Nat, failures : Nat] /\ h.joins = happened[job].joins + (IF v.failed THEN 0 ELSE 1)
        /\ h.failures = happened[job].failures + (IF v.failed THEN 1 ELSE 0)
    <3>1. PICK told \in [joins : Nat, failures : Nat] : told = happened[job]
      BY <2>1
    <3>2. h = [joins |-> told.joins + a, failures |-> told.failures + b]
      BY <2>2, <3>1
    <3>3. told.joins \in Nat /\ told.failures \in Nat
      OBVIOUS
    <3>4. h \in [joins : Nat, failures : Nat] /\ h.joins = told.joins + a /\ h.failures = told.failures + b
      BY <2>0, <3>2, <3>3
    <3>. QED BY <2>0, <3>1, <3>4
  <2>4. happened' = [happened EXCEPT ![job] = h]
    <3>1. happened' \in [ServerJobs -> [joins : Nat, failures : Nat]]
      BY <1>1, <1>2, <2>1
    <3>2. happened'[job] = h
      BY <1>1, <1>2, <2>0, <2>1, <2>2
    <3>3. \A other \in ServerJobs : other # job => happened'[other] = happened[other]
      BY <1>1, <1>2
    <3>. QED BY <1>1, <3>1, <3>2, <3>3
  <2>. QED BY <1>1, <2>3, <2>4
<1>6. \A other \in ServerJobs : /\ happened[other].joins <= happened'[other].joins
                                /\ happened[other].failures <= happened'[other].failures
                                /\ {happened[other].joins, happened'[other].joins} \subseteq Nat
                                /\ {happened[other].failures, happened'[other].failures} \subseteq Nat
  BY <1>1, <1>5
<1>7. ASSUME Known(rows, job)
      PROVE  /\ RecordOf(rows, job) \in VisitRow
             /\ \E i \in DOMAIN rows : RecordOf(rows, job) = rows[i] /\ rows[i].job = job
  <2>1. PICK k : k = CHOOSE i \in DOMAIN rows : rows[i].job = job
    OBVIOUS
  <2>2. k \in DOMAIN rows /\ rows[k].job = job
    BY <1>7, <2>1 DEF Known
  <2>3. RecordOf(rows, job) = rows[k]
    BY <2>1 DEF RecordOf
  <2>. QED BY <1>1, <2>2, <2>3 DEF Histories
<1>. HIDE DEF v, job, rows, front
<1>8. front.joins <= happened'[job].joins /\ front.failures <= happened'[job].failures
  <2>1. CASE Known(rows, job)
    <3>1. RecordOf(rows, job).joins <= happened[job].joins /\ RecordOf(rows, job).failures <= happened[job].failures
      BY <1>1, <1>7, <2>1 DEF NotMore
    <3>2. RecordOf(rows, job).joins \in Nat /\ RecordOf(rows, job).failures \in Nat
      BY <1>7, <2>1 DEF VisitRow
    <3>. QED BY <1>1, <1>4, <1>5, <1>6, <2>1, <3>1, <3>2 DEF Joined, Failed, v, job
  <2>2. CASE ~ Known(rows, job)
    BY <1>1, <1>4, <1>5, <1>6, <2>2 DEF Joined, Failed, v, job
  <2>. QED BY <2>1, <2>2
<1>9. \A i \in DOMAIN visited' : \/ visited'[i] = front
                                 \/ \E j \in DOMAIN rows : rows[j].job # job /\ visited'[i] = rows[j]
  BY <1>3 DEF Folded, front, job, v
<1>10. \A j \in DOMAIN rows : rows[j] \in VisitRow
  BY <1>1 DEF Histories
<1>11. NotMore(visited)'
  <2>. SUFFICES ASSUME NEW i \in DOMAIN visited'
                PROVE  /\ visited'[i].joins <= happened'[visited'[i].job].joins
                       /\ visited'[i].failures <= happened'[visited'[i].job].failures
    BY DEF NotMore
  <2>1. CASE visited'[i] = front
    BY <1>4, <1>8, <2>1
  <2>2. CASE \E j \in DOMAIN rows : rows[j].job # job /\ visited'[i] = rows[j]
    <3>1. PICK j \in DOMAIN rows : rows[j].job # job /\ visited'[i] = rows[j]
      BY <2>2
    <3>2. rows[j].job \in ServerJobs /\ rows[j].joins \in Nat /\ rows[j].failures \in Nat
      BY <1>10 DEF VisitRow
    <3>3. rows[j].joins <= happened[rows[j].job].joins /\ rows[j].failures <= happened[rows[j].job].failures
      BY <1>1 DEF NotMore
    <3>. QED BY <1>5, <3>1, <3>2, <3>3
  <2>. QED BY <1>9, <2>1, <2>2
<1>12. ASSUME ~ lost' PROVE AllTold'
  <2>1. ~ lost /\ rows = visited /\ (Known(visited, job) \/ Len(visited) # MaxHistory)
    BY <1>2, <1>12
  <2>2. AllTold
    BY <2>1
  <2>3. \A j \in DOMAIN visited : visited[j].job # job => \E i \in DOMAIN visited' : visited'[i] = visited[j]
    <3>1. Known(visited, job) \/ Len(visited) < MaxHistory
      <4>1. Len(visited) \in Nat /\ Len(visited) <= MaxHistory /\ MaxHistory \in Nat
        BY RegistryAssumption DEF Histories, RegistryAssumption
      <4>. QED BY <2>1, <4>1
    <3>. QED BY <1>3, <2>1, <3>1 DEF Folded, job, v
  <2>4. front.joins = happened'[job].joins /\ front.failures = happened'[job].failures
    <3>1. CASE Known(rows, job)
      <4>1. RecordOf(rows, job).joins = happened[job].joins /\ RecordOf(rows, job).failures = happened[job].failures
        BY <1>7, <2>1, <2>2, <3>1 DEF AllTold
      <4>. QED BY <1>1, <1>4, <1>5, <1>6, <3>1, <4>1 DEF Joined, Failed, v, job
    <3>2. CASE ~ Known(rows, job)
      <4>1. happened[job].joins = 0 /\ happened[job].failures = 0
        BY <1>1, <2>1, <2>2, <3>2 DEF AllTold
      <4>. QED BY <1>1, <1>4, <1>5, <1>6, <3>2, <4>1 DEF Joined, Failed, v, job
    <3>. QED BY <3>1, <3>2
  <2>5. ASSUME NEW i \in DOMAIN visited'
        PROVE  /\ visited'[i].joins = happened'[visited'[i].job].joins
               /\ visited'[i].failures = happened'[visited'[i].job].failures
    <3>1. CASE visited'[i] = front
      BY <1>4, <2>4, <3>1
    <3>2. CASE \E j \in DOMAIN rows : rows[j].job # job /\ visited'[i] = rows[j]
      <4>1. PICK j \in DOMAIN rows : rows[j].job # job /\ visited'[i] = rows[j]
        BY <3>2
      <4>2. rows[j].job \in ServerJobs
        BY <1>10 DEF VisitRow
      <4>3. rows[j].joins = happened[rows[j].job].joins /\ rows[j].failures = happened[rows[j].job].failures
        BY <2>1, <2>2 DEF AllTold
      <4>. QED BY <1>5, <4>1, <4>2, <4>3
    <3>. QED BY <1>9, <3>1, <3>2
  <2>6. ASSUME NEW other \in ServerJobs, ~ Known(visited', other)
        PROVE  happened'[other].joins = 0 /\ happened'[other].failures = 0
    <3>1. 1 \in DOMAIN visited' /\ visited'[1] = front
      <4>1. visited' # <<>> /\ visited' \in Seq(VisitRow)
        BY <1>3 DEF Folded, Histories
      <4>. QED BY <1>3, <4>1 DEF Folded, front
    <3>2. other # job
      BY <1>4, <2>6, <3>1 DEF Known
    <3>3. ~ Known(visited, other)
      BY <2>3, <2>6, <3>2 DEF Known
    <3>. QED BY <1>5, <2>2, <3>2, <3>3 DEF AllTold
  <2>. QED BY <2>5, <2>6 DEF AllTold
<1>13. visited' \in Histories
  BY <1>3 DEF Folded
<1>14. IdleVisitor \in VisitorType /\ IdleVisitor.at = "idle"
  BY NoRows DEF IdleVisitor, VisitorType, Room
<1>15. visitor' \in [Visitors -> VisitorType]
  BY <1>2, <1>14
<1>16. ASSUME NEW w \in Visitors PROVE CallHolds(visitor[w])'
  <2>1. CASE w = u
    BY <1>2, <1>14, <2>1 DEF CallHolds
  <2>2. CASE w # u
    <3>1. visitor'[w] = visitor[w]
      BY <1>2, <2>2
    <3>2. ASSUME visitor[w].at = "save", visitor[w].what = "visit" PROVE NotMore(visitor[w].rows)'
      <4>1. visitor[w].rows \in Histories /\ NotMore(visitor[w].rows)
        BY <3>2 DEF CallHolds
      <4>2. \A i \in DOMAIN visitor[w].rows : visitor[w].rows[i] \in VisitRow
        BY <4>1 DEF Histories
      <4>3. ASSUME NEW i \in DOMAIN visitor[w].rows
            PROVE  /\ visitor[w].rows[i].joins <= happened'[visitor[w].rows[i].job].joins
                   /\ visitor[w].rows[i].failures <= happened'[visitor[w].rows[i].job].failures
        <5>1. PICK r \in VisitRow : r = visitor[w].rows[i]
          BY <4>2
        <5>2. r.joins <= happened[r.job].joins /\ r.failures <= happened[r.job].failures
          BY <4>1, <5>1 DEF NotMore
        <5>3. r.job \in ServerJobs /\ r.joins \in Nat /\ r.failures \in Nat
          BY DEF VisitRow
        <5>4. r.joins <= happened'[r.job].joins /\ r.failures <= happened'[r.job].failures
          BY <1>6, <5>2, <5>3
        <5>. QED BY <5>1, <5>4
      <4>. QED BY <3>1, <4>3 DEF NotMore
    <3>. QED BY <3>1, <3>2 DEF CallHolds
  <2>. QED BY <2>1, <2>2
<1>. QED BY <1>2, <1>5, <1>11, <1>12, <1>13, <1>15, <1>16

LEMMA RegistryStep == RegistryInv /\ [RegistryNext]_registryVars => RegistryInv'
<1>. SUFFICES ASSUME RegistryInv, [RegistryNext]_registryVars PROVE RegistryInv'
  OBVIOUS
<1>1. CASE RegistryNext
  BY <1>1, LoadStep, BlacklistStep, HistoryStep DEF RegistryNext
<1>2. CASE UNCHANGED registryVars
  BY <1>2 DEF registryVars, RegistryInv, CallHolds, NotMore, AllTold, Known
<1>. QED BY <1>1, <1>2

\* The order of preference is that of five numbers, one after the other.
FiveInts(r) == r \in [1..5 -> Int]
LEMMA BeforeIs ==
    ASSUME NEW r, NEW s, FiveInts(r), FiveInts(s)
    PROVE  Before(r, s) <=>
             \/ r[1] < s[1]
             \/ r[1] = s[1] /\ r[2] < s[2]
             \/ r[1] = s[1] /\ r[2] = s[2] /\ r[3] < s[3]
             \/ r[1] = s[1] /\ r[2] = s[2] /\ r[3] = s[3] /\ r[4] < s[4]
             \/ r[1] = s[1] /\ r[2] = s[2] /\ r[3] = s[3] /\ r[4] = s[4] /\ r[5] < s[5]
<1>1. DOMAIN r = {1, 2, 3, 4, 5}
  BY DEF FiveInts
<1>2. 1..(1 - 1) = {} /\ 1..(2 - 1) = {1} /\ 1..(3 - 1) = {1, 2} /\ 1..(4 - 1) = {1, 2, 3} /\ 1..(5 - 1) = {1, 2, 3, 4}
  OBVIOUS
<1>3. Before(r, s) <=> \E k \in {1, 2, 3, 4, 5} : r[k] < s[k] /\ \A m \in 1..(k - 1) : r[m] = s[m]
  BY <1>1 DEF Before
<1>. QED BY <1>2, <1>3

LEMMA BeforeIsAnOrder ==
    /\ \A r, s, t : FiveInts(r) /\ FiveInts(s) /\ FiveInts(t) /\ Before(r, s) /\ Before(s, t) => Before(r, t)
    /\ \A r, s, t : FiveInts(r) /\ FiveInts(s) /\ FiveInts(t) /\ Before(r, t) => Before(r, s) \/ Before(s, t)
    /\ \A r : FiveInts(r) => ~ Before(r, r)
<1>. SUFFICES ASSUME NEW r, NEW s, NEW t, FiveInts(r), FiveInts(s), FiveInts(t)
              PROVE  /\ Before(r, s) /\ Before(s, t) => Before(r, t)
                     /\ Before(r, t) => Before(r, s) \/ Before(s, t)
                     /\ ~ Before(r, r)
  OBVIOUS
<1>1. \A k \in 1..5 : r[k] \in Int /\ s[k] \in Int /\ t[k] \in Int
  BY DEF FiveInts
<1>2. Before(r, s) /\ Before(s, t) => Before(r, t)
  BY <1>1, BeforeIs
<1>3. Before(r, t) => Before(r, s) \/ Before(s, t)
  BY <1>1, BeforeIs
<1>4. ~ Before(r, r)
  BY <1>1, BeforeIs
<1>. QED BY <1>2, <1>3, <1>4

LEMMA RankIsFive == \A row_ \in VisitRow, now \in Nat : FiveInts(Rank(row_, now))
<1>. SUFFICES ASSUME NEW r \in VisitRow, NEW now \in Nat PROVE FiveInts(Rank(r, now))
  OBVIOUS
<1>1. r.failures \in Int /\ r.players \in Int /\ r.seen \in Int
  BY DEF VisitRow
<1>2. PICK a \in Int, b \in Int : Rank(r, now) = <<a, b, r.failures, r.players, 0 - r.seen>>
  BY DEF Rank
<1>. QED BY <1>1, <1>2 DEF FiveInts

LEMMA PreferredIsKeyed ==
    ASSUME NEW rows \in Seq(VisitRow), NEW now \in Nat
    PROVE  Keyed(Preferred(rows, now), 1..Len(rows))
<1>1. \A i \in 1..Len(rows) : FiveInts(Rank(rows[i], now))
  BY RankIsFive
<1>2. \A i, j \in 1..Len(rows) : <<i, j>> \in Preferred(rows, now) <=> Before(Rank(rows[i], now), Rank(rows[j], now))
  BY DEF Preferred
<1>. QED BY <1>1, <1>2, BeforeIsAnOrder DEF Keyed

LEMMA PickedIsBest == RegistryInv => PickIsBest
<1>. SUFFICES ASSUME RegistryInv PROVE PickIsBest
  OBVIOUS
<1>. DEFINE S == {i \in DOMAIN visited : Candidate(visited[i], Banned(blacklist))}
            rows == Taken(visited, S)
            before == Preferred(rows, visits)
            n == Len(rows)
            picked == PickServer(visited, Banned(blacklist), visits)
<1>0. visited \in Seq(VisitRow) /\ visits \in Nat /\ S \subseteq DOMAIN visited
  BY DEF RegistryInv, Histories
<1>1. /\ rows \in Seq(VisitRow) /\ n = Cardinality(S) /\ TakenFrom(rows, visited, S)
  <2>. HIDE DEF S
  <2>. QED BY <1>0, TakenFits
<1>2. PICK p : TakenBy(p, rows, visited, S)
  BY <1>1 DEF TakenFrom
<1>3. picked = IF rows = <<>> THEN NoServer ELSE Sorted(rows, before)[1].job
  BY DEF PickServer
<1>4. PickIsBest <=> IF S = {} THEN picked = NoServer
                     ELSE \E i \in S : /\ visited[i].job = picked
                                       /\ \A j \in S : ~ Before(Rank(visited[j], visits), Rank(visited[i], visits))
  BY DEF PickIsBest, Candidate
<1>. HIDE DEF rows, S, picked
<1>5. n \in Nat /\ DOMAIN rows = 1..n
  BY <1>1
<1>6. CASE S = {}
  <2>1. rows = <<>>
    <3>1. n = 0
      BY <1>1, <1>6, FS_EmptySet
    <3>. QED BY <1>1, <3>1
  <2>. QED BY <1>3, <1>4, <1>6, <2>1
<1>7. CASE S # {}
  <2>1. n # 0 /\ rows # <<>>
    <3>1. PICK i \in S : TRUE
      BY <1>7
    <3>2. \E k \in DOMAIN rows : p[k] = i
      BY <1>2, <3>1 DEF TakenBy
    <3>. QED BY <1>5, <3>2
  <2>2. Keyed(before, 1..n)
    BY <1>0, <1>1, PreferredIsKeyed
  <2>. HIDE DEF before
  <2>3. SortedAre(Sorted(rows, before), rows, n, before)
    BY <1>5, <2>2, SortedInOrder
  <2>4. PICK q : Shuffled(q, n, before) /\ Sorted(rows, before) = [k \in 1..n |-> rows[q[k]]]
    BY <2>3 DEF SortedAre
  <2>5. 1 \in 1..n /\ q[1] \in 1..n /\ Sorted(rows, before)[1] = rows[q[1]]
    BY <1>5, <2>1, <2>4 DEF Shuffled
  <2>6. ASSUME NEW k \in 1..n PROVE <<k, q[1]>> \notin before
    <3>1. PICK m \in 1..n : q[m] = k
      BY <2>4 DEF Shuffled
    <3>2. CASE m = 1
      BY <2>2, <2>5, <3>1, <3>2 DEF Keyed
    <3>3. CASE m # 1
      <4>1. 1 < m
        BY <3>3
      <4>. QED BY <2>4, <2>5, <3>1, <4>1 DEF Shuffled
    <3>. QED BY <3>2, <3>3
  <2>. DEFINE i == p[q[1]]
  <2>7. i \in S /\ rows[q[1]] = visited[i]
    BY <1>2, <1>5, <2>5 DEF TakenBy
  <2>8. visited[i].job = picked
    BY <1>3, <2>1, <2>5, <2>7
  <2>9. ASSUME NEW j \in S PROVE ~ Before(Rank(visited[j], visits), Rank(visited[i], visits))
    <3>1. PICK k \in DOMAIN rows : p[k] = j
      BY <1>2 DEF TakenBy
    <3>2. rows[k] = visited[j]
      BY <1>2, <3>1 DEF TakenBy
    <3>3. <<k, q[1]>> \notin before
      BY <1>5, <2>6, <3>1
    <3>4. ~ Before(Rank(rows[k], visits), Rank(rows[q[1]], visits))
      BY <1>5, <2>5, <3>1, <3>3 DEF Preferred, before
    <3>. QED BY <2>7, <3>2, <3>4
  <2>. QED BY <1>4, <1>7, <2>7, <2>8, <2>9
<1>. QED BY <1>6, <1>7

LEMMA RegistrySound == RegistryInv => RegistryIsSound /\ RegistryTypeOK
<1>. SUFFICES ASSUME RegistryInv PROVE RegistryIsSound /\ RegistryTypeOK
  OBVIOUS
<1>1. \A i \in DOMAIN visited : visited[i] \in VisitRow
  BY DEF RegistryInv, Histories
<1>2. RowsKeepShape
  BY DEF RegistryInv, Histories, Blacklists, OneEachJob, NoneTwice, RowsKeepShape, IsInjective
<1>3. VisitsAreCounted
  BY DEF RegistryInv, NotMore, AllTold, VisitsAreCounted
<1>4. RegistryTypeOK
  <2>1. Banned(blacklist) \subseteq ServerJobs
    BY DEF RegistryInv, Blacklists, Banned, ToSet
  <2>. QED BY <1>1, <2>1 DEF RegistryInv, VisitRow, VisitorType, RegistryTypeOK
<1>. QED BY <1>2, <1>3, <1>4, PickedIsBest DEF RegistryIsSound

-----------------------------------------------------------------------------
(* The smart launcher.                                                      *)

\* What a plan divides and multiplies.
LEMMA Division ==
    ASSUME NEW n \in Nat, NEW s \in Nat \ {0}
    PROVE  /\ n \div s \in Nat /\ n % s \in Nat /\ n % s < s
           /\ n = ((n \div s) * s) + (n % s)
OBVIOUS

LEMMA Waves ==
    ASSUME NEW m \in Nat, NEW n \in Nat, NEW s \in Nat \ {0}, m <= n
    PROVE  m \div s <= n \div s
<1>. DEFINE a == m \div s
            b == n \div s
<1>1. a \in Nat /\ b \in Nat /\ m >= a * s /\ n < b * s + s
  BY Division
<1>. HIDE DEF a, b
<1>2. SUFFICES ASSUME a >= b + 1 PROVE FALSE
  BY <1>1 DEF a, b
<1>3. a * s >= (b + 1) * s
  BY <1>1, <1>2
<1>4. (b + 1) * s = b * s + s
  BY <1>1
<1>. QED BY <1>1, <1>3, <1>4

\* Numbers that one divides alike: as many as the divisor, in a row.
BlockIs(w, s) ==
    /\ IsFiniteSet((w * s + 1)..(w * s + s)) /\ Cardinality((w * s + 1)..(w * s + s)) = s
    /\ \A m \in Nat : m \div s = w <=> w * s <= m /\ m < w * s + s
LEMMA Blocks == ASSUME NEW s \in Nat \ {0}, NEW w \in Nat PROVE BlockIs(w, s)
<1>0. w * s \in Nat
  OBVIOUS
<1>1. IsFiniteSet((w * s + 1)..(w * s + s)) /\ Cardinality((w * s + 1)..(w * s + s)) = s
  <2>1. PICK a \in Nat : a = w * s
    BY <1>0
  <2>2. a + 1 \in Int /\ a + s \in Int /\ ~ (a + 1 > a + s) /\ (a + s) - (a + 1) + 1 = s
    OBVIOUS
  <2>3. IsFiniteSet((a + 1)..(a + s)) /\ Cardinality((a + 1)..(a + s)) = s
    BY <2>2, FS_Interval
  <2>. QED BY <2>1, <2>3
<1>2. ASSUME NEW m \in Nat PROVE m \div s = w <=> w * s <= m /\ m < w * s + s
  <2>1. PICK q, r : q = m \div s /\ q \in Nat /\ r \in Nat /\ r < s /\ m = q * s + r
    <3>1. PICK q, r : q = m \div s /\ r = m % s
      OBVIOUS
    <3>2. q \in Nat /\ r \in Nat /\ r < s /\ m = (q * s) + r
      BY <3>1, Division
    <3>. QED BY <3>1, <3>2
  <2>2. q = w => w * s <= m /\ m < w * s + s
    BY <1>0, <2>1
  <2>3. ASSUME q < w PROVE ~ (w * s <= m)
    <3>1. (q + 1) * s <= w * s /\ (q + 1) * s = q * s + s
      BY <1>0, <2>1, <2>3
    <3>. QED BY <1>0, <2>1, <3>1
  <2>4. ASSUME q > w PROVE ~ (m < w * s + s)
    <3>1. (w + 1) * s <= q * s /\ (w + 1) * s = w * s + s
      BY <1>0, <2>1, <2>4
    <3>. QED BY <1>0, <2>1, <3>1
  <2>. QED BY <1>0, <2>1, <2>2, <2>3, <2>4
<1>. QED BY <1>1, <1>2 DEF BlockIs

Config == [size : WaveSizes, delay : {2}, skip : BOOLEAN, adaptive : BOOLEAN,
           watchedFps : {60}, macroFps : {20}, idleFps : {5},
           warn : {2}, critical : {3}, reserve : {2}, average : {1}]
StepRow == [id : Ids, wave : Nat, position : Nat, after : Nat]
SkipRow == [id : Ids, why : {"duplicate", "already_running", "over_limit"}]
PlanType == [steps : Seq(StepRow), skipped : Seq(SkipRow)]

StepAt(n, id, c) == [id |-> id, wave |-> n \div c.size, position |-> n % c.size, after |-> n * c.delay]
SkippedAs(new, plan, id) == \E why : new.skipped = Append(plan.skipped, [id |-> id, why |-> why])
GoesOn(new, plan, id, running, c) ==
    \/ /\ Seen(plan, id) \/ SkipsRunning(c, id, running) \/ Len(plan.steps) >= PlannedAccounts
       /\ new.steps = plan.steps /\ SkippedAs(new, plan, id)
    \/ /\ ~ Seen(plan, id) /\ ~ SkipsRunning(c, id, running) /\ Len(plan.steps) < PlannedAccounts
       /\ new.skipped = plan.skipped /\ new.steps = Append(plan.steps, StepAt(Len(plan.steps), id, c))

LEMMA PlanOneFits ==
    ASSUME NEW plan \in PlanType, NEW id \in Ids, NEW running, NEW c \in Config
    PROVE  /\ PlanOne(plan, id, running, c) \in PlanType
           /\ GoesOn(PlanOne(plan, id, running, c), plan, id, running, c)
<1>. USE DEF GoesOn, SkippedAs
<1>0. PlannedAccounts \in Nat /\ c.size \in Nat \ {0} /\ c.delay = 2 /\ Len(plan.steps) \in Nat
      /\ plan.steps \in Seq(StepRow) /\ plan.skipped \in Seq(SkipRow)
  <2>1. plan.steps \in Seq(StepRow) /\ plan.skipped \in Seq(SkipRow)
    BY DEF PlanType
  <2>2. c.size \in WaveSizes /\ c.delay = 2
    BY DEF Config
  <2>3. PlannedAccounts \in Nat /\ c.size \in Nat \ {0}
    BY <2>2, SmartLaunchAssumption DEF SmartLaunchAssumption
  <2>4. Len(plan.steps) \in Nat
    BY <2>1, LenProperties
  <2>. QED BY <2>1, <2>2, <2>3, <2>4
<1>1. ASSUME NEW why \in {"duplicate", "already_running", "over_limit"}
      PROVE  /\ Skip(plan, id, why) \in PlanType /\ Skip(plan, id, why).steps = plan.steps
             /\ Skip(plan, id, why).skipped = Append(plan.skipped, [id |-> id, why |-> why])
  <2>1. PICK e \in SkipRow : e = [id |-> id, why |-> why]
    BY <1>1 DEF SkipRow
  <2>2. Append(plan.skipped, e) \in Seq(SkipRow)
    BY <1>0
  <2>3. Skip(plan, id, why) = [plan EXCEPT !.skipped = Append(plan.skipped, e)]
    BY <2>1 DEF Skip
  <2>. QED BY <2>1, <2>2, <2>3 DEF PlanType
<1>2. PICK e \in StepRow : e = StepAt(Len(plan.steps), id, c)
  <2>1. Len(plan.steps) \div c.size \in Nat /\ Len(plan.steps) % c.size \in Nat /\ Len(plan.steps) * c.delay \in Nat
    <3>1. PICK m \in Nat, s \in Nat \ {0} : m = Len(plan.steps) /\ s = c.size
      BY <1>0
    <3>2. m \div s \in Nat /\ m % s \in Nat /\ m * 2 \in Nat
      BY Division
    <3>. QED BY <1>0, <3>1, <3>2
  <2>. QED BY <2>1 DEF StepRow, StepAt
<1>3. Step(plan, id, c) = [plan EXCEPT !.steps = Append(plan.steps, e)]
  <2>1. PICK m \in Nat, s \in Nat \ {0} : m = Len(plan.steps) /\ s = c.size
    BY <1>0
  <2>2. PICK a : a = ((m \div s) * s + (m % s)) * c.delay
    OBVIOUS
  <2>3. Step(plan, id, c) = [plan EXCEPT !.steps = Append(plan.steps,
                               [id |-> id, wave |-> m \div s, position |-> m % s, after |-> a])]
    BY <2>1, <2>2 DEF Step
  <2>4. a = m * c.delay
    <3>1. (m \div s) * s + (m % s) = m
      BY Division
    <3>. QED BY <2>2, <3>1
  <2>. QED BY <1>2, <2>1, <2>3, <2>4 DEF StepAt
<1>4. /\ Step(plan, id, c) \in PlanType /\ Step(plan, id, c).skipped = plan.skipped
      /\ Step(plan, id, c).steps = Append(plan.steps, e)
  <2>1. Append(plan.steps, e) \in Seq(StepRow)
    BY <1>0
  <2>. QED BY <1>3, <2>1 DEF PlanType
<1>5. CASE Seen(plan, id)
  BY <1>1, <1>5 DEF PlanOne
<1>6. CASE ~ Seen(plan, id) /\ SkipsRunning(c, id, running)
  BY <1>1, <1>6 DEF PlanOne
<1>7. CASE ~ Seen(plan, id) /\ ~ SkipsRunning(c, id, running) /\ Len(plan.steps) >= PlannedAccounts
  BY <1>1, <1>7 DEF PlanOne
<1>8. CASE ~ Seen(plan, id) /\ ~ SkipsRunning(c, id, running) /\ ~ (Len(plan.steps) >= PlannedAccounts)
  BY <1>0, <1>2, <1>4, <1>8 DEF PlanOne
<1>. QED BY <1>5, <1>6, <1>7, <1>8

\* The plan grows with the request.
Grows(g, request, running, c) ==
    /\ g \in [0..Len(request) -> PlanType] /\ g[0] = NoPlan
    /\ g[Len(request)] = PlanLaunches(request, running, c)
    /\ \A k \in 0..(Len(request) - 1) : g[k + 1] = PlanOne(g[k], request[k + 1], running, c)

LEMMA PlanGrows ==
    ASSUME NEW request \in Seq(Ids), NEW running, NEW c \in Config
    PROVE  \E g : Grows(g, request, running, c)
<1>. DEFINE n == Len(request)
            Op == [p \in PlanType \X (1..n) |-> PlanOne(p[1], request[p[2]], running, c)]
            Is(f) == f = [t \in SUBSET DOMAIN request |->
                            IF t = {} THEN NoPlan
                            ELSE PlanOne(f[t \ {Max(t)}], request[Max(t)], running, c)]
<1>1. n \in Nat /\ DOMAIN request = 1..n /\ NoPlan \in PlanType
  BY DEF NoPlan, PlanType
<1>2. Op \in [PlanType \X (1..n) -> PlanType]
  <2>1. \A p \in PlanType \X (1..n) : PlanOne(p[1], request[p[2]], running, c) \in PlanType
    <3>. SUFFICES ASSUME NEW p \in PlanType \X (1..n)
                  PROVE  PlanOne(p[1], request[p[2]], running, c) \in PlanType
      OBVIOUS
    <3>1. p[1] \in PlanType /\ request[p[2]] \in Ids
      BY <1>1
    <3>. QED BY <3>1, PlanOneFits
  <2>. QED BY <2>1
<1>3. \E f : Is(f)
  <2>. HIDE DEF Op
  <2>1. PICK f : IsLeftFold(f, n, PlanType, NoPlan, Op)
    BY <1>1, <1>2, LeftFoldIsThere
  <2>2. \A t \in SUBSET (1..n) : t # {} => Max(t) \in 1..n /\ f[t \ {Max(t)}] \in PlanType
    BY <1>1, <2>1, GreatestIsThere DEF IsLeftFold
  <2>3. Is(f)
    BY <1>1, <2>1, <2>2 DEF Op, IsLeftFold
  <2>. QED BY <2>3
<1>. DEFINE it == CHOOSE f : Is(f)
<1>4. PlanLaunches(request, running, c) = it[DOMAIN request]
  BY DEF PlanLaunches, FoldLeft, MapThenFoldSet
<1>5. Is(it)
  BY <1>3
<1>. HIDE DEF it
<1>6. Leftward(it, n, PlanType, NoPlan, Op)
  BY <1>1, <1>5, GreatestIsThere DEF Leftward
<1>. HIDE DEF Op
<1>7. PICK g : Rightward(g, it, n, PlanType, NoPlan, Op)
  BY <1>1, <1>2, <1>6, LeftToRight
<1>8. ASSUME NEW k \in 0..(n - 1) PROVE g[k + 1] = PlanOne(g[k], request[k + 1], running, c)
  <2>1. g[k + 1] = Op[<<g[k], k + 1>>] /\ g[k] \in PlanType /\ k + 1 \in 1..n
    BY <1>1, <1>7 DEF Rightward
  <2>. QED BY <2>1 DEF Op
<1>9. Grows(g, request, running, c)
  BY <1>1, <1>4, <1>7, <1>8 DEF Rightward, Grows
<1>. QED BY <1>9

\* Whom a plan launches, and when: the first ones of those who are wanted.
Smaller(m, n) == IF m <= n THEN m ELSE n
LaunchesThem(plan, n, ids, c) ==
    /\ Len(plan.steps) = Smaller(n, PlannedAccounts)
    /\ \A i \in 1..Len(plan.steps) : plan.steps[i] = StepAt(i - 1, ids[i], c)
WantedPlaces(request, running, c) ==
    {i \in DOMAIN request : FirstTime(request, i) /\ ~ (c.skip /\ request[i] \in running)}

\* After k accounts of the request, of whom j were wanted.
PlannedSo(plan, k, j, request, ids, p, c) ==
    /\ \A i \in DOMAIN p : p[i] <= k <=> i <= j
    /\ LaunchesThem(plan, j, ids, c) /\ Len(plan.steps) + Len(plan.skipped) = k
    /\ Named(plan) = {request[x] : x \in 1..k}

LEMMA NamedGrows ==
    /\ \A plan \in PlanType, new \in PlanType, id \in Ids :
          SkippedAs(new, plan, id) /\ new.steps = plan.steps => Named(new) = Named(plan) \cup {id}
    /\ \A plan \in PlanType, new \in PlanType, id \in Ids, n \in Nat, c \in Config :
          new.skipped = plan.skipped /\ new.steps = Append(plan.steps, StepAt(n, id, c)) =>
              Named(new) = Named(plan) \cup {id}
<1>1. ASSUME NEW plan \in PlanType, NEW new \in PlanType, NEW id \in Ids, SkippedAs(new, plan, id), new.steps = plan.steps
      PROVE  Named(new) = Named(plan) \cup {id}
  <2>1. PICK why : new.skipped = Append(plan.skipped, [id |-> id, why |-> why])
    BY <1>1 DEF SkippedAs
  <2>. DEFINE n == Len(plan.skipped)
  <2>2. plan.skipped \in Seq(SkipRow) /\ n \in Nat /\ DOMAIN plan.skipped = 1..n
    BY DEF PlanType
  <2>3. DOMAIN new.skipped = 1..(n + 1) /\ new.skipped[n + 1].id = id
        /\ \A i \in 1..n : new.skipped[i] = plan.skipped[i]
    BY <2>1, <2>2
  <2>. HIDE DEF n
  <2>4. 1..(n + 1) = 1..n \cup {n + 1}
    BY <2>2
  <2>5. {new.skipped[i].id : i \in DOMAIN new.skipped} = {plan.skipped[i].id : i \in DOMAIN plan.skipped} \cup {id}
    BY <2>2, <2>3, <2>4
  <2>. QED BY <1>1, <2>5 DEF Named
<1>2. ASSUME NEW plan \in PlanType, NEW new \in PlanType, NEW id \in Ids, NEW m \in Nat, NEW c \in Config,
             new.skipped = plan.skipped, new.steps = Append(plan.steps, StepAt(m, id, c))
      PROVE  Named(new) = Named(plan) \cup {id}
  <2>. DEFINE n == Len(plan.steps)
  <2>1. StepAt(m, id, c).id = id
    BY DEF StepAt
  <2>2. plan.steps \in Seq(StepRow) /\ n \in Nat /\ DOMAIN plan.steps = 1..n
    BY DEF PlanType
  <2>3. DOMAIN new.steps = 1..(n + 1) /\ new.steps[n + 1].id = id
        /\ \A i \in 1..n : new.steps[i] = plan.steps[i]
    BY <1>2, <2>1, <2>2
  <2>. HIDE DEF n
  <2>4. 1..(n + 1) = 1..n \cup {n + 1}
    BY <2>2
  <2>5. {new.steps[i].id : i \in DOMAIN new.steps} = {plan.steps[i].id : i \in DOMAIN plan.steps} \cup {id}
    BY <2>2, <2>3, <2>4
  <2>. QED BY <1>2, <2>5 DEF Named
<1>. QED BY <1>1, <1>2

LEMMA PlanGoesOn ==
    ASSUME NEW request \in Seq(Ids), NEW running, NEW c \in Config, NEW ids, NEW p,
           TakenBy(p, ids, request, WantedPlaces(request, running, c)),
           NEW W \in Nat, DOMAIN ids = 1..W,
           NEW k \in 0..(Len(request) - 1), NEW plan \in PlanType, NEW new \in PlanType,
           GoesOn(new, plan, request[k + 1], running, c), NEW j \in 0..W,
           PlannedSo(plan, k, j, request, ids, p, c)
    PROVE  \E m \in 0..W : PlannedSo(new, k + 1, m, request, ids, p, c)
<1>. DEFINE id == request[k + 1]
            S == WantedPlaces(request, running, c)
<1>1. /\ Len(request) \in Nat /\ DOMAIN request = 1..Len(request) /\ k + 1 \in DOMAIN request /\ id \in Ids
      /\ S \subseteq DOMAIN request /\ k \in Nat
  BY DEF WantedPlaces
<1>2. /\ DOMAIN p = 1..W /\ \A i \in 1..W : p[i] \in S /\ p[i] \in Nat /\ ids[i] = request[p[i]]
      /\ \A i \in S : \E x \in 1..W : p[x] = i
      /\ \A x, y \in 1..W : x < y => p[x] < p[y]
  <2>1. \A i \in S : i \in Nat
    BY <1>1
  <2>2. TakenBy(p, ids, request, S)
    OBVIOUS
  <2>. HIDE DEF S
  <2>. QED BY <2>1, <2>2 DEF TakenBy
<1>3. /\ \A i \in 1..W : p[i] <= k <=> i <= j
      /\ Len(plan.steps) = Smaller(j, PlannedAccounts)
      /\ \A i \in 1..Len(plan.steps) : plan.steps[i] = StepAt(i - 1, ids[i], c)
      /\ Len(plan.steps) + Len(plan.skipped) = k
      /\ Named(plan) = {request[x] : x \in 1..k}
  BY <1>2 DEF PlannedSo, LaunchesThem
<1>4. /\ Len(plan.steps) \in Nat /\ Len(plan.skipped) \in Nat /\ PlannedAccounts \in Nat
      /\ plan.steps \in Seq(StepRow) /\ plan.skipped \in Seq(SkipRow)
  BY SmartLaunchAssumption DEF SmartLaunchAssumption, PlanType
<1>10. PICK a \in Nat, b \in Nat : a = Len(plan.steps) /\ b = Len(plan.skipped)
  BY <1>4
<1>12. a + b = k /\ k \in Nat
  BY <1>1, <1>3, <1>10
<1>11. (a + 1) + b = k + 1 /\ a + (b + 1) = k + 1
  BY <1>12
<1>5. Seen(plan, id) <=> ~ FirstTime(request, k + 1)
  BY <1>1, <1>3 DEF Seen, FirstTime
<1>6. k + 1 \in S <=> ~ Seen(plan, id) /\ ~ SkipsRunning(c, id, running)
  BY <1>1, <1>5 DEF WantedPlaces, SkipsRunning
<1>7. {request[x] : x \in 1..(k + 1)} = {request[x] : x \in 1..k} \cup {id}
  <2>1. 1..(k + 1) = 1..k \cup {k + 1}
    BY <1>1
  <2>. QED BY <2>1
<1>. HIDE DEF S, id
<1>8. CASE k + 1 \notin S
  <2>1. new.steps = plan.steps /\ SkippedAs(new, plan, id)
    BY <1>6, <1>8 DEF GoesOn, id
  <2>2. \A i \in 1..W : p[i] <= k + 1 <=> i <= j
    <3>. SUFFICES ASSUME NEW i \in 1..W PROVE p[i] <= k + 1 <=> i <= j
      OBVIOUS
    <3>1. p[i] \in S /\ p[i] \in Nat /\ p[i] # k + 1
      BY <1>2, <1>8
    <3>. QED BY <1>1, <1>3, <3>1
  <2>3. Len(new.skipped) = Len(plan.skipped) + 1
    BY <1>4, <2>1 DEF SkippedAs
  <2>4. Named(new) = {request[x] : x \in 1..(k + 1)}
    <3>1. Named(new) = Named(plan) \cup {id}
      BY <1>1, <2>1, NamedGrows
    <3>. QED BY <1>3, <1>7, <3>1
  <2>5. LaunchesThem(new, j, ids, c)
    BY <1>3, <2>1 DEF LaunchesThem
  <2>6. Len(new.steps) + Len(new.skipped) = k + 1
    BY <1>10, <1>11, <2>1, <2>3
  <2>7. PlannedSo(new, k + 1, j, request, ids, p, c)
    BY <1>2, <2>2, <2>4, <2>5, <2>6 DEF PlannedSo
  <2>. QED BY <2>7
<1>9. CASE k + 1 \in S
  <2>1. PICK y \in 1..W : p[y] = k + 1
    BY <1>2, <1>9
  <2>2. y = j + 1
    <3>1. ~ (y <= j)
      BY <1>1, <1>3, <2>1
    <3>2. ~ (j + 1 < y)
      <4>. SUFFICES ASSUME j + 1 < y PROVE FALSE
        OBVIOUS
      <4>1. j + 1 \in 1..W /\ p[j + 1] \in Nat /\ p[j + 1] < k + 1
        BY <1>2, <2>1
      <4>2. p[j + 1] <= k
        BY <1>1, <4>1
      <4>. QED BY <1>3, <4>1, <4>2
    <3>. QED BY <3>1, <3>2
  <2>3. \A i \in 1..W : p[i] <= k + 1 <=> i <= j + 1
    <3>. SUFFICES ASSUME NEW i \in 1..W PROVE p[i] <= k + 1 <=> i <= j + 1
      OBVIOUS
    <3>1. CASE i <= j
      BY <1>1, <1>2, <1>3, <3>1
    <3>2. CASE i = j + 1
      BY <1>1, <2>1, <2>2, <3>2
    <3>3. CASE i > j + 1
      <4>1. p[y] < p[i]
        BY <1>2, <2>2, <3>3
      <4>. QED BY <1>1, <1>2, <2>1, <3>3, <4>1
    <3>. QED BY <3>1, <3>2, <3>3
  <2>4. ids[j + 1] = id /\ j + 1 \in 0..W
    BY <1>2, <2>1, <2>2 DEF id
  <2>5. CASE Len(plan.steps) >= PlannedAccounts
    <3>1. new.steps = plan.steps /\ SkippedAs(new, plan, id)
      BY <1>4, <2>5 DEF GoesOn, id
    <3>2. Len(new.skipped) = Len(plan.skipped) + 1
      BY <1>4, <3>1 DEF SkippedAs
    <3>3. Named(new) = {request[x] : x \in 1..(k + 1)}
      <4>1. Named(new) = Named(plan) \cup {id}
        BY <1>1, <3>1, NamedGrows
      <4>. QED BY <1>3, <1>7, <4>1
    <3>4. Len(new.steps) = Smaller(j + 1, PlannedAccounts)
      BY <1>3, <1>4, <2>5, <3>1 DEF Smaller
    <3>5. LaunchesThem(new, j + 1, ids, c)
      BY <1>3, <3>1, <3>4 DEF LaunchesThem
    <3>6. Len(new.steps) + Len(new.skipped) = k + 1
      BY <1>10, <1>11, <3>1, <3>2
    <3>7. PlannedSo(new, k + 1, j + 1, request, ids, p, c)
      BY <1>2, <2>3, <3>3, <3>5, <3>6 DEF PlannedSo
    <3>. QED BY <2>4, <3>7
  <2>6. CASE Len(plan.steps) < PlannedAccounts
    <3>1. new.skipped = plan.skipped /\ new.steps = Append(plan.steps, StepAt(Len(plan.steps), id, c))
      BY <1>4, <1>6, <1>9, <2>6 DEF GoesOn, id
    <3>2. Len(plan.steps) = j
      BY <1>3, <1>4, <2>6 DEF Smaller
    <3>3. Len(new.steps) = j + 1 /\ \A i \in 1..j : new.steps[i] = plan.steps[i]
      BY <1>4, <3>1, <3>2
    <3>4. new.steps[j + 1] = StepAt(j, id, c)
      BY <1>4, <3>1, <3>2
    <3>5. Named(new) = {request[x] : x \in 1..(k + 1)}
      <4>1. Named(new) = Named(plan) \cup {id}
        BY <1>1, <1>4, <3>1, NamedGrows
      <4>. QED BY <1>3, <1>7, <4>1
    <3>6. Len(new.steps) = Smaller(j + 1, PlannedAccounts)
      BY <1>4, <2>6, <3>2, <3>3 DEF Smaller
    <3>7. ASSUME NEW i \in 1..Len(new.steps) PROVE new.steps[i] = StepAt(i - 1, ids[i], c)
      <4>1. CASE i \in 1..j
        BY <1>3, <3>2, <3>3, <4>1
      <4>2. CASE i = j + 1
        BY <2>4, <3>4, <4>2
      <4>. QED BY <3>3, <4>1, <4>2
    <3>8. LaunchesThem(new, j + 1, ids, c)
      BY <3>6, <3>7 DEF LaunchesThem
    <3>9. Len(new.steps) + Len(new.skipped) = k + 1
      BY <1>10, <1>11, <3>1, <3>2, <3>3
    <3>10. PlannedSo(new, k + 1, j + 1, request, ids, p, c)
      BY <1>2, <2>3, <3>5, <3>8, <3>9 DEF PlannedSo
    <3>. QED BY <2>4, <3>10
  <2>. QED BY <1>4, <2>5, <2>6
<1>. QED BY <1>8, <1>9

\* What a plan is, said of the whole request.
IsPlanFor(plan, request, wanted, c) ==
    /\ plan \in PlanType /\ wanted \in Seq(Ids)
    /\ \A i, j \in DOMAIN wanted : i < j => wanted[i] # wanted[j]
    /\ LaunchesThem(plan, Len(wanted), wanted, c)
    /\ Len(plan.steps) + Len(plan.skipped) = Len(request)

LEMMA PlanIsMade ==
    ASSUME NEW request \in Seq(Ids), NEW running, NEW c \in Config
    PROVE  IsPlanFor(PlanLaunches(request, running, c), request, Wanted(request, running, c), c)
<1>. DEFINE S == WantedPlaces(request, running, c)
            ids == Wanted(request, running, c)
            n == Len(request)
<1>1. n \in Nat /\ DOMAIN request = 1..n /\ S \subseteq 1..n
  BY DEF WantedPlaces
<1>2. ids \in Seq(Ids) /\ TakenFrom(ids, request, S)
  <2>1. ids = Taken(request, S)
    BY DEF Wanted, WantedPlaces
  <2>. HIDE DEF S, ids
  <2>. QED BY <1>1, <2>1, TakenFits
<1>3. PICK p : TakenBy(p, ids, request, S)
  BY <1>2 DEF TakenFrom
<1>. HIDE DEF ids
<1>4. PICK W \in Nat : DOMAIN ids = 1..W /\ Len(ids) = W
  BY <1>2
<1>5. PICK g : Grows(g, request, running, c)
  BY PlanGrows
<1>6. /\ g \in [0..n -> PlanType] /\ g[0] = NoPlan /\ g[n] = PlanLaunches(request, running, c)
      /\ \A k \in 0..(n - 1) : g[k + 1] = PlanOne(g[k], request[k + 1], running, c)
  BY <1>5 DEF Grows
<1>. DEFINE Good(k) == \E j \in 0..W : PlannedSo(g[k], k, j, request, ids, p, c)
            Done == {k \in 0..n : Good(k)}
<1>. HIDE DEF S
<1>7. /\ DOMAIN p = 1..W /\ \A i \in 1..W : p[i] \in 1..n /\ ids[i] = request[p[i]] /\ p[i] \in S
      /\ \A x, y \in 1..W : x < y => p[x] < p[y]
  BY <1>1, <1>3, <1>4 DEF TakenBy
<1>8. Good(0)
  <2>1. g[0].steps = <<>> /\ g[0].skipped = <<>>
    BY <1>6 DEF NoPlan
  <2>2. Named(g[0]) = {} /\ {request[x] : x \in 1..0} = {}
    BY <2>1 DEF Named
  <2>3. LaunchesThem(g[0], 0, ids, c)
    BY <2>1, SmartLaunchAssumption DEF SmartLaunchAssumption, LaunchesThem, Smaller
  <2>4. \A i \in 1..W : p[i] <= 0 <=> i <= 0
    BY <1>4, <1>7
  <2>5. Len(g[0].steps) + Len(g[0].skipped) = 0
    BY <2>1
  <2>6. PlannedSo(g[0], 0, 0, request, ids, p, c)
    BY <1>7, <2>2, <2>3, <2>4, <2>5 DEF PlannedSo
  <2>. QED BY <1>4, <2>6
<1>9. ASSUME NEW k \in 0..(n - 1), Good(k) PROVE Good(k + 1)
  <2>1. PICK j \in 0..W : PlannedSo(g[k], k, j, request, ids, p, c)
    BY <1>9
  <2>2. g[k] \in PlanType /\ request[k + 1] \in Ids /\ g[k + 1] = PlanOne(g[k], request[k + 1], running, c)
    BY <1>1, <1>6
  <2>3. g[k + 1] \in PlanType /\ GoesOn(g[k + 1], g[k], request[k + 1], running, c)
    BY <2>2, PlanOneFits
  <2>4. TakenBy(p, ids, request, WantedPlaces(request, running, c))
    BY <1>3 DEF S
  <2>5. \E m \in 0..W : PlannedSo(g[k + 1], k + 1, m, request, ids, p, c)
    BY <1>4, <2>1, <2>2, <2>3, <2>4, PlanGoesOn
  <2>. QED BY <2>5
<1>. HIDE DEF Good
<1>10. Good(n)
  <2>1. Done \subseteq 0..n /\ 0 \in Done
    BY <1>1, <1>8
  <2>2. \A k \in 0..(n - 1) : k \in Done => k + 1 \in Done
    BY <1>1, <1>9
  <2>. HIDE DEF Done
  <2>3. Done = 0..n
    BY <1>1, <2>1, <2>2, StepByStep
  <2>. QED BY <1>1, <2>3 DEF Done
<1>11. PICK j \in 0..W : PlannedSo(g[n], n, j, request, ids, p, c)
  BY <1>10 DEF Good
<1>12. j = W
  <2>. SUFFICES ASSUME j # W PROVE FALSE
    OBVIOUS
  <2>0. j \in Nat /\ W \in Nat /\ j < W
    OBVIOUS
  <2>1. W \in 1..W /\ p[W] <= n
    BY <1>1, <1>7, <2>0
  <2>2. p[W] <= n <=> W <= j
    BY <1>7, <1>11, <2>1 DEF PlannedSo
  <2>. QED BY <2>0, <2>1, <2>2
<1>13. \A i, m \in DOMAIN ids : i < m => ids[i] # ids[m]
  <2>. SUFFICES ASSUME NEW i \in 1..W, NEW m \in 1..W, i < m PROVE ids[i] # ids[m]
    BY <1>4
  <2>1. p[i] < p[m] /\ p[i] \in 1..n /\ p[m] \in 1..n
    BY <1>7
  <2>2. p[i] \in 1..(p[m] - 1)
    BY <1>1, <2>1
  <2>3. FirstTime(request, p[m])
    BY <1>7 DEF S, WantedPlaces
  <2>. QED BY <1>7, <2>2, <2>3 DEF FirstTime
<1>14. IsPlanFor(g[n], request, ids, c)
  <2>1. LaunchesThem(g[n], W, ids, c) /\ Len(g[n].steps) + Len(g[n].skipped) = n
    BY <1>11, <1>12 DEF PlannedSo
  <2>2. g[n] \in PlanType
    BY <1>1, <1>6
  <2>. QED BY <1>2, <1>4, <1>13, <2>1, <2>2 DEF IsPlanFor
<1>. QED BY <1>6, <1>14 DEF ids

\* So a plan is right.
PlanRightFor(plan, request, wanted, c) ==
    LET steps == plan.steps
    IN  /\ Len(steps) = (IF Len(wanted) <= PlannedAccounts THEN Len(wanted) ELSE PlannedAccounts)
        /\ \A i \in DOMAIN steps : steps[i].id = wanted[i]
        /\ Len(steps) + Len(plan.skipped) = Len(request)
        /\ \A i, j \in DOMAIN steps : i < j => /\ steps[i].after < steps[j].after
                                               /\ steps[i].wave <= steps[j].wave
        /\ \A w \in 0..Len(steps) :
              LET wave == {i \in DOMAIN steps : steps[i].wave = w}
              IN  /\ Cardinality(wave) <= c.size
                  /\ wave # {} /\ Cardinality(wave) < c.size => \A i \in DOMAIN steps : steps[i].wave <= w

LEMMA PlanIsRightFor ==
    ASSUME NEW plan, NEW request, NEW wanted, NEW c \in Config, IsPlanFor(plan, request, wanted, c)
    PROVE  PlanRightFor(plan, request, wanted, c)
<1>. DEFINE steps == plan.steps
            n == Len(steps)
<1>1. n \in Nat /\ DOMAIN steps = 1..n
  BY DEF IsPlanFor, PlanType
<1>2. n = (IF Len(wanted) <= PlannedAccounts THEN Len(wanted) ELSE PlannedAccounts)
  BY DEF IsPlanFor, LaunchesThem, Smaller
<1>3. \A i \in 1..n : steps[i] = StepAt(i - 1, wanted[i], c)
  BY DEF IsPlanFor, LaunchesThem
<1>4. PICK s : s = c.size /\ s \in Nat \ {0} /\ c.delay = 2
  BY SmartLaunchAssumption DEF SmartLaunchAssumption, Config
<1>. HIDE DEF n, steps
<1>5. \A i \in 1..n : steps[i].id = wanted[i] /\ steps[i].wave = (i - 1) \div s /\ steps[i].after = (i - 1) * 2
  <2>. SUFFICES ASSUME NEW i \in 1..n
                PROVE  steps[i].id = wanted[i] /\ steps[i].wave = (i - 1) \div s /\ steps[i].after = (i - 1) * 2
    OBVIOUS
  <2>1. steps[i] = [id |-> wanted[i], wave |-> (i - 1) \div s, position |-> (i - 1) % s, after |-> (i - 1) * 2]
    BY <1>3, <1>4 DEF StepAt
  <2>. QED BY <2>1
<1>6. ASSUME NEW i \in 1..n, NEW j \in 1..n, i < j
      PROVE  steps[i].after < steps[j].after /\ steps[i].wave <= steps[j].wave
  <2>1. i - 1 \in Nat /\ j - 1 \in Nat /\ i - 1 <= j - 1
    BY <1>1, <1>6
  <2>2. (i - 1) \div s <= (j - 1) \div s
    BY <1>4, <2>1, Waves
  <2>3. (i - 1) * 2 < (j - 1) * 2
    BY <1>1, <1>6
  <2>. QED BY <1>5, <2>2, <2>3
<1>7. ASSUME NEW w \in 0..n
      PROVE  /\ Cardinality({i \in 1..n : steps[i].wave = w}) <= s
             /\ Cardinality({i \in 1..n : steps[i].wave = w}) < s => \A i \in 1..n : steps[i].wave <= w
  <2>. DEFINE wave == {i \in 1..n : steps[i].wave = w}
              row_ == (w * s + 1)..(w * s + s)
  <2>0. w \in Nat /\ w * s \in Nat
    BY <1>1, <1>4
  <2>1. IsFiniteSet(row_) /\ Cardinality(row_) = s
    BY <1>4, <2>0, Blocks DEF BlockIs
  <2>2. \A m \in Nat : m \div s = w <=> w * s <= m /\ m < w * s + s
    BY <1>4, <2>0, Blocks DEF BlockIs
  <2>3. wave \subseteq row_
    <3>. SUFFICES ASSUME NEW i \in 1..n, steps[i].wave = w PROVE i \in row_
      OBVIOUS
    <3>1. i - 1 \in Nat /\ (i - 1) \div s = w
      BY <1>1, <1>5
    <3>2. w * s <= i - 1 /\ i - 1 < w * s + s
      BY <2>2, <3>1
    <3>. QED BY <1>4, <2>0, <3>1, <3>2
  <2>4. Cardinality(wave) <= s
    <3>. HIDE DEF wave, row_
    <3>. QED BY <2>1, <2>3, FS_Subset
  <2>5. ASSUME NEW i \in 1..n, ~ (steps[i].wave <= w) PROVE Cardinality(wave) = s
    <3>1. PICK q : q = (i - 1) \div s /\ q \in Nat /\ q > w /\ q * s <= i - 1
      <4>1. PICK m \in Nat : m = i - 1
        BY <1>1
      <4>2. PICK q : q = m \div s
        OBVIOUS
      <4>3. q \in Nat /\ q * s <= m
        BY <1>4, <4>2, Division
      <4>. QED BY <1>5, <2>0, <2>5, <4>1, <4>2, <4>3
    <3>2. (w + 1) * s <= q * s /\ (w + 1) * s = w * s + s
      BY <1>4, <2>0, <3>1
    <3>3. w * s + s < i
      BY <1>4, <2>0, <3>1, <3>2
    <3>4. ASSUME NEW x \in row_ PROVE x \in wave
      <4>1. x \in 1..n /\ x - 1 \in Nat /\ w * s <= x - 1 /\ x - 1 < w * s + s
        <5>1. ASSUME NEW b \in Nat, NEW e \in Nat, NEW y \in (b + 1)..(b + e), b + e < i
              PROVE  y \in 1..n /\ y - 1 \in Nat /\ b <= y - 1 /\ y - 1 < b + e
          BY <5>1, <1>1
        <5>. QED BY <1>4, <2>0, <3>3, <5>1
      <4>2. (x - 1) \div s = w
        BY <2>2, <4>1
      <4>. QED BY <1>5, <4>1, <4>2
    <3>5. wave = row_
      BY <2>3, <3>4
    <3>. QED BY <2>1, <3>5
  <2>. QED BY <1>4, <2>4, <2>5
<1>8. Len(steps) + Len(plan.skipped) = Len(request)
  BY DEF IsPlanFor, steps
<1>9. \A w \in 0..Len(steps) :
              LET wave == {i \in DOMAIN steps : steps[i].wave = w}
              IN  /\ Cardinality(wave) <= c.size
                  /\ wave # {} /\ Cardinality(wave) < c.size => \A i \in DOMAIN steps : steps[i].wave <= w
  BY <1>1, <1>4, <1>7 DEF n
<1>. QED BY <1>1, <1>2, <1>5, <1>6, <1>8, <1>9 DEF PlanRightFor, steps, n

\* The clients, as they come.
ClientRow == [pid : 1..3, id : Ids \cup {"nobody"}, macro : BOOLEAN, size : {0, 1, 3}]
OpenedOK ==
    /\ opened \in Seq(ClientRow) /\ \A i, j \in DOMAIN opened : i # j => opened[i].pid # opened[j].pid
    /\ Len(opened) <= 3
StarterOK ==
    /\ starter.at \in {"idle", "planned"}
    /\ starter.at = "planned" =>
          /\ starter.request \in Seq(Ids)
          /\ starter.plan = PlanLaunches(starter.request, starter.running, config)
SmartInv ==
    /\ config \in Config /\ OpenedOK /\ StarterOK
    /\ machine \in [percent : -1..3, available : 0..9]
    /\ batch \in Seq(Ids) /\ cap \in Nat

LEMMA SmartBegins == SmartInit => SmartInv
BY DEF SmartInit, SmartInv, Config, OpenedOK, StarterOK, IdleStarter, Unmeasured, NoCap

\* Different pids of 1..3 are no more than three.
LEMMA ThreeWindows ==
    ASSUME NEW rows \in Seq(ClientRow), \A i, j \in DOMAIN rows : i # j => rows[i].pid # rows[j].pid
    PROVE  Len(rows) <= 3
<1>. DEFINE n == Len(rows)
            f == [i \in 1..n |-> rows[i].pid]
<1>1. n \in Nat /\ DOMAIN rows = 1..n /\ \A i \in 1..n : rows[i].pid \in 1..3
  <2>1. n \in Nat /\ DOMAIN rows = 1..n
    OBVIOUS
  <2>. HIDE DEF n
  <2>2. \A i \in 1..n : rows[i] \in ClientRow
    BY <2>1
  <2>3. \A e \in ClientRow : e.pid \in 1..3
    BY DEF ClientRow
  <2>. QED BY <2>1, <2>2, <2>3
<1>. HIDE DEF n
<1>2. f \in Injection(1..n, 1..3)
  BY <1>1 DEF Injection, IsInjective
<1>3. IsFiniteSet(1..3) /\ Cardinality(1..3) = 3 /\ Cardinality(1..n) = n
  BY <1>1, UpTo
<1>. HIDE DEF f
<1>4. Cardinality(1..n) <= Cardinality(1..3)
  BY <1>2, <1>3, FS_Injection
<1>. QED BY <1>1, <1>3, <1>4 DEF n

LEMMA ClientComesStep ==
    ASSUME SmartInv, NEW w \in Clients, ClientComes(w) PROVE SmartInv'
<1>1. PICK pid \in 1..3 \ Pids :
          opened' = Append(opened, [pid |-> pid, id |-> w.id, macro |-> w.macro, size |-> w.size])
  BY DEF ClientComes
<1>2. w.id \in Ids \cup {"nobody"} /\ w.macro \in BOOLEAN /\ w.size \in {0, 1, 3}
  <2>1. CASE \E id \in Ids : w = [id |-> id, macro |-> TRUE, size |-> 1]
    BY <2>1
  <2>2. CASE w = [id |-> "nobody", macro |-> FALSE, size |-> 3]
    BY <2>2
  <2>3. CASE w = [id |-> "nobody", macro |-> FALSE, size |-> 0]
    BY <2>3
  <2>. QED BY <2>1, <2>2, <2>3 DEF Clients, Client
<1>3. PICK e \in ClientRow : e = [pid |-> pid, id |-> w.id, macro |-> w.macro, size |-> w.size]
  BY <1>2 DEF ClientRow
<1>4. opened \in Seq(ClientRow) /\ \A i, j \in DOMAIN opened : i # j => opened[i].pid # opened[j].pid
  BY DEF SmartInv, OpenedOK
<1>5. PICK n \in Nat : n = Len(opened) /\ DOMAIN opened = 1..n
  BY <1>4
<1>6. opened' \in Seq(ClientRow)
  BY <1>1, <1>3, <1>4
<1>7. DOMAIN opened' = 1..(n + 1) /\ opened'[n + 1] = e /\ \A i \in 1..n : opened'[i] = opened[i]
  BY <1>1, <1>3, <1>4, <1>5
<1>8. \A i \in 1..n : opened[i].pid # e.pid
  BY <1>1, <1>3, <1>5 DEF Pids
<1>9. ASSUME NEW i \in DOMAIN opened', NEW j \in DOMAIN opened', i # j PROVE opened'[i].pid # opened'[j].pid
  <2>1. i \in 1..n \/ i = n + 1
    BY <1>7
  <2>2. j \in 1..n \/ j = n + 1
    BY <1>7
  <2>. QED BY <1>4, <1>5, <1>7, <1>8, <1>9, <2>1, <2>2
<1>10. OpenedOK'
  BY <1>6, <1>9, ThreeWindows DEF OpenedOK
<1>. QED BY <1>10 DEF ClientComes, SmartInv, StarterOK

LEMMA ClientGoesStep ==
    ASSUME SmartInv, NEW k \in DOMAIN opened, ClientGoes(k) PROVE SmartInv'
<1>1. opened' = SubSeq(opened, 1, k - 1) \o SubSeq(opened, k + 1, Len(opened))
  BY DEF ClientGoes, RemoveAt
<1>2. opened \in Seq(ClientRow) /\ \A i, j \in DOMAIN opened : i # j => opened[i].pid # opened[j].pid
  BY DEF SmartInv, OpenedOK
<1>3. PICK n \in Nat : n = Len(opened) /\ DOMAIN opened = 1..n /\ k \in 1..n
  BY <1>2
<1>4. /\ SubSeq(opened, 1, k - 1) \in Seq(ClientRow) /\ Len(SubSeq(opened, 1, k - 1)) = k - 1
      /\ \A i \in 1..(k - 1) : SubSeq(opened, 1, k - 1)[i] = opened[i]
      /\ SubSeq(opened, k + 1, n) \in Seq(ClientRow) /\ Len(SubSeq(opened, k + 1, n)) = n - k
      /\ \A i \in 1..(n - k) : SubSeq(opened, k + 1, n)[i] = opened[k + i]
  <2>1. /\ SubSeq(opened, 1, k - 1) \in Seq(ClientRow) /\ Len(SubSeq(opened, 1, k - 1)) = k - 1
        /\ \A i \in 1..(k - 1) : SubSeq(opened, 1, k - 1)[i] = opened[i]
    BY <1>2, <1>3
  <2>2. /\ SubSeq(opened, k + 1, n) \in Seq(ClientRow) /\ Len(SubSeq(opened, k + 1, n)) = n - k
        /\ \A i \in 1..(n - k) : SubSeq(opened, k + 1, n)[i] = opened[k + i]
    BY <1>2, <1>3
  <2>. QED BY <2>1, <2>2
<1>5. /\ opened' \in Seq(ClientRow) /\ DOMAIN opened' = 1..(n - 1)
      /\ \A i \in 1..(n - 1) : opened'[i] = opened[IF i < k THEN i ELSE i + 1]
  <2>1. opened' \in Seq(ClientRow) /\ Len(opened') = n - 1
    BY <1>1, <1>3, <1>4
  <2>2. DOMAIN opened' = 1..(n - 1)
    BY <1>3, <2>1
  <2>3. ASSUME NEW i \in 1..(n - 1) PROVE opened'[i] = opened[IF i < k THEN i ELSE i + 1]
    <3>1. CASE i < k
      <4>1. i \in 1..(k - 1) /\ k - 1 \in Nat /\ n - k \in Nat
        BY <1>3, <3>1
      <4>2. (SubSeq(opened, 1, k - 1) \o SubSeq(opened, k + 1, n))[i] = SubSeq(opened, 1, k - 1)[i]
        BY <1>4, <4>1, OneBehind
      <4>. QED BY <1>1, <1>3, <1>4, <3>1, <4>1, <4>2
    <3>2. CASE ~ (i < k)
      <4>1. PICK front : front = SubSeq(opened, 1, k - 1)
        OBVIOUS
      <4>2. PICK back : back = SubSeq(opened, k + 1, n)
        OBVIOUS
      <4>3. PICK m \in Nat : m = k - 1
        BY <1>3
      <4>4. PICK b \in Nat : b = n - k
        BY <1>3
      <4>5. front \in Seq(ClientRow) /\ Len(front) = m /\ back \in Seq(ClientRow) /\ Len(back) = b
        BY <1>4, <4>1, <4>2, <4>3, <4>4
      <4>6. opened' = front \o back
        BY <1>1, <1>3, <4>1, <4>2
      <4>7. i \in 1..(m + b) /\ i > m /\ k + (i - m) = i + 1
        BY <1>3, <3>2, <4>3, <4>4
      <4>8. (front \o back)[i] = back[i - m] /\ i - m \in 1..b
        <5>. HIDE LaunchAssumption
        <5>1. /\ front \in Seq(ClientRow) /\ back \in Seq(ClientRow) /\ m \in Nat /\ b \in Nat
              /\ Len(front) = m /\ Len(back) = b
          BY <4>5
        <5>2. \A x \in 1..(m + b) : x > m => (front \o back)[x] = back[x - m] /\ x - m \in 1..b
          BY <5>1, OneBehind
        <5>. QED BY <4>7, <5>2
      <4>9. back[i - m] = opened[k + (i - m)]
        BY <1>4, <4>2, <4>4, <4>8
      <4>. QED BY <3>2, <4>6, <4>7, <4>8, <4>9
    <3>. QED BY <3>1, <3>2
  <2>. QED BY <2>1, <2>2, <2>3
<1>6. ASSUME NEW i \in DOMAIN opened', NEW j \in DOMAIN opened', i # j PROVE opened'[i].pid # opened'[j].pid
  <2>1. PICK a \in 1..n, b \in 1..n : opened'[i] = opened[a] /\ opened'[j] = opened[b] /\ a # b
    <3>1. (IF i < k THEN i ELSE i + 1) # (IF j < k THEN j ELSE j + 1)
      BY <1>3, <1>5, <1>6
    <3>2. (IF i < k THEN i ELSE i + 1) \in 1..n /\ (IF j < k THEN j ELSE j + 1) \in 1..n
      BY <1>3, <1>5
    <3>. QED BY <1>5, <3>1, <3>2
  <2>. QED BY <1>2, <1>3, <2>1
<1>7. OpenedOK'
  BY <1>5, <1>6, ThreeWindows DEF OpenedOK
<1>. QED BY <1>7 DEF ClientGoes, SmartInv, StarterOK

LEMMA SmartPlanStep ==
    ASSUME SmartInv, NEW request \in Requests, SmartLaunchPlan(request) PROVE SmartInv'
<1>1. request \in Seq(Ids)
  BY SmartLaunchAssumption DEF SmartLaunchAssumption
<1>2. StarterOK'
  BY <1>1 DEF SmartLaunchPlan, StarterOK
<1>. QED BY <1>2 DEF SmartLaunchPlan, SmartInv, OpenedOK

\* What a batch starts: those of the plan.
LEMMA BatchIs ==
    ASSUME SmartInv, StartSmartLaunch, batch' # batch
    PROVE  batch' \in Seq(Ids) /\ IsInjective(batch') /\ Level(config) # "critical"
<1>1. /\ starter.at = "planned" /\ ~ Vetoes
      /\ batch' = [i \in DOMAIN starter.plan.steps |-> starter.plan.steps[i].id]
  BY DEF StartSmartLaunch
<1>. DEFINE request == starter.request
            wanted == Wanted(request, starter.running, config)
            plan == starter.plan
<1>2. request \in Seq(Ids) /\ config \in Config /\ plan = PlanLaunches(request, starter.running, config)
  BY <1>1 DEF SmartInv, StarterOK
<1>3. IsPlanFor(plan, request, wanted, config)
  BY <1>2, PlanIsMade
<1>4. PICK n \in Nat : n = Len(plan.steps) /\ DOMAIN plan.steps = 1..n /\ n <= Len(wanted)
  BY <1>3, SmartLaunchAssumption DEF IsPlanFor, LaunchesThem, Smaller, PlanType, SmartLaunchAssumption
<1>5. \A i \in 1..n : plan.steps[i].id = wanted[i]
  <2>1. \A i \in 1..n : plan.steps[i] = StepAt(i - 1, wanted[i], config)
    BY <1>3, <1>4 DEF IsPlanFor, LaunchesThem
  <2>2. \A k, id : StepAt(k, id, config).id = id
    BY DEF StepAt
  <2>. HIDE DEF plan, wanted
  <2>. QED BY <2>1, <2>2
<1>6. \A i \in 1..n : wanted[i] \in Ids /\ i \in DOMAIN wanted
  BY <1>3, <1>4 DEF IsPlanFor
<1>7. \A i, j \in 1..n : i # j => wanted[i] # wanted[j]
  BY <1>3, <1>6 DEF IsPlanFor
<1>. HIDE DEF wanted
<1>8. batch' = [i \in 1..n |-> wanted[i]]
  BY <1>1, <1>4, <1>5
<1>9. batch' \in Seq(Ids)
  BY <1>6, <1>8
<1>10. IsInjective(batch')
  BY <1>7, <1>8 DEF IsInjective
<1>. QED BY <1>1, <1>9, <1>10 DEF Vetoes

LEMMA SmartStartStep ==
    ASSUME SmartInv, StartSmartLaunch PROVE SmartInv'
<1>1. batch' \in Seq(Ids)
  BY BatchIs DEF SmartInv
<1>. QED BY <1>1 DEF StartSmartLaunch, SmartInv, OpenedOK, StarterOK, IdleStarter

\* The one cap suits the most demanding window.
LEMMA CapIs ==
    ASSUME SmartInv, NEW watched
    PROVE  /\ AppliedFps(watched, config) \in Nat
           /\ AppliedFps(watched, config) # NoCap =>
                 \A i \in DOMAIN Listed : AppliedFps(watched, config) >= Target(Listed[i], watched, config)
<1>. DEFINE fps == FpsTargets(watched, config)
<1>1. fps \subseteq {5, 20, 60} /\ \A i \in DOMAIN Listed : Target(Listed[i], watched, config) \in fps
  BY DEF SmartInv, Config, FpsTargets, Target
<1>2. Listed # <<>> => fps # {}
  <2>1. opened \in Seq(ClientRow) /\ PlannedWindows \in Nat
    BY SmartLaunchAssumption DEF SmartInv, OpenedOK, SmartLaunchAssumption
  <2>2. Listed \in Seq(ClientRow)
    BY <2>1 DEF Listed
  <2>3. ASSUME Listed # <<>> PROVE 1 \in DOMAIN Listed
    BY <2>2, <2>3
  <2>. QED BY <1>1, <2>3
<1>3. ASSUME fps # {} PROVE MostDemanding(fps) \in fps /\ \A g \in fps : MostDemanding(fps) >= g
  <2>1. \E f \in fps : \A g \in fps : f >= g
    <3>1. CASE 60 \in fps
      BY <1>1, <3>1
    <3>2. CASE 60 \notin fps /\ 20 \in fps
      BY <1>1, <3>2
    <3>3. CASE 60 \notin fps /\ 20 \notin fps
      BY <1>1, <1>3, <3>3
    <3>. QED BY <3>1, <3>2, <3>3
  <2>. HIDE DEF fps
  <2>. QED BY <2>1 DEF MostDemanding
<1>. HIDE DEF fps
<1>4. CASE config.adaptive /\ Listed # <<>>
  <2>1. AppliedFps(watched, config) = MostDemanding(fps)
    BY <1>4 DEF AppliedFps, fps
  <2>2. PICK most : most = MostDemanding(fps)
    OBVIOUS
  <2>3. most \in fps /\ \A g \in fps : most >= g
    BY <1>2, <1>3, <1>4, <2>2
  <2>4. most \in Nat
    BY <1>1, <2>3
  <2>5. AppliedFps(watched, config) = most
    BY <2>1, <2>2
  <2>6. \A i \in DOMAIN Listed : most >= Target(Listed[i], watched, config)
    BY <1>1, <2>3
  <2>. QED BY <2>4, <2>5, <2>6
<1>5. CASE ~ (config.adaptive /\ Listed # <<>>)
  BY <1>5 DEF AppliedFps, NoCap
<1>. QED BY <1>4, <1>5

LEMMA SmartStep == SmartInv /\ [SmartNext]_smartVars => SmartInv'
<1>. SUFFICES ASSUME SmartInv, [SmartNext]_smartVars PROVE SmartInv'
  OBVIOUS
<1>1. ASSUME NEW percent \in {-1, 1, 2, 3}, NEW available \in {0, 9, 4, 1}, Measures(percent, available) PROVE SmartInv'
  <2>1. machine' \in [percent : -1..3, available : 0..9]
    BY <1>1 DEF Measures
  <2>. QED BY <1>1, <2>1 DEF Measures, SmartInv, OpenedOK, StarterOK
<1>2. CASE Measures(Unmeasured, 0) \/ Measures(1, 9) \/ Measures(2, 4) \/ Measures(3, 1)
  BY <1>1, <1>2 DEF Unmeasured
<1>3. CASE PlanSmartLaunch
  BY <1>3 DEF PlanSmartLaunch, SmartInv, OpenedOK, StarterOK, IdleStarter
<1>4. CASE BatchEnds
  BY <1>4 DEF BatchEnds, SmartInv, OpenedOK, StarterOK
<1>5. ASSUME NEW watched \in 0..3, ApplyResourcePlan(watched) PROVE SmartInv'
  <2>1. cap' \in Nat
    BY <1>5, CapIs DEF ApplyResourcePlan, SmartInv
  <2>. QED BY <1>5, <2>1 DEF ApplyResourcePlan, SmartInv, OpenedOK, StarterOK
<1>6. CASE UNCHANGED smartVars
  BY <1>6 DEF smartVars, SmartInv, OpenedOK, StarterOK
<1>. QED BY <1>2, <1>3, <1>4, <1>5, <1>6, ClientComesStep, ClientGoesStep, SmartPlanStep, SmartStartStep DEF SmartNext

\* No batch starts while memory is critical, and none starts an account twice.
SmartHolds ==
    /\ batch' # batch /\ batch' # <<>> => Level(config) # "critical" /\ IsInjective(batch')
    /\ \A watched \in 0..3 : cap' # cap /\ ApplyResourcePlan(watched) =>
          \A i \in DOMAIN Listed : cap' >= Target(Listed[i], watched, config)

LEMMA SmartStepHolds == SmartInv /\ [SmartNext]_smartVars => SmartHolds
<1>. SUFFICES ASSUME SmartInv, [SmartNext]_smartVars PROVE SmartHolds
  OBVIOUS
<1>1. batch' # batch /\ batch' # <<>> => StartSmartLaunch
  BY DEF SmartNext, smartVars, ClientComes, ClientGoes, Measures, SmartLaunchPlan, PlanSmartLaunch, BatchEnds,
         ApplyResourcePlan
<1>2. ASSUME NEW watched \in 0..3, cap' # cap, ApplyResourcePlan(watched)
      PROVE  \A i \in DOMAIN Listed : cap' >= Target(Listed[i], watched, config)
  BY <1>2, CapIs DEF ApplyResourcePlan
<1>. QED BY <1>1, <1>2, BatchIs DEF SmartHolds

ListedFits == Listed \in Seq(ClientRow) /\ Len(Listed) \in Nat /\ DOMAIN Listed = 1..Len(Listed)
LEMMA ListedIs == SmartInv => ListedFits
<1>. SUFFICES ASSUME SmartInv PROVE ListedFits
  OBVIOUS
<1>1. opened \in Seq(ClientRow) /\ PlannedWindows \in Nat
  BY SmartLaunchAssumption DEF SmartInv, OpenedOK, SmartLaunchAssumption
<1>2. Listed \in Seq(ClientRow)
  BY <1>1 DEF Listed
<1>. HIDE DEF ListedFits
<1>. QED BY <1>2 DEF ListedFits

\* What the measured clients take on average is a number.
LEMMA MeasuredIs == ListedFits => Measured \in Nat
<1>. SUFFICES ASSUME ListedFits PROVE Measured \in Nat
  OBVIOUS
<1>. DEFINE sizes == [i \in DOMAIN Listed |-> Listed[i].size]
            S == Sizes
            Op == [p \in Nat \X S |-> sizes[p[2]] + p[1]]
            Pick == [t \in SUBSET S |-> CHOOSE x \in t : TRUE]
            Is(f) == f = [t \in SUBSET S |-> IF t = {} THEN 0
                            ELSE sizes[CHOOSE x \in t : TRUE] + f[t \ {CHOOSE x \in t : TRUE}]]
            it == CHOOSE f : Is(f)
<1>1. \A i \in DOMAIN Listed : sizes[i] \in Nat
  <2>1. \A i \in DOMAIN Listed : Listed[i] \in ClientRow
    BY DEF ListedFits
  <2>2. \A e \in ClientRow : e.size \in Nat
    BY DEF ClientRow
  <2>. QED BY <2>1, <2>2
<1>2. S \subseteq DOMAIN Listed /\ IsFiniteSet(S)
  <2>1. S \subseteq DOMAIN Listed
    BY DEF Sizes
  <2>2. IsFiniteSet(DOMAIN Listed)
    BY UpTo DEF ListedFits
  <2>. QED BY <2>1, <2>2, FS_Subset
<1>3. Cardinality(S) \in Nat /\ (S # {} => Cardinality(S) # 0)
  BY <1>2, FS_CardinalityType, FS_EmptySet
<1>4. Op \in [Nat \X S -> Nat]
  <2>. HIDE DEF sizes, S
  <2>. QED BY <1>1, <1>2
<1>5. \E f : Is(f) /\ f[S] \in Nat
  <2>1. Picks(Pick, S)
    BY DEF Picks
  <2>. HIDE DEF sizes, S, Op, Pick
  <2>2. PICK f : IsFoldOf(f, S, Nat, 0, Op, Pick)
    BY <1>2, <1>4, <2>1, FoldIsThere
  <2>3. ASSUME NEW t \in SUBSET S, t # {}
        PROVE  Op[<<f[t \ {Pick[t]}], Pick[t]>>] = sizes[Pick[t]] + f[t \ {Pick[t]}]
    <3>1. Pick[t] \in S /\ f[t \ {Pick[t]}] \in Nat
      BY <2>1, <2>2, <2>3 DEF Picks, IsFoldOf
    <3>. QED BY <3>1 DEF Op
  <2>4. f = [t \in SUBSET S |-> IF t = {} THEN 0 ELSE sizes[Pick[t]] + f[t \ {Pick[t]}]]
    BY <2>2, <2>3 DEF IsFoldOf
  <2>5. Is(f)
    BY <2>4 DEF Pick
  <2>. QED BY <2>2, <2>5 DEF IsFoldOf
<1>6. FoldFunctionOnSet(+, 0, sizes, S) = it[S]
  BY DEF FoldFunctionOnSet, MapThenFoldSet
<1>7. StepsKeep(it, S, Nat, Pick)
  <2>1. Is(it)
    <3>1. \E f : Is(f)
      BY <1>5
    <3>. HIDE DEF Is
    <3>. QED BY <3>1
  <2>. HIDE DEF it, S
  <2>2. it[{}] = 0
    BY <2>1
  <2>3. ASSUME NEW t \in SUBSET S, t # {}, it[t \ {Pick[t]}] \in Nat PROVE it[t] \in Nat
    <3>1. Pick[t] \in S /\ Pick[t] = CHOOSE x \in t : TRUE
      BY <2>3
    <3>2. it[t] = sizes[Pick[t]] + it[t \ {Pick[t]}]
      BY <2>1, <2>3, <3>1
    <3>. HIDE DEF sizes, Pick
    <3>. QED BY <1>1, <1>2, <2>3, <3>1, <3>2
  <2>. QED BY <2>2, <2>3 DEF StepsKeep
<1>8. it[S] \in Nat
  <2>1. Picks(Pick, S)
    BY DEF Picks
  <2>. HIDE DEF it, S, Pick
  <2>. QED BY <1>2, <1>7, <2>1, FoldFits
<1>9. CASE S = {}
  BY <1>9 DEF Measured
<1>10. CASE S # {}
  <2>1. Measured = it[S] \div Cardinality(S)
    BY <1>6, <1>10 DEF Measured
  <2>. HIDE DEF it, S
  <2>. QED BY <1>3, <1>8, <1>10, <2>1, Division
<1>. QED BY <1>9, <1>10

LEMMA CapacityIs == SmartInv => CapacityFits
<1>. SUFFICES ASSUME SmartInv, Capacity(config) > 0
              PROVE  Capacity(config) * (IF Measured > 0 THEN Measured ELSE config.average) + config.reserve
                         <= machine.available
  BY DEF CapacityFits
<1>1. PICK each \in Nat \ {0} : each = IF Measured > 0 THEN Measured ELSE config.average
  <2>1. Measured \in Nat /\ config.average = 1
    BY ListedIs, MeasuredIs DEF SmartInv, Config
  <2>. QED BY <2>1
<1>2. machine.available \in Nat /\ config.reserve = 2
  BY DEF SmartInv, Config
<1>3. PICK usable : usable = Usable(config) /\ usable = machine.available - 2
  BY <1>2 DEF Usable
<1>4. machine.available > 0 /\ usable > 0 /\ Capacity(config) = usable \div each
  BY <1>1, <1>2, <1>3 DEF Capacity, Unmeasured
<1>5. usable \in Nat
  BY <1>2, <1>3, <1>4
<1>6. PICK c \in Nat, rest \in Nat : c = usable \div each /\ usable = (c * each) + rest
  <2>1. /\ usable \div each \in Nat /\ usable % each \in Nat
        /\ usable = ((usable \div each) * each) + (usable % each)
    BY <1>1, <1>5, Division
  <2>. QED BY <2>1
<1>7. c * each \in Nat
  BY <1>1, <1>6
<1>8. c * each + 2 <= machine.available
  BY <1>2, <1>3, <1>5, <1>6, <1>7
<1>. QED BY <1>1, <1>2, <1>4, <1>6, <1>8

LEMMA SmartSound == SmartInv => SmartTypeOK /\ PlanIsRight /\ CapacityFits
<1>. SUFFICES ASSUME SmartInv PROVE SmartTypeOK /\ PlanIsRight /\ CapacityFits
  OBVIOUS
<1>1. SmartTypeOK
  BY DEF SmartInv, SmartTypeOK, Accepted, Config, OpenedOK, StarterOK
<1>2. ASSUME starter.at = "planned"
      PROVE  PlanRightFor(starter.plan, starter.request, Wanted(starter.request, starter.running, config), config)
  <2>1. /\ starter.request \in Seq(Ids) /\ config \in Config
        /\ starter.plan = PlanLaunches(starter.request, starter.running, config)
    BY <1>2 DEF SmartInv, StarterOK
  <2>. QED BY <2>1, PlanIsMade, PlanIsRightFor
<1>3. PlanIsRight
  BY <1>2 DEF PlanIsRight, PlanRightFor
<1>. QED BY <1>1, <1>3, CapacityIs

-----------------------------------------------------------------------------
(* Coordination.                                                            *)

\* A loop that keeps what it has not seen yet.
IsDistinct(d, s, S) ==
    d \in Seq(S) /\ IsInjective(d) /\ ToSet(d) \subseteq ToSet(s) /\ (s # <<>> => d # <<>>)
GrowsDistinct(g, s, S) ==
    /\ g \in [0..Len(s) -> Seq(S)] /\ g[0] = <<>> /\ g[Len(s)] = DistinctServers(s)
    /\ \A k \in 0..(Len(s) - 1) :
          g[k + 1] = IF s[k + 1] \in ToSet(g[k]) THEN g[k] ELSE Append(g[k], s[k + 1])

LEMMA DistinctFolds ==
    ASSUME NEW S, NEW s \in Seq(S)
    PROVE  \E g : GrowsDistinct(g, s, S)
<1>. DEFINE n == Len(s)
            Op == [p \in Seq(S) \X (1..n) |->
                     IF s[p[2]] \in ToSet(p[1]) THEN p[1] ELSE Append(p[1], s[p[2]])]
            Is(f) == f = [t \in SUBSET DOMAIN s |->
                            IF t = {} THEN <<>>
                            ELSE IF s[Max(t)] \in ToSet(f[t \ {Max(t)}]) THEN f[t \ {Max(t)}]
                                 ELSE Append(f[t \ {Max(t)}], s[Max(t)])]
<1>1. n \in Nat /\ DOMAIN s = 1..n /\ <<>> \in Seq(S)
  OBVIOUS
<1>2. Op \in [Seq(S) \X (1..n) -> Seq(S)]
  OBVIOUS
<1>3. \E f : Is(f)
  <2>. HIDE DEF Op
  <2>1. PICK f : IsLeftFold(f, n, Seq(S), <<>>, Op)
    BY <1>1, <1>2, LeftFoldIsThere
  <2>2. \A t \in SUBSET (1..n) : t # {} => Max(t) \in 1..n /\ f[t \ {Max(t)}] \in Seq(S)
    BY <1>1, <2>1, GreatestIsThere DEF IsLeftFold
  <2>3. Is(f)
    BY <1>1, <2>1, <2>2 DEF Op, IsLeftFold
  <2>. QED BY <2>3
<1>. DEFINE it == CHOOSE f : Is(f)
<1>4. DistinctServers(s) = it[DOMAIN s]
  BY DEF DistinctServers, FoldLeft, MapThenFoldSet
<1>5. Is(it)
  BY <1>3
<1>. HIDE DEF it
<1>6. Leftward(it, n, Seq(S), <<>>, Op)
  BY <1>1, <1>5, GreatestIsThere DEF Leftward
<1>. HIDE DEF Op
<1>7. PICK g : Rightward(g, it, n, Seq(S), <<>>, Op)
  BY <1>1, <1>2, <1>6, LeftToRight
<1>8. ASSUME NEW k \in 0..(n - 1)
      PROVE  g[k + 1] = IF s[k + 1] \in ToSet(g[k]) THEN g[k] ELSE Append(g[k], s[k + 1])
  <2>1. g[k + 1] = Op[<<g[k], k + 1>>] /\ g[k] \in Seq(S) /\ k + 1 \in 1..n
    BY <1>1, <1>7 DEF Rightward
  <2>. QED BY <2>1 DEF Op
<1>9. GrowsDistinct(g, s, S)
  BY <1>1, <1>4, <1>7, <1>8 DEF Rightward, GrowsDistinct
<1>. QED BY <1>9

LEMMA NewAppended ==
    ASSUME NEW S, NEW rows \in Seq(S), NEW x \in S
    PROVE  /\ ToSet(Append(rows, x)) = ToSet(rows) \cup {x} /\ Append(rows, x) # <<>>
           /\ IsInjective(rows) /\ x \notin ToSet(rows) => IsInjective(Append(rows, x))
<1>. DEFINE new == Append(rows, x)
<1>1. PICK n \in Nat : n = Len(rows)
  OBVIOUS
<1>2. DOMAIN rows = 1..n /\ DOMAIN new = 1..(n + 1)
  BY <1>1
<1>3. new[n + 1] = x /\ \A i \in 1..n : new[i] = rows[i]
  BY <1>1
<1>. HIDE DEF new
<1>4. ToSet(new) = ToSet(rows) \cup {x}
  <2>1. ASSUME NEW y \in ToSet(new) PROVE y \in ToSet(rows) \cup {x}
    <3>1. PICK i \in 1..(n + 1) : y = new[i]
      BY <1>2, <2>1 DEF ToSet
    <3>2. i \in 1..n \/ i = n + 1
      OBVIOUS
    <3>. QED BY <1>2, <1>3, <3>1, <3>2 DEF ToSet
  <2>2. ASSUME NEW y \in ToSet(rows) PROVE y \in ToSet(new)
    <3>1. PICK i \in 1..n : y = rows[i]
      BY <1>2, <2>2 DEF ToSet
    <3>. QED BY <1>2, <1>3, <3>1 DEF ToSet
  <2>3. x \in ToSet(new)
    BY <1>2, <1>3 DEF ToSet
  <2>. QED BY <2>1, <2>2, <2>3
<1>5. ASSUME IsInjective(rows), x \notin ToSet(rows) PROVE IsInjective(new)
  <2>1. \A i \in 1..n : new[i] # x
    BY <1>2, <1>3, <1>5 DEF ToSet
  <2>2. \A i \in 1..(n + 1) : i \in 1..n \/ i = n + 1
    OBVIOUS
  <2>. QED BY <1>2, <1>3, <1>5, <2>1, <2>2 DEF IsInjective
<1>6. new # <<>>
  BY <1>2
<1>. QED BY <1>4, <1>5, <1>6 DEF new

LEMMA DistinctIs == ASSUME NEW S, NEW s \in Seq(S) PROVE IsDistinct(DistinctServers(s), s, S)
<1>1. PICK n \in Nat : n = Len(s) /\ DOMAIN s = 1..n
  OBVIOUS
<1>2. PICK g : GrowsDistinct(g, s, S)
  BY DistinctFolds
<1>. DEFINE Good == {k \in 0..n : IsInjective(g[k]) /\ ToSet(g[k]) \subseteq ToSet(s) /\ (k > 0 => g[k] # <<>>)}
<1>3. 0 \in Good
  BY <1>2 DEF GrowsDistinct, IsInjective, ToSet
<1>4. ASSUME NEW k \in 0..(n - 1), k \in Good PROVE k + 1 \in Good
  <2>1. /\ g[k] \in Seq(S) /\ IsInjective(g[k]) /\ ToSet(g[k]) \subseteq ToSet(s) /\ k + 1 \in 1..n
        /\ g[k + 1] = IF s[k + 1] \in ToSet(g[k]) THEN g[k] ELSE Append(g[k], s[k + 1])
    BY <1>1, <1>2, <1>4 DEF GrowsDistinct
  <2>2. s[k + 1] \in S /\ s[k + 1] \in ToSet(s)
    BY <1>1, <2>1 DEF ToSet
  <2>3. CASE s[k + 1] \in ToSet(g[k])
    <3>1. g[k] # <<>>
      BY <2>1, <2>3 DEF ToSet
    <3>. QED BY <2>1, <2>3, <3>1
  <2>4. CASE s[k + 1] \notin ToSet(g[k])
    <3>1. g[k + 1] = Append(g[k], s[k + 1])
      BY <2>1, <2>4
    <3>2. IsInjective(g[k + 1]) /\ ToSet(g[k + 1]) \subseteq ToSet(s) /\ g[k + 1] # <<>>
      BY <2>1, <2>2, <2>4, <3>1, NewAppended
    <3>3. k + 1 \in 0..n
      BY <1>1
    <3>. HIDE DEF Good
    <3>. QED BY <3>2, <3>3 DEF Good
  <2>. QED BY <2>3, <2>4
<1>5. Good = 0..n
  <2>1. Good \subseteq 0..n
    OBVIOUS
  <2>. HIDE DEF Good
  <2>. QED BY <1>3, <1>4, <2>1, StepByStep
<1>6. n \in Good /\ g[n] = DistinctServers(s) /\ g[n] \in Seq(S) /\ (s # <<>> => n > 0)
  BY <1>1, <1>2, <1>5 DEF GrowsDistinct
<1>. QED BY <1>6 DEF IsDistinct

\* Those who are asked for, each once.
LEMMA DistinctAsked ==
    ASSUME NEW wish \in Seq(Crew) PROVE Distinct(wish) \in Seq(Crew) /\ IsInjective(Distinct(wish))
<1>1. AsGiven(wish) \in Seq(Crew)
  BY CoordinationAssumption DEF AsGiven, CoordinationAssumption
<1>2. Distinct(wish) = DistinctServers(AsGiven(wish))
  BY DEF Distinct, DistinctServers
<1>. QED BY <1>1, <1>2, DistinctIs DEF IsDistinct

\* What a plan promises, said of any plan.
PlacesAll(plan) ==
    /\ IsInjective(plan.asked) /\ Len(plan.steps) + Len(plan.unassigned) = Len(plan.asked)
    /\ \A i \in DOMAIN plan.asked :
          plan.asked[i] = IF i <= Len(plan.steps) THEN plan.steps[i].account
                          ELSE plan.unassigned[i - Len(plan.steps)]
CrowdsNone(plan) ==
    /\ \A job \in ToSet(plan.servers) : Cardinality(SentTo(plan, job)) <= plan.perServer
    /\ plan.unassigned # <<>> =>
          \A job \in ToSet(plan.servers) : Cardinality(SentTo(plan, job)) = plan.perServer
Meets(plan) ==
    /\ \A i \in DOMAIN plan.steps : /\ plan.steps[i].role = "main" <=> i = 1
                                    /\ plan.steps[i].job = plan.steps[1].job
    /\ plan.mode = "party" => Len(plan.steps) <= MaxParty
PlanFits(plan) ==
    /\ plan.mode \in {"none", "spread", "followers", "sync", "party", "profile"}
    /\ plan.mode \notin {"none", "profile"} => PlacesAll(plan)
    /\ plan.mode = "spread" /\ plan.servers # <<>> => CrowdsNone(plan)
    /\ plan.mode \in {"followers", "party"} => Meets(plan)

\* A split of the request: the first ones are sent, the others are not.
SplitsAt(plan, rows, m) ==
    /\ plan.asked = rows /\ plan.unassigned = SubSeq(rows, m + 1, Len(rows))
    /\ Len(plan.steps) = m /\ \A i \in 1..m : plan.steps[i].account = rows[i]
LEMMA SplitIs ==
    ASSUME NEW rows \in Seq(Crew), IsInjective(rows), NEW m \in 0..Len(rows), NEW plan, SplitsAt(plan, rows, m)
    PROVE  PlacesAll(plan)
<1>. USE DEF SplitsAt
<1>1. PICK n \in Nat : n = Len(rows) /\ DOMAIN rows = 1..n /\ m \in 0..n
  OBVIOUS
<1>2. PICK rest : rest = SubSeq(rows, m + 1, n)
  OBVIOUS
<1>3. Len(rest) = n - m /\ \A i \in 1..(n - m) : rest[i] = rows[m + i]
  BY <1>1, <1>2
<1>4. plan.unassigned = rest
  BY <1>1, <1>2
<1>5. m + (n - m) = n
  BY <1>1
<1>6. Len(plan.steps) + Len(plan.unassigned) = Len(plan.asked)
  BY <1>1, <1>3, <1>4, <1>5
<1>7. ASSUME NEW i \in 1..n
      PROVE  rows[i] = IF i <= m THEN plan.steps[i].account ELSE rest[i - m]
  <2>1. CASE i <= m
    BY <1>1, <2>1
  <2>2. CASE ~ (i <= m)
    <3>1. i - m \in 1..(n - m) /\ m + (i - m) = i
      BY <1>1, <2>2
    <3>. QED BY <1>3, <2>2, <3>1
  <2>. QED BY <2>1, <2>2
<1>. QED BY <1>1, <1>4, <1>6, <1>7 DEF PlacesAll

LEMMA AllToIs ==
    ASSUME NEW rows \in Seq(Crew), NEW job, NEW first, NEW rest
    PROVE  LET steps == AllTo(rows, job, first, rest)
           IN  /\ DOMAIN steps = 1..Len(rows) /\ Len(steps) = Len(rows)
               /\ \A i \in 1..Len(rows) : /\ steps[i].account = rows[i] /\ steps[i].job = job
                                          /\ steps[i].role = IF i = 1 THEN first ELSE rest
<1>1. PICK n \in Nat : n = Len(rows) /\ DOMAIN rows = 1..n
  OBVIOUS
<1>2. AllTo(rows, job, first, rest) = [i \in 1..n |-> Sent(rows[i], job, IF i = 1 THEN first ELSE rest)]
  BY <1>1 DEF AllTo
<1>. QED BY <1>1, <1>2, LenProperties DEF Sent

LEMMA GroupPlanFits ==
    ASSUME NEW rows \in Seq(Crew), IsInjective(rows), NEW job
    PROVE  PlanFits(FollowerPlan(rows, job)) /\ PlanFits(SyncPlan(rows, job)) /\ PlanFits(PartyPlan(rows, job))
<1>1. PICK n \in Nat : n = Len(rows) /\ DOMAIN rows = 1..n
  OBVIOUS
<1>2. SubSeq(rows, n + 1, Len(rows)) = <<>>
  BY <1>1
<1>3. PlanFits(FollowerPlan(rows, job))
  <2>. DEFINE plan == FollowerPlan(rows, job)
  <2>1. /\ plan.mode = "followers" /\ plan.asked = rows /\ plan.unassigned = <<>>
        /\ plan.steps = AllTo(rows, job, "main", "follower")
    BY DEF FollowerPlan, Plan
  <2>2. /\ DOMAIN plan.steps = 1..n /\ Len(plan.steps) = n
        /\ \A i \in 1..n : /\ plan.steps[i].account = rows[i] /\ plan.steps[i].job = job
                           /\ plan.steps[i].role = IF i = 1 THEN "main" ELSE "follower"
    BY <1>1, <2>1, AllToIs
  <2>. HIDE DEF plan
  <2>3. PlacesAll(plan)
    <3>1. SplitsAt(plan, rows, n)
      BY <1>1, <1>2, <2>1, <2>2 DEF SplitsAt
    <3>2. n \in 0..Len(rows)
      BY <1>1
    <3>. QED BY <3>1, <3>2, SplitIs
  <2>4. Meets(plan)
    <3>1. \A i \in 1..n : 1 \in 1..n
      OBVIOUS
    <3>. QED BY <2>1, <2>2, <3>1 DEF Meets
  <2>5. plan.mode = "followers"
    BY <2>1
  <2>9. PlanFits(plan)
    BY <2>3, <2>4, <2>5 DEF PlanFits
  <2>. QED BY <2>9 DEF plan
<1>4. PlanFits(SyncPlan(rows, job))
  <2>. DEFINE plan == SyncPlan(rows, job)
  <2>1. /\ plan.mode = "sync" /\ plan.asked = rows /\ plan.unassigned = <<>>
        /\ plan.steps = AllTo(rows, job, "member", "member")
    BY DEF SyncPlan, Plan
  <2>2. Len(plan.steps) = n /\ \A i \in 1..n : plan.steps[i].account = rows[i]
    BY <1>1, <2>1, AllToIs
  <2>. HIDE DEF plan
  <2>3. PlacesAll(plan)
    <3>1. SplitsAt(plan, rows, n)
      BY <1>1, <1>2, <2>1, <2>2 DEF SplitsAt
    <3>2. n \in 0..Len(rows)
      BY <1>1
    <3>. QED BY <3>1, <3>2, SplitIs
  <2>4. plan.mode = "sync"
    BY <2>1
  <2>9. PlanFits(plan)
    BY <2>3, <2>4 DEF PlanFits
  <2>. QED BY <2>9 DEF plan
<1>5. PlanFits(PartyPlan(rows, job))
  <2>. DEFINE plan == PartyPlan(rows, job)
  <2>0. PICK m \in 0..n : m = (IF n > MaxParty THEN MaxParty ELSE n) /\ m <= MaxParty
    BY <1>1, CoordinationAssumption DEF CoordinationAssumption
  <2>1. /\ plan.mode = "party" /\ plan.asked = rows /\ plan.unassigned = SubSeq(rows, m + 1, n)
        /\ plan.steps = AllTo(SubSeq(rows, 1, m), job, "main", "member")
    BY <1>1, <2>0 DEF PartyPlan, Plan
  <2>2. /\ SubSeq(rows, 1, m) \in Seq(Crew) /\ Len(SubSeq(rows, 1, m)) = m
        /\ \A i \in 1..m : SubSeq(rows, 1, m)[i] = rows[i]
    BY <1>1
  <2>3. /\ DOMAIN plan.steps = 1..m /\ Len(plan.steps) = m
        /\ \A i \in 1..m : /\ plan.steps[i].account = rows[i] /\ plan.steps[i].job = job
                           /\ plan.steps[i].role = IF i = 1 THEN "main" ELSE "member"
    <3>1. PICK part_ \in Seq(Crew) : part_ = SubSeq(rows, 1, m) /\ Len(part_) = m /\ \A i \in 1..m : part_[i] = rows[i]
      BY <2>2
    <3>2. plan.steps = AllTo(part_, job, "main", "member")
      BY <2>1, <3>1
    <3>3. /\ DOMAIN plan.steps = 1..Len(part_) /\ Len(plan.steps) = Len(part_)
          /\ \A i \in 1..Len(part_) : /\ plan.steps[i].account = part_[i] /\ plan.steps[i].job = job
                                       /\ plan.steps[i].role = IF i = 1 THEN "main" ELSE "member"
      BY <3>2, AllToIs
    <3>. QED BY <3>1, <3>3
  <2>. HIDE DEF plan
  <2>4. PlacesAll(plan)
    <3>1. SplitsAt(plan, rows, m)
      BY <1>1, <2>1, <2>3 DEF SplitsAt
    <3>2. m \in 0..Len(rows)
      BY <1>1
    <3>. QED BY <3>1, <3>2, SplitIs
  <2>5. Meets(plan)
    <3>1. \A i \in 1..m : 1 \in 1..m
      OBVIOUS
    <3>. QED BY <2>0, <2>1, <2>3, <3>1 DEF Meets
  <2>6. plan.mode = "party"
    BY <2>1
  <2>9. PlanFits(plan)
    BY <2>4, <2>5, <2>6 DEF PlanFits
  <2>. QED BY <2>9 DEF plan
<1>. QED BY <1>3, <1>4, <1>5

\* The servers of a spread are filled one after the other.
LEMMA SpreadFits ==
    ASSUME NEW rows \in Seq(Crew), IsInjective(rows), NEW servers \in Seq(Places), NEW perServer \in Nat \ {0}
    PROVE  /\ PlanFits(SpreadPlan(rows, servers, perServer))
           /\ servers # <<>> =>
                 LET steps == SpreadPlan(rows, servers, perServer).steps
                 IN  \A i \in DOMAIN steps : steps[i].job \in ToSet(servers)
<1>1. PICK n \in Nat : n = Len(rows) /\ DOMAIN rows = 1..n
  OBVIOUS
<1>2. PICK pool : pool = DistinctServers(servers)
  OBVIOUS
<1>3. pool \in Seq(Places) /\ IsInjective(pool) /\ ToSet(pool) \subseteq ToSet(servers) /\ (servers # <<>> => pool # <<>>)
  BY <1>2, DistinctIs DEF IsDistinct
<1>4. PICK q \in Nat : q = Len(pool) /\ DOMAIN pool = 1..q
  BY <1>3
<1>5. PICK room \in Nat : room = q * perServer
  BY <1>4
<1>6. PICK seated \in 0..n : seated = IF pool # <<>> /\ n > room THEN room ELSE n
  BY <1>1, <1>5
<1>7. PICK plan : plan = SpreadPlan(rows, servers, perServer)
  OBVIOUS
<1>8. /\ plan.mode = "spread" /\ plan.asked = rows /\ plan.servers = pool /\ plan.perServer = perServer
      /\ plan.unassigned = SubSeq(rows, seated + 1, n)
      /\ plan.steps = [i \in 1..seated |-> Sent(rows[i], IF pool = <<>> THEN Anywhere
                                                ELSE pool[((i - 1) \div perServer) + 1], "member")]
  BY <1>1, <1>2, <1>4, <1>5, <1>6, <1>7 DEF SpreadPlan, Plan
<1>9. /\ DOMAIN plan.steps = 1..seated /\ Len(plan.steps) = seated
      /\ \A i \in 1..seated : plan.steps[i].account = rows[i]
  BY <1>8, <1>6, LenProperties DEF Sent
<1>10. PlacesAll(plan)
  <2>1. SplitsAt(plan, rows, seated) /\ seated \in 0..Len(rows)
    BY <1>1, <1>6, <1>8, <1>9 DEF SplitsAt
  <2>. QED BY <2>1, SplitIs
<1>11. ASSUME NEW i \in 1..seated, pool # <<>>
       PROVE  (i - 1) \div perServer \in 0..(q - 1) /\ plan.steps[i].job = pool[((i - 1) \div perServer) + 1]
  <2>1. PICK m \in Nat : m = i - 1 /\ m < q * perServer
    BY <1>5, <1>6, <1>11
  <2>2. PICK d : d = m \div perServer
    OBVIOUS
  <2>3. d \in Nat /\ d * perServer <= m
    BY <2>2, Division
  <2>4. d < q
    <3>1. SUFFICES ASSUME d >= q PROVE FALSE
      BY <1>4, <2>3
    <3>2. d * perServer >= q * perServer
      BY <1>4, <2>3, <3>1
    <3>. QED BY <1>4, <2>1, <2>3, <3>2
  <2>5. plan.steps[i].job = pool[d + 1]
    BY <1>8, <1>11, <2>1, <2>2 DEF Sent
  <2>. QED BY <1>4, <2>1, <2>2, <2>3, <2>4, <2>5
<1>12. ASSUME pool # <<>>, NEW job \in ToSet(pool)
       PROVE  /\ Cardinality(SentTo(plan, job)) <= perServer
              /\ seated = room => Cardinality(SentTo(plan, job)) = perServer
  <2>1. PICK k \in 1..q : job = pool[k]
    BY <1>4, <1>12 DEF ToSet
  <2>2. PICK w \in Nat : w = k - 1 /\ w < q
    BY <1>4
  <2>3. BlockIs(w, perServer)
    BY <2>2, Blocks
  <2>4. PICK a \in Nat : a = w * perServer
    BY <2>2
  <2>5. /\ IsFiniteSet((a + 1)..(a + perServer)) /\ Cardinality((a + 1)..(a + perServer)) = perServer
        /\ \A m \in Nat : m \div perServer = w <=> a <= m /\ m < a + perServer
    BY <2>3, <2>4 DEF BlockIs
  <2>6. a + perServer <= room
    <3>1. (w + 1) * perServer <= q * perServer /\ (w + 1) * perServer = w * perServer + perServer
      BY <1>4, <2>2
    <3>. QED BY <1>5, <2>4, <3>1
  <2>7. \A i \in 1..seated : plan.steps[i].job = job <=> (i - 1) \div perServer = w
    <3>. SUFFICES ASSUME NEW i \in 1..seated PROVE plan.steps[i].job = job <=> (i - 1) \div perServer = w
      OBVIOUS
    <3>1. PICK d : d = (i - 1) \div perServer
      OBVIOUS
    <3>2. d \in 0..(q - 1) /\ plan.steps[i].job = pool[d + 1]
      BY <1>11, <1>12, <3>1
    <3>3. d + 1 \in 1..q /\ (d + 1 = k <=> d = w)
      BY <1>4, <2>2, <3>2
    <3>4. pool[d + 1] = pool[k] => d + 1 = k
      BY <1>3, <1>4, <3>3 DEF IsInjective
    <3>. QED BY <2>1, <3>1, <3>2, <3>3, <3>4
  <2>8. SentTo(plan, job) = {i \in 1..seated : i \in (a + 1)..(a + perServer)}
    <3>1. \A i \in 1..seated : plan.steps[i].job = job <=> i \in (a + 1)..(a + perServer)
      <4>. SUFFICES ASSUME NEW i \in 1..seated PROVE plan.steps[i].job = job <=> i \in (a + 1)..(a + perServer)
        OBVIOUS
      <4>1. PICK m \in Nat : m = i - 1 /\ i = m + 1
        OBVIOUS
      <4>2. m \div perServer = w <=> a <= m /\ m < a + perServer
        BY <2>5
      <4>3. a <= m /\ m < a + perServer <=> i \in (a + 1)..(a + perServer)
        BY <4>1
      <4>. QED BY <2>7, <4>1, <4>2, <4>3
    <3>. QED BY <1>9, <3>1 DEF SentTo
  <2>9. Cardinality(SentTo(plan, job)) <= perServer
    BY <2>5, <2>8, FS_Subset
  <2>10. seated = room => SentTo(plan, job) = (a + 1)..(a + perServer)
    BY <1>6, <2>6, <2>8
  <2>. QED BY <2>5, <2>9, <2>10
<1>13. plan.unassigned # <<>> /\ pool # <<>> => seated = room
  <2>1. SubSeq(rows, n + 1, n) = <<>>
    BY <1>1
  <2>. QED BY <1>6, <1>8, <2>1
<1>14. plan.servers # <<>> => CrowdsNone(plan)
  BY <1>8, <1>12, <1>13 DEF CrowdsNone
<1>15. PlanFits(plan)
  <2>1. plan.mode = "spread"
    BY <1>8
  <2>. QED BY <1>10, <1>14, <2>1 DEF PlanFits
<1>16. ASSUME servers # <<>>, NEW i \in 1..seated PROVE plan.steps[i].job \in ToSet(servers)
  <2>1. PICK d : d = (i - 1) \div perServer
    OBVIOUS
  <2>2. d \in 0..(q - 1) /\ plan.steps[i].job = pool[d + 1]
    BY <1>3, <1>11, <1>16, <2>1
  <2>3. d + 1 \in 1..q
    BY <1>4, <2>2
  <2>4. pool[d + 1] \in ToSet(pool)
    BY <1>4, <2>3 DEF ToSet
  <2>. QED BY <1>3, <2>2, <2>4
<1>. QED BY <1>7, <1>9, <1>15, <1>16

ProfileRow == [id : Profiles \cup {CHOOSE id \in Profiles : TRUE}, to : Places \cup {Anywhere, PrivateServer}]
PageRow == [job : Places, free : 0..2]

AreProfiles(rows) ==
    /\ rows \in Seq(ProfileRow) /\ Len(rows) <= MaxProfiles
    /\ \A i, j \in DOMAIN rows : i # j => rows[i].id # rows[j].id
DistributionOK ==
    /\ distribution.at \in {"idle", "planned"}
    /\ distribution.at = "planned" =>
          /\ distribution.asked \in Seq(Crew) /\ distribution.servers \in Seq(Places)
          /\ distribution.perServer \in PerServer /\ (distribution.some => distribution.servers # <<>>)
EditOK ==
    /\ profileEdit.at \in {"idle", "save"}
    /\ profileEdit.at = "save" =>
          /\ profileEdit.profile \in ProfileRow /\ AreProfiles(profileEdit.rows)
          /\ Len(Without(profileEdit.rows, profileEdit.profile.id)) < MaxProfiles
CoordinationInv ==
    /\ crew \subseteq Crew /\ listed \in Seq(Places) /\ recalled \in Seq(Places)
    /\ PlanFits(queue) /\ AreProfiles(profiles) /\ DistributionOK /\ EditOK

\* A ranking names servers that were listed.
LEMMA RankingFits == ASSUME NEW rows \in Seq(PageRow), NEW blocked PROVE Ranking(rows, blocked) \in Seq(Places)
<1>. DEFINE ScoreRow == [job : Places, score : 0..2]
<1>1. PICK scored : scored = [i \in DOMAIN rows |-> Scored(rows[i], blocked)]
  OBVIOUS
<1>2. PICK n \in Nat : n = Len(rows) /\ DOMAIN rows = 1..n
  OBVIOUS
<1>3. scored \in Seq(ScoreRow)
  <2>1. \A e \in PageRow : Scored(e, blocked) \in ScoreRow
    BY DEF Scored, PageRow
  <2>2. \A i \in 1..n : rows[i] \in PageRow
    BY <1>2
  <2>. HIDE DEF ScoreRow
  <2>3. scored \in [1..n -> ScoreRow]
    BY <1>1, <1>2, <2>1, <2>2
  <2>. QED BY <1>2, <2>3, IsASeq
<1>. HIDE DEF ScoreRow
<1>4. PICK eligible : eligible = Taken(scored, {i \in DOMAIN scored : scored[i].score > 0})
  OBVIOUS
<1>5. eligible \in Seq(ScoreRow)
  <2>1. {i \in DOMAIN scored : scored[i].score > 0} \subseteq DOMAIN scored
    OBVIOUS
  <2>. QED BY <1>3, <1>4, <2>1, TakenFits
<1>6. PICK m \in Nat : m = Len(eligible) /\ DOMAIN eligible = 1..m
  BY <1>5
<1>7. PICK before : before = {p \in (1..m) \X (1..m) : eligible[p[1]].score > eligible[p[2]].score}
  OBVIOUS
<1>8. PICK ranked : ranked = Sorted(eligible, before)
  OBVIOUS
<1>9. Keyed(before, 1..m)
  <2>1. \A i \in 1..m : eligible[i].score \in Nat
    <3>1. \A e \in ScoreRow : e.score \in Nat
      BY DEF ScoreRow
    <3>. QED BY <1>5, <1>6, <3>1
  <2>2. \A i, j \in 1..m : <<i, j>> \in before <=> eligible[i].score > eligible[j].score
    BY <1>7
  <2>3. \A i, j, k \in 1..m : <<i, j>> \in before /\ <<j, k>> \in before => <<i, k>> \in before
    BY <2>1, <2>2
  <2>4. \A i, j, k \in 1..m : <<i, k>> \in before => <<i, j>> \in before \/ <<j, k>> \in before
    BY <2>1, <2>2
  <2>5. \A i \in 1..m : <<i, i>> \notin before
    BY <2>1, <2>2
  <2>. QED BY <2>3, <2>4, <2>5 DEF Keyed
<1>10. PICK p : Shuffled(p, m, before) /\ ranked = [k \in 1..m |-> eligible[p[k]]]
  BY <1>6, <1>8, <1>9, SortedInOrder DEF SortedAre
<1>11. DOMAIN ranked = 1..m /\ \A k \in 1..m : ranked[k].job \in Places
  <2>1. \A k \in 1..m : p[k] \in 1..m
    BY <1>10 DEF Shuffled
  <2>2. \A i \in 1..m : eligible[i].job \in Places
    <3>1. \A e \in ScoreRow : e.job \in Places
      BY DEF ScoreRow
    <3>. QED BY <1>5, <1>6, <3>1
  <2>. QED BY <1>10, <2>1, <2>2
<1>12. Ranking(rows, blocked) = [k \in DOMAIN ranked |-> ranked[k].job]
  <2>1. before = {e \in (DOMAIN eligible) \X (DOMAIN eligible) : eligible[e[1]].score > eligible[e[2]].score}
    BY <1>6, <1>7
  <2>. QED BY <1>1, <1>4, <1>8, <2>1 DEF Ranking
<1>13. Ranking(rows, blocked) \in [1..m -> Places]
  BY <1>11, <1>12
<1>. QED BY <1>6, <1>13, IsASeq

LEMMA PagesFit == \A rows \in Pages : rows \in Seq(PageRow)
<1>. SUFFICES ASSUME NEW rows \in Pages PROVE rows \in Seq(PageRow)
  OBVIOUS
<1>1. CASE rows = <<>>
  BY <1>1
<1>2. CASE \E job \in Places, m \in 0..1 : rows = <<[job |-> job, free |-> m]>>
  <2>1. PICK e \in PageRow : rows = <<e>>
    BY <1>2 DEF PageRow
  <2>. QED BY <2>1
<1>3. CASE \E job \in Places, other \in Places, m \in {0, 2} :
               rows = <<[job |-> job, free |-> 1], [job |-> other, free |-> m]>>
  <2>1. PICK d \in PageRow, e \in PageRow : rows = <<d, e>>
    BY <1>3 DEF PageRow
  <2>. QED BY <2>1
<1>. QED BY <1>1, <1>2, <1>3 DEF Pages

\* The rows of other profiles are different ones too, and Append adds one that is new.
LEMMA WithoutFits ==
    ASSUME NEW rows, AreProfiles(rows), NEW id
    PROVE  AreProfiles(Without(rows, id)) /\ \A i \in DOMAIN Without(rows, id) : Without(rows, id)[i].id # id
<1>. DEFINE S == {i \in DOMAIN rows : rows[i].id # id}
<1>1. PICK new : new = Without(rows, id)
  OBVIOUS
<1>2. new = Taken(rows, S) /\ rows \in Seq(ProfileRow) /\ S \subseteq DOMAIN rows
  BY <1>1 DEF Without, AreProfiles
<1>3. new \in Seq(ProfileRow) /\ Len(new) <= Len(rows) /\ TakenFrom(new, rows, S)
  <2>. HIDE DEF S
  <2>. QED BY <1>2, TakenFits
<1>4. PICK p : TakenBy(p, new, rows, S)
  BY <1>3 DEF TakenFrom
<1>5. Len(new) <= MaxProfiles
  BY <1>2, <1>3, CoordinationAssumption DEF AreProfiles, CoordinationAssumption
<1>6. \A i \in DOMAIN new : p[i] \in DOMAIN rows /\ new[i] = rows[p[i]] /\ rows[p[i]].id # id
  BY <1>4 DEF TakenBy
<1>7. ASSUME NEW i \in DOMAIN new, NEW j \in DOMAIN new, i # j PROVE new[i].id # new[j].id
  <2>1. i < j \/ j < i
    BY <1>3, <1>7
  <2>2. p[i] # p[j]
    <3>1. p[i] \in Nat /\ p[j] \in Nat
      BY <1>2, <1>6
    <3>2. p[i] < p[j] \/ p[j] < p[i]
      BY <1>4, <2>1 DEF TakenBy
    <3>. QED BY <3>1, <3>2
  <2>. QED BY <1>6, <2>2 DEF AreProfiles
<1>. QED BY <1>1, <1>3, <1>5, <1>6, <1>7 DEF AreProfiles

LEMMA UpsertFits ==
    ASSUME NEW rows, AreProfiles(rows), NEW profile \in ProfileRow, Len(Without(rows, profile.id)) < MaxProfiles
    PROVE  AreProfiles(Upserted(rows, profile))
<1>1. PICK old : old = Without(rows, profile.id)
  OBVIOUS
<1>2. /\ old \in Seq(ProfileRow) /\ Len(old) < MaxProfiles
      /\ \A i, j \in DOMAIN old : i # j => old[i].id # old[j].id
      /\ \A i \in DOMAIN old : old[i].id # profile.id
  BY <1>1, WithoutFits DEF AreProfiles
<1>3. PICK n \in Nat : n = Len(old) /\ DOMAIN old = 1..n
  BY <1>2
<1>4. PICK new : new = Append(old, profile)
  OBVIOUS
<1>5. /\ new \in Seq(ProfileRow) /\ Len(new) = n + 1 /\ DOMAIN new = 1..(n + 1)
      /\ new[n + 1] = profile /\ \A i \in 1..n : new[i] = old[i]
  BY <1>2, <1>3, <1>4
<1>6. n + 1 <= MaxProfiles
  BY <1>2, <1>3, CoordinationAssumption DEF CoordinationAssumption
<1>7. \A i \in 1..(n + 1) : i \in 1..n \/ i = n + 1
  BY <1>3
<1>8. \A i, j \in 1..(n + 1) : i # j => new[i].id # new[j].id
  BY <1>2, <1>3, <1>5, <1>7
<1>9. AreProfiles(new)
  BY <1>5, <1>6, <1>8 DEF AreProfiles
<1>. QED BY <1>1, <1>4, <1>9 DEF Upserted

LEMMA CoordinationBegins == CoordinationInit => CoordinationInv
<1>. SUFFICES ASSUME CoordinationInit PROVE CoordinationInv
  OBVIOUS
<1>1. crew \subseteq Crew /\ recalled \in Seq(Places) /\ listed \in Seq(Places)
  <2>1. crew \subseteq Crew /\ recalled = <<>> /\ (listed = <<>> \/ \E job \in Places : listed = <<job>>)
    BY DEF CoordinationInit
  <2>2. \A job \in Places : <<job>> \in Seq(Places)
    OBVIOUS
  <2>3. listed \in Seq(Places)
    <3>1. CASE listed = <<>>
      BY <3>1
    <3>2. ASSUME NEW job \in Places, listed = <<job>> PROVE listed \in Seq(Places)
      BY <3>2
    <3>. QED BY <2>1, <3>1, <3>2
  <2>. QED BY <2>1, <2>3
<1>2. PlanFits(queue)
  <2>1. queue.mode = "none"
    BY DEF CoordinationInit, NothingQueued, Plan
  <2>. QED BY <2>1 DEF PlanFits
<1>3. AreProfiles(profiles)
  <2>1. CASE profiles = <<>>
    BY <2>1, CoordinationAssumption DEF AreProfiles, CoordinationAssumption
  <2>2. CASE profiles = <<[id |-> CHOOSE id \in Profiles : TRUE, to |-> Anywhere]>>
    <3>1. PICK e \in ProfileRow : profiles = <<e>>
      BY <2>2 DEF ProfileRow
    <3>. QED BY <3>1, CoordinationAssumption DEF AreProfiles, CoordinationAssumption
  <2>. QED BY <2>1, <2>2 DEF CoordinationInit
<1>4. DistributionOK /\ EditOK
  BY DEF CoordinationInit, DistributionOK, EditOK, IdleDistribution, IdleEdit
<1>. QED BY <1>1, <1>2, <1>3, <1>4 DEF CoordinationInv

\* Whatever is queued fits.
LEMMA QueueStep ==
    ASSUME CoordinationInv, PlanFits(queue'),
           UNCHANGED <<crew, listed, recalled, distribution, profiles, profileEdit>>
    PROVE  CoordinationInv'
BY DEF CoordinationInv, DistributionOK, EditOK

LEMMA AskedFits == \A wish \in Selections : wish \in Seq(Crew)
BY CoordinationAssumption DEF CoordinationAssumption
LEMMA ListsFit == \A servers \in Lists \cup {<<>>} : servers \in Seq(Places)
<1>. SUFFICES ASSUME NEW servers \in Lists \cup {<<>>} PROVE servers \in Seq(Places)
  OBVIOUS
<1>1. CASE servers = <<>>
  BY <1>1
<1>2. CASE \E job \in Places : servers = <<job>>
  BY <1>2
<1>3. CASE \E job \in Places, other \in Places : servers = <<job, other>>
  BY <1>3
<1>. QED BY <1>1, <1>2, <1>3 DEF Lists

LEMMA RunStep ==
    ASSUME CoordinationInv, NEW wish \in Selections,
           \/ \E perServer \in PerServer, servers \in Lists \cup {<<>>} : RunSpread(wish, servers, perServer)
           \/ \E job \in Destinations : RunFollowers(wish, job) \/ RunSync(wish, job) \/ RunParty(wish, job)
           \/ LaunchWithProfile(wish)
    PROVE  CoordinationInv'
<1>1. Distinct(wish) \in Seq(Crew) /\ IsInjective(Distinct(wish))
  BY AskedFits, DistinctAsked
<1>2. ASSUME NEW perServer \in PerServer, NEW servers \in Lists \cup {<<>>}, RunSpread(wish, servers, perServer)
      PROVE  CoordinationInv'
  <2>1. Pool(servers) \in Seq(Places) /\ perServer \in Nat \ {0}
    BY ListsFit, CoordinationAssumption DEF CoordinationInv, Pool, CoordinationAssumption
  <2>2. PlanFits(queue')
    BY <1>1, <1>2, <2>1, SpreadFits DEF RunSpread, Queues
  <2>. QED BY <1>2, <2>2, QueueStep DEF RunSpread
<1>3. ASSUME NEW job \in Destinations, RunFollowers(wish, job) \/ RunSync(wish, job) \/ RunParty(wish, job)
      PROVE  CoordinationInv'
  <2>1. PlanFits(queue')
    BY <1>1, <1>3, GroupPlanFits DEF RunFollowers, RunSync, RunParty, Queues
  <2>. QED BY <1>3, <2>1, QueueStep DEF RunFollowers, RunSync, RunParty
<1>4. CASE LaunchWithProfile(wish)
  <2>1. queue'.mode = "profile"
    BY <1>4 DEF LaunchWithProfile, Queues, Plan
  <2>2. PlanFits(queue')
    BY <2>1 DEF PlanFits
  <2>. QED BY <1>4, <2>2, QueueStep DEF LaunchWithProfile
<1>. QED BY <1>2, <1>3, <1>4

LEMMA PlanDistributionStep ==
    ASSUME CoordinationInv, NEW wish \in Selections, NEW perServer \in PerServer, PlanDistribution(wish, perServer)
    PROVE  CoordinationInv'
<1>1. Pool(listed) \in Seq(Places) /\ (listed # <<>> => Pool(listed) # <<>>)
  BY DEF CoordinationInv, Pool
<1>2. DistributionOK'
  BY <1>1, AskedFits DEF PlanDistribution, DistributionOK
<1>. QED BY <1>2 DEF PlanDistribution, CoordinationInv, EditOK

\* What a distribution sends where.
LEMMA DistributionKeeps ==
    ASSUME CoordinationInv, RunDistribution, queue' # queue
    PROVE  /\ PlanFits(queue')
           /\ distribution.some => \A i \in DOMAIN queue'.steps : queue'.steps[i].job \in ToSet(distribution.servers)
<1>. DEFINE rows == Distinct(distribution.asked)
            servers == Pool(distribution.servers)
<1>1. queue' = SpreadPlan(rows, servers, distribution.perServer) /\ distribution.at = "planned"
  BY DEF RunDistribution, Queues
<1>2. /\ rows \in Seq(Crew) /\ IsInjective(rows) /\ distribution.perServer \in Nat \ {0}
      /\ servers \in Seq(Places) /\ (distribution.some => servers = distribution.servers /\ servers # <<>>)
  <2>1. /\ distribution.asked \in Seq(Crew) /\ distribution.servers \in Seq(Places)
        /\ distribution.perServer \in PerServer /\ (distribution.some => distribution.servers # <<>>)
    BY <1>1 DEF CoordinationInv, DistributionOK
  <2>2. rows \in Seq(Crew) /\ IsInjective(rows)
    BY <2>1, DistinctAsked
  <2>. QED BY <2>1, <2>2, CoordinationAssumption DEF CoordinationInv, Pool, CoordinationAssumption
<1>. HIDE DEF rows, servers
<1>. QED BY <1>1, <1>2, SpreadFits

LEMMA RunDistributionStep == ASSUME CoordinationInv, RunDistribution PROVE CoordinationInv'
<1>1. PlanFits(queue')
  BY DistributionKeeps DEF CoordinationInv
<1>. QED BY <1>1 DEF RunDistribution, CoordinationInv, DistributionOK, IdleDistribution, EditOK

LEMMA ListStep ==
    ASSUME CoordinationInv, NEW rows \in Pages, NEW blocked \in SUBSET Places, ListServers(rows, blocked)
    PROVE  CoordinationInv'
<1>1. listed' \in Seq(Places)
  BY PagesFit, RankingFits DEF ListServers
<1>. QED BY <1>1 DEF ListServers, CoordinationInv, DistributionOK, EditOK

LEMMA RecallStep == ASSUME CoordinationInv, NEW job \in Places, RecallServer(job) PROVE CoordinationInv'
<1>. DEFINE S == {i \in DOMAIN recalled : recalled[i] # job}
<1>1. Taken(recalled, S) \in Seq(Places)
  <2>1. recalled \in Seq(Places) /\ S \subseteq DOMAIN recalled
    BY DEF CoordinationInv
  <2>. HIDE DEF S
  <2>. QED BY <2>1, TakenFits
<1>2. recalled' = <<job>> \o Taken(recalled, S)
  BY DEF RecallServer
<1>. HIDE DEF S
<1>3. recalled' \in Seq(Places)
  BY <1>1, <1>2
<1>. QED BY <1>3 DEF RecallServer, CoordinationInv, DistributionOK, EditOK

LEMMA ProfileStep ==
    ASSUME CoordinationInv,
           \/ \E id \in Profiles, to \in Places \cup {PrivateServer} : ReadProfiles([id |-> id, to |-> to])
           \/ WriteProfiles
           \/ \E id \in Profiles : DeleteProfile(id)
    PROVE  CoordinationInv'
<1>1. ASSUME NEW id \in Profiles, NEW to \in Places \cup {PrivateServer}, ReadProfiles([id |-> id, to |-> to])
      PROVE  CoordinationInv'
  <2>1. PICK profile \in ProfileRow : profile = [id |-> id, to |-> to]
    BY DEF ProfileRow
  <2>2. EditOK'
    BY <1>1, <2>1 DEF ReadProfiles, EditOK, CoordinationInv, AreProfiles, Without
  <2>. QED BY <1>1, <2>2 DEF ReadProfiles, CoordinationInv, DistributionOK, AreProfiles
<1>2. CASE WriteProfiles
  <2>1. AreProfiles(profiles')
    BY <1>2, UpsertFits DEF WriteProfiles, CoordinationInv, EditOK
  <2>. QED BY <1>2, <2>1 DEF WriteProfiles, CoordinationInv, DistributionOK, EditOK, IdleEdit
<1>3. ASSUME NEW id \in Profiles, DeleteProfile(id) PROVE CoordinationInv'
  <2>1. AreProfiles(profiles')
    BY <1>3, WithoutFits DEF DeleteProfile, CoordinationInv
  <2>. QED BY <1>3, <2>1 DEF DeleteProfile, CoordinationInv, DistributionOK, EditOK
<1>. QED BY <1>1, <1>2, <1>3

LEMMA CoordinationStep == CoordinationInv /\ [CoordinationNext]_coordinationVars => CoordinationInv'
<1>. SUFFICES ASSUME CoordinationInv, [CoordinationNext]_coordinationVars PROVE CoordinationInv'
  OBVIOUS
<1>1. CASE BatchIsOver
  <2>1. queue'.mode = "none"
    BY <1>1 DEF BatchIsOver, NothingQueued, Plan
  <2>2. PlanFits(queue')
    BY <2>1 DEF PlanFits
  <2>. QED BY <1>1, <2>2, QueueStep DEF BatchIsOver
<1>2. ASSUME NEW account \in Crew, LoseAccount(account) PROVE CoordinationInv'
  BY <1>2 DEF LoseAccount, CoordinationInv, DistributionOK, EditOK
<1>3. CASE UNCHANGED coordinationVars
  BY <1>3 DEF coordinationVars, CoordinationInv, DistributionOK, EditOK
<1>. QED BY <1>1, <1>2, <1>3, RunStep, PlanDistributionStep, RunDistributionStep, ListStep, RecallStep, ProfileStep
         DEF CoordinationNext

LEMMA CoordinationSound == CoordinationInv => CoordinationTypeOK /\ PlansFit
<1>. SUFFICES ASSUME CoordinationInv PROVE CoordinationTypeOK /\ PlansFit
  OBVIOUS
<1>1. ToSet(listed) \subseteq Places /\ ToSet(recalled) \subseteq Places
  BY DEF CoordinationInv, ToSet
<1>2. CoordinationTypeOK
  BY <1>1 DEF CoordinationTypeOK, CoordinationInv, PlanFits, DistributionOK, EditOK
<1>3. EveryoneIsPlaced /\ ServersAreNotCrowded /\ GroupsMeet
  BY DEF CoordinationInv, PlanFits, PlacesAll, CrowdsNone, Meets, EveryoneIsPlaced, ServersAreNotCrowded, GroupsMeet
<1>4. ProfilesKeepShape
  BY DEF CoordinationInv, AreProfiles, ProfilesKeepShape
<1>. QED BY <1>2, <1>3, <1>4 DEF PlansFit

-----------------------------------------------------------------------------
(* The types of the relaunch policy and of the settings.                    *)

\* The powers of a factor are there.
PowersOf(g, b) == g \in [0..20 -> Nat] /\ g[0] = 1 /\ \A e \in 1..20 : g[e] = b * g[e - 1]
LEMMA PowersAreThere == ASSUME NEW b \in 1..10 PROVE \E g : PowersOf(g, b)
<1>. DEFINE Op == [p \in Nat \X (1..20) |-> b * p[1]]
<1>1. Op \in [Nat \X (1..20) -> Nat]
  OBVIOUS
<1>2. \A x \in Nat, k \in 1..20 : Op[<<x, k>>] = b * x
  OBVIOUS
<1>. HIDE DEF Op
<1>3. PICK f : IsLeftFold(f, 20, Nat, 1, Op)
  BY <1>1, LeftFoldIsThere
<1>4. Leftward(f, 20, Nat, 1, Op)
  BY <1>3 DEF IsLeftFold, Leftward
<1>5. PICK g : Rightward(g, f, 20, Nat, 1, Op)
  BY <1>1, <1>4, LeftToRight
<1>6. ASSUME NEW e \in 1..20 PROVE g[e] = b * g[e - 1]
  <2>1. e - 1 \in 0..(20 - 1) /\ (e - 1) + 1 = e /\ e - 1 \in 0..20
    OBVIOUS
  <2>. QED BY <1>2, <1>5, <2>1 DEF Rightward
<1>. QED BY <1>5, <1>6 DEF PowersOf, Rightward

LEMMA PowersBegin == \A b \in 1..10 : Power(b, 0) = 1
<1>. SUFFICES ASSUME NEW b \in 1..10 PROVE Power(b, 0) = 1
  OBVIOUS
<1>. DEFINE Is(f) == f = [n \in 0..20 |-> IF n = 0 THEN 1 ELSE b * f[n - 1]]
<1>1. PICK g : PowersOf(g, b)
  BY PowersAreThere
<1>2. Is(g)
  <2>1. \A n \in 0..20 : g[n] = IF n = 0 THEN 1 ELSE b * g[n - 1]
    <3>. SUFFICES ASSUME NEW n \in 0..20 PROVE g[n] = IF n = 0 THEN 1 ELSE b * g[n - 1]
      OBVIOUS
    <3>1. n # 0 => n \in 1..20
      OBVIOUS
    <3>. QED BY <1>1, <3>1 DEF PowersOf
  <2>. QED BY <1>1, <2>1 DEF PowersOf
<1>. DEFINE it == CHOOSE f : Is(f)
<1>3. Is(it)
  <2>. HIDE DEF Is
  <2>. QED BY <1>2
<1>4. Power(b, 0) = it[0]
  BY DEF Power
<1>. HIDE DEF it
<1>. QED BY <1>3, <1>4

\* A delay is a number between the least one and the ceiling.
RelaunchTypes ==
    /\ rule \in SavedRules \cup {BrokenRule} /\ code \in Codes /\ session \in {"absent", "bound", "orphan"}
    /\ intent.job \in Jobs \cup {AnyServer} /\ queued.job \in Jobs \cup {AnyServer}
    /\ intent.attempt \in 0..MaxAttempts /\ queued.attempt \in 0..MaxAttempts
    /\ intent.policy.delay \in 1..3 /\ queued.policy.delay \in 1..3

LEMMA FirstDelay == PolicyFor(0).delay \in 1..3
<1>1. Power(2, 0) = 1
  BY PowersBegin
<1>2. Delay(2, 2, 0, 3) = 2
  BY <1>1 DEF Delay, AtMost, AtLeast, MinDelay
<1>3. PolicyFor(0).delay = IF knobs.sound THEN Delay(2, 2, 0, 3) ELSE 2
  BY DEF PolicyFor
<1>. QED BY <1>2, <1>3

LEMMA RelaunchTyped ==
    /\ RelaunchInit => RelaunchTypes
    /\ RelaunchInv /\ RelaunchTypes /\ [RelaunchNext]_relaunchVars => RelaunchTypes'
<1>1. RelaunchInit => RelaunchTypes
  <2>. SUFFICES ASSUME RelaunchInit PROVE RelaunchTypes
    OBVIOUS
  <2>1. rule \in SavedRules \cup {BrokenRule}
    <3>1. NoRule \in SavedRules
      BY DEF NoRule, Rule, SavedRules
    <3>. QED BY <3>1 DEF RelaunchInit
  <2>2. /\ intent.job = AnyServer /\ intent.attempt = 0 /\ intent.policy.delay = 2
        /\ queued.job = AnyServer /\ queued.attempt = 0 /\ queued.policy.delay = 2
    BY DEF RelaunchInit, NoIntentYet, NothingDue, NoPolicy
  <2>3. 0 \in 0..MaxAttempts
    BY RelaunchAssumption DEF RelaunchAssumption
  <2>. QED BY <2>1, <2>2, <2>3 DEF RelaunchInit, RelaunchTypes, Codes
<1>2. ASSUME RelaunchInv, RelaunchTypes, [RelaunchNext]_relaunchVars PROVE RelaunchTypes'
  <2>. USE DEF RelaunchTypes
  <2>1. CASE UNCHANGED relaunchVars
    BY <1>2, <2>1 DEF relaunchVars
  <2>2. CASE \E r \in SavedRules : ConfigureRule(r)
    BY <1>2, <2>2 DEF ConfigureRule
  <2>3. CASE \E on \in BOOLEAN : SwitchRelaunches(on)
    BY <1>2, <2>3 DEF SwitchRelaunches
  <2>4. ASSUME NEW job \in Jobs \cup {AnyServer}, LaunchByUser(job) \/ AssociateInstance(job) PROVE RelaunchTypes'
    <3>1. intent' = [job |-> job, attempt |-> 0, policy |-> PolicyFor(0)]
      BY <2>4 DEF LaunchByUser, AssociateInstance, Asks
    <3>2. intent'.job = job /\ intent'.attempt = 0 /\ intent'.policy.delay \in 1..3
      BY <3>1, FirstDelay
    <3>. QED BY <1>2, <2>4, <3>2, RelaunchAssumption DEF LaunchByUser, AssociateInstance, Asks, RelaunchAssumption
  <2>5. CASE StartElsewhere \/ OrphanEnds
    BY <1>2, <2>5 DEF StartElsewhere, OrphanEnds
  <2>6. CASE LogJoined \/ \E c \in Codes : LogDisconnected(c)
    BY <1>2, <2>6 DEF LogJoined, LogDisconnected, Codes
  <2>7. ASSUME NEW how, ClientEnds(how) PROVE RelaunchTypes'
    <3>1. queued' = queued \/ (/\ intent.attempt < MaxAttempts /\ queued'.attempt = intent.attempt + 1
                               /\ queued'.job = intent.job /\ queued'.policy = intent.policy)
      BY <2>7 DEF ClientEnds
    <3>2. intent.attempt < MaxAttempts => intent.attempt + 1 \in 0..MaxAttempts
      BY <1>2, RelaunchAssumption DEF RelaunchAssumption
    <3>. QED BY <1>2, <2>7, <3>1, <3>2 DEF ClientEnds
  <2>8. CASE DispatchDue
    <3>1. queued'.job = AnyServer /\ queued'.attempt = 0 /\ queued'.policy.delay = 2
      BY <2>8 DEF DispatchDue, NothingDue, NoPolicy
    <3>2. intent' = intent \/ (/\ intent'.job \in {AnyServer, queued.job} /\ intent'.attempt = queued.attempt
                               /\ intent'.policy = queued.policy)
      BY <2>8 DEF DispatchDue, RelaunchAs
    <3>3. session' = session \/ session' = "bound"
      BY <2>8 DEF DispatchDue, RelaunchAs
    <3>. QED BY <1>2, <2>8, <3>1, <3>2, <3>3, RelaunchAssumption DEF DispatchDue, RelaunchAssumption
  <2>. QED BY <1>2, <2>1, <2>2, <2>3, <2>4, <2>5, <2>6, <2>7, <2>8 DEF RelaunchNext
<1>. QED BY <1>1, <1>2

LEMMA RelaunchIsTyped == RelaunchInv /\ RelaunchTypes => RelaunchTypeOK
BY DEF RelaunchInv, KnobsOK, RelaunchTypes, RelaunchTypeOK

LEMMA ChangeIsTyped == ChangeInv => ChangeTypeOK
BY DEF ChangeInv, SettingsOK, ChangesOK, ChangeRecord, ChangeTypeOK

-----------------------------------------------------------------------------
(* The decisions together: the parts begin as they should, and move by      *)
(* themselves.                                                              *)

DecisionInv ==
    /\ TypeInv /\ NoIntentOfFailedLaunch
    /\ RelaunchInv /\ RelaunchTypes /\ SmartInv /\ ChangeInv /\ RegistryInv /\ CoordinationInv

LEMMA DecisionBegins == DecisionInit => DecisionInv
<1>. SUFFICES ASSUME DecisionInit PROVE DecisionInv
  OBVIOUS
<1>1. Init /\ RelaunchInit /\ SmartInit /\ ChangeInit /\ RegistryInit /\ CoordinationInit
  BY DEF DecisionInit
<1>2. NoIntentOfFailedLaunch
  BY <1>1 DEF Init, NoIntentOfFailedLaunch
<1>. QED BY <1>1, <1>2, InitType, RelaunchBegins, RelaunchTyped, SmartBegins, ChangeBegins, RegistryBegins,
            CoordinationBegins DEF DecisionInv

PartsMove ==
    /\ [Next]_vars /\ [RelaunchNext]_relaunchVars /\ [SmartNext]_smartVars /\ [ChangeNext]_changeVars
    /\ [RegistryNext]_registryVars /\ [CoordinationNext]_coordinationVars
LEMMA DecisionMoves == [DecisionNext]_decisionVars => PartsMove
BY DEF DecisionNext, decisionVars, PartsMove

LEMMA DecisionStep == DecisionInv /\ [DecisionNext]_decisionVars => DecisionInv'
<1>. SUFFICES ASSUME DecisionInv, PartsMove PROVE DecisionInv'
  BY DecisionMoves
<1>1. TypeInv' /\ NoIntentOfFailedLaunch'
  BY TypeStep, IntentStep DEF DecisionInv, PartsMove
<1>2. RelaunchInv' /\ RelaunchTypes'
  BY RelaunchStep, RelaunchTyped DEF DecisionInv, PartsMove
<1>3. SmartInv' /\ ChangeInv'
  BY SmartStep, ChangeStep DEF DecisionInv, PartsMove
<1>4. RegistryInv' /\ CoordinationInv'
  BY RegistryStep, CoordinationStep DEF DecisionInv, PartsMove
<1>. QED BY <1>1, <1>2, <1>3, <1>4 DEF DecisionInv

LEMMA DecisionInvariant == DecisionSpec => []DecisionInv
<1>. QED BY DecisionBegins, DecisionStep, PTL DEF DecisionSpec

\* Every part keeps its types, for any accounts, servers, settings, selections and profiles,
\* however its calls interleave, and no launch that failed has left an intent behind.
THEOREM DecisionTypes == DecisionSpec => []DecisionsTypeOK
<1>1. DecisionInv => DecisionsTypeOK
  BY TypeInvImplies, RelaunchIsTyped, SmartSound, ChangeIsTyped, RegistrySound, CoordinationSound
     DEF DecisionInv, DecisionsTypeOK, IntentsFit
<1>. QED BY <1>1, DecisionInvariant, PTL

\* What is remembered and planned is right: the histories and blacklists of the registry
\* (server_registry.py), the plans of the smart launcher (launch_planner.py, plan_launches: whom
\* it starts, in which wave and when), the capacity it tells of (resource_plan.py), and
\* coordinated plans and launch profiles (coordination.py, launch_profiles.py).
THEOREM PlansAreAlwaysRight == DecisionSpec => []PlansAreRight
<1>1. DecisionInv => PlansAreRight
  BY SmartSound, RegistrySound, CoordinationSound DEF DecisionInv, PlansAreRight
<1>. QED BY <1>1, DecisionInvariant, PTL

\* And no step breaks its word: a relaunch does not go back to a server that failed, no batch
\* starts without memory or starts an account twice, the one frame cap throttles no open window,
\* and a distribution keeps to the servers that were eligible when it was planned.
THEOREM DecisionsAreKept == DecisionSpec => DecisionsHold
<1>1. ASSUME DecisionInv, [DecisionNext]_decisionVars
      PROVE  /\ [knobs.sound /\ code = "shutdown" /\ queued # NothingDue /\ session' = "bound" /\ intent'.attempt > 0
                   => intent'.job = AnyServer]_relaunchVars
             /\ [batch' # batch /\ batch' # <<>> => Level(config) # "critical" /\ IsInjective(batch')]_smartVars
             /\ [\A watched \in 0..3 : cap' # cap /\ ApplyResourcePlan(watched) =>
                    \A i \in DOMAIN Listed : cap' >= Target(Listed[i], watched, config)]_smartVars
             /\ [\A servers \in {distribution.servers} :
                    queue' # queue /\ distribution.some /\ RunDistribution =>
                        \A i \in DOMAIN queue'.steps : queue'.steps[i].job \in ToSet(servers)]_coordinationVars
  <2>1. PartsMove
    BY <1>1, DecisionMoves
  <2>2. SmartHolds
    BY <1>1, <2>1, SmartStepHolds DEF DecisionInv, PartsMove
  <2>3. queue' # queue /\ distribution.some /\ RunDistribution =>
            \A i \in DOMAIN queue'.steps : queue'.steps[i].job \in ToSet(distribution.servers)
    BY <1>1, DistributionKeeps DEF DecisionInv
  <2>. QED BY <1>1, <2>1, <2>2, <2>3, ShutStep DEF DecisionInv, PartsMove, SmartHolds
<1>. QED BY <1>1, DecisionInvariant, PTL DEF DecisionSpec, DecisionsHold, FailedServerIsLeft, VetoHolds,
            NobodyIsThrottled, DistributionKeepsToEligible

=============================================================================
