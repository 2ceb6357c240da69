------------------------- MODULE ProcessMonitorProofs -------------------------
(***************************************************************************)
(* Proofs about ProcessMonitor, for every value of its constants.          *)
(***************************************************************************)
EXTENDS ProcessMonitor, FiniteSetTheorems, TLAPS

USE MonitorAssumption DEF MonitorAssumption

-----------------------------------------------------------------------------
(* Type correctness *)

\* A terminator that has left "idle" holds an identity of a real process.
TermHolds == \A t \in Terminators : term[t].pc # "idle" => term[t].id \in Identity

TypeInv == TypeOK /\ TermHolds

\* What a scan holds, and that it stays of this kind when it begins to commit.
ScanRecord(Ids, Moments, Procs) ==
    [pc : {"idle", "observed", "commit"}, seen : SUBSET Ids, complete : BOOLEAN,
     now : Moments, todo : SUBSET Ids, nameless : SUBSET Procs]

LEMMA ScanMovesOn ==
    ASSUME NEW Ids, NEW Moments, NEW Procs, NEW begun \in ScanRecord(Ids, Moments, Procs), NEW left \in SUBSET Ids
    PROVE  [begun EXCEPT !.pc = "commit", !.todo = left] \in ScanRecord(Ids, Moments, Procs)
BY DEF ScanRecord

LEMMA InitType == Init => TypeInv
BY DEF Init, TypeInv, TypeOK, TermHolds, Times, Births, Identity, Unread, Nothing, Entry,
       States, IdleScan, IdleTerm

\* The environment leaves the monitor alone, so only the OS variables need a look.
LEMMA EnvironmentType == TypeInv /\ Environment => TypeInv'
<1> SUFFICES ASSUME TypeInv, Environment PROVE TypeInv'
  OBVIOUS
<1> USE DEF TypeInv, TypeOK, TermHolds, os, mon, aux, Times, Births
<1>1. CASE Tick
  BY <1>1 DEF Tick
<1>2. ASSUME NEW p \in Pids, Spawn(p) PROVE TypeInv'
  BY <1>2 DEF Spawn
<1>3. ASSUME NEW p \in Pids, Die(p) PROVE TypeInv'
  BY <1>3 DEF Die
<1> QED
  BY <1>1, <1>2, <1>3 DEF Environment

LEMMA UserChainType ==
    ASSUME TypeInv, NEW a \in Accounts, NEW policy \in Policies
    PROVE  UserChain(a, policy) \in Chain
BY DEF TypeInv, TypeOK, UserChain, Chain

LEMMA RegisterType ==
    ASSUME TypeInv, NEW chain \in Chain, Register(chain)
    PROVE  pending' \subseteq Intent
<1> DEFINE intent == [chain |-> chain, requested |-> clock, expires |-> clock + MatchTimeout]
<1>1. intent \in Intent
  BY DEF TypeInv, TypeOK, Intent, Times
<1>2. pending' \subseteq pending \cup {intent}
  BY DEF Register
<1> QED
  BY <1>1, <1>2 DEF TypeInv, TypeOK

\* A policy's fields are naturals, so a relaunch request is well formed.
LEMMA RelaunchType ==
    ASSUME NEW chain \in Chain, NEW now \in Times
    PROVE  Relaunch(chain, now) \in Request
BY DEF Relaunch, Request, Chain, PolicySpace, Times

LEMMA SettledType ==
    ASSUME NEW e \in Entry
    PROVE  Settled(e) \in Entry /\ Settled(e).chain = e.chain
BY DEF Settled, Entry, States

LEMMA ServiceType == TypeInv /\ Service => TypeInv'
<1> SUFFICES ASSUME TypeInv, Service PROVE TypeInv'
  OBVIOUS
<1> USE DEF TypeInv, TypeOK, TermHolds, os, mon, aux
<1>1. ASSUME NEW a \in Accounts, NEW policy \in Policies, RegisterLaunch(a, policy)
      PROVE TypeInv'
  <2>1. pending' \subseteq Intent
    BY <1>1, UserChainType, RegisterType DEF RegisterLaunch
  <2> QED
    BY <1>1, <2>1 DEF RegisterLaunch
<1>2. ASSUME NEW a \in Accounts, NEW policy \in Policies, NEW p \in Pids,
             BindOrphan(p, a, policy)
      PROVE TypeInv'
  <2>1. PICK id \in TrackedWithPid(p) :
          tracked' = [tracked EXCEPT ![id].state = "running",
                                     ![id].chain = UserChain(a, policy)]
    BY <1>2 DEF BindOrphan
  <2>2. id \in Identity /\ tracked[id] \in Entry
    BY DEF TrackedWithPid, Tracked
  <2>3. tracked' = [tracked EXCEPT ![id] =
                     [tracked[id] EXCEPT !.state = "running", !.chain = UserChain(a, policy)]]
    BY <2>1, <2>2 DEF Entry
  <2>4. [tracked[id] EXCEPT !.state = "running", !.chain = UserChain(a, policy)] \in Entry
    BY <2>2, UserChainType DEF Entry, States
  <2>5. tracked' \in [Identity -> Entry]
    BY <2>3, <2>4
  <2> QED
    BY <1>2, <2>5 DEF BindOrphan
<1>3. ASSUME NEW a \in Accounts, ForgetAccount(a) PROVE TypeInv'
  <2>0. \A e \in Entry : [e EXCEPT !.state = "orphaned", !.chain = NoIntent] \in Entry
    BY DEF Entry, States
  <2>1. tracked' \in [Identity -> Entry]
    BY <1>3, <2>0 DEF ForgetAccount
  <2> QED
    BY <1>3, <2>1 DEF ForgetAccount
<1>4. ASSUME NEW i \in pending, CancelLaunch(i) PROVE TypeInv'
  BY <1>4 DEF CancelLaunch
<1>5. ASSUME NEW q \in claimed, RegisterRelaunch(q) PROVE TypeInv'
  <2>1. pending' \subseteq Intent
    BY <1>5, RegisterType DEF RegisterRelaunch, Request
  <2> QED
    BY <1>5, <2>1 DEF RegisterRelaunch
<1>6. ASSUME NEW q \in claimed, DropRelaunch(q) PROVE TypeInv'
  BY <1>6 DEF DropRelaunch
<1>7. CASE ClaimDueRestarts
  BY <1>7 DEF ClaimDueRestarts, NotDue
<1> QED
  BY <1>1, <1>2, <1>3, <1>4, <1>5, <1>6, <1>7 DEF Service

\* Matching and tracking one observed process.
LEMMA StartTrackingType ==
    ASSUME TypeInv, NEW s \in Scanners, NEW id \in Identity, StartTracking(s, id)
    PROVE  TypeInv'
<1> USE DEF TypeInv, TypeOK, TermHolds, os, mon, aux
<1> DEFINE matches == Matches(id, scan[s].now)
<1>1. matches \subseteq pending
  BY DEF Matches, Eligible
<1>2. PICK chain \in IF matches = {} THEN {NoIntent} ELSE {i.chain : i \in matches} :
        tracked' = [tracked EXCEPT ![id] =
          [state |-> IF chain = NoIntent THEN "orphaned" ELSE "running",
           chain |-> chain,
           since |-> IF id[2] = Unread THEN scan[s].now ELSE id[2]]]
  BY DEF StartTracking
<1>3. chain \in Chain \cup {NoIntent}
  BY <1>1, <1>2 DEF Intent
<1>4. (IF id[2] = Unread THEN scan[s].now ELSE id[2]) \in Nat
  BY DEF Identity, Births, Times
<1>5. tracked' \in [Identity -> Entry]
  BY <1>2, <1>3, <1>4 DEF Entry, States
<1>6. scan' \in [Scanners -> [pc : {"idle", "observed", "commit"}, seen : SUBSET Identity,
                              complete : BOOLEAN, now : Times, todo : SUBSET Identity,
                              nameless : SUBSET Pids]]
  <2>1. scan[s].todo \ {id} \subseteq Identity
    OBVIOUS
  <2>2. scan' = [scan EXCEPT ![s].todo = @ \ {id}]
    BY DEF StartTracking
  <2>3. [scan[s] EXCEPT !.todo = @ \ {id}] \in
          [pc : {"idle", "observed", "commit"}, seen : SUBSET Identity,
           complete : BOOLEAN, now : Times, todo : SUBSET Identity,
                              nameless : SUBSET Pids]
    BY <2>1
  <2> QED
    BY <2>2, <2>3
<1> QED
  BY <1>1, <1>5, <1>6 DEF StartTracking

\* The end of one missing process, with the relaunch it may queue.
LEMMA RetireType ==
    ASSUME TypeInv, NEW s \in Scanners, NEW id \in Identity, Retire(s, id)
    PROVE  TypeInv'
<1> USE DEF TypeInv, TypeOK, TermHolds, os, mon, aux
<1>1. restarts' \subseteq Request
  <2>1. CASE Schedules(id, scan[s].now)
    <3>1. Relaunch(tracked[id].chain, scan[s].now) \in Request
      BY <2>1, RelaunchType DEF Schedules, Bound, Entry
    <3> QED
      BY <2>1, <3>1 DEF Retire, WithRestart
  <2>2. CASE ~ Schedules(id, scan[s].now)
    BY <2>2 DEF Retire
  <2> QED
    BY <2>1, <2>2
<1>2. tracked' \in [Identity -> Entry]
  BY DEF Retire, Nothing, Entry, States
<1>3. scan' \in [Scanners -> [pc : {"idle", "observed", "commit"}, seen : SUBSET Identity,
                              complete : BOOLEAN, now : Times, todo : SUBSET Identity,
                              nameless : SUBSET Pids]]
  BY DEF Retire
<1> QED
  BY <1>1, <1>2, <1>3 DEF Retire, Discard

LEMMA ScanType == ASSUME TypeInv, NEW s \in Scanners, Scan(s) PROVE TypeInv'
<1> USE DEF TypeInv, TypeOK, TermHolds, os, mon, aux
<1>1. CASE ObserveProcesses(s)
  <2>1. PICK shown \in SUBSET live, unread \in SUBSET (IF HiddenBirths THEN live ELSE {}),
             whole \in BOOLEAN :
          scan' = [scan EXCEPT ![s] =
             [pc |-> "observed", seen |-> Newest(Observed(shown, unread)), now |-> clock,
              complete |-> Complete(Observed(shown, unread), whole),
              todo |-> {}, nameless |-> IF whole THEN live \ shown ELSE {}]]
    BY <1>1 DEF ObserveProcesses
  <2>2. Observed(shown, unread) \subseteq Identity
    <3>1. \A p \in shown : p \in Pids /\ born[p] \in Births
      OBVIOUS
    <3>2. Unread \in Births
      BY DEF Births
    <3>3. \A p \in shown : <<p, IF p \in unread THEN Unread ELSE born[p]>> \in Identity
      BY <3>1, <3>2 DEF Identity
    <3>4. \A id \in Observed(shown, unread) :
            \E p \in shown : id = <<p, IF p \in unread THEN Unread ELSE born[p]>>
      BY DEF Observed
    <3> QED
      BY <3>3, <3>4
  <2>3. Newest(Observed(shown, unread)) \subseteq Identity
    BY <2>2 DEF Newest
  <2>4. Complete(Observed(shown, unread), whole) \in BOOLEAN /\ Tracked \subseteq Identity
    BY DEF Complete, Tracked
  <2>5. scan' \in [Scanners -> [pc : {"idle", "observed", "commit"}, seen : SUBSET Identity,
                              complete : BOOLEAN, now : Times, todo : SUBSET Identity,
                              nameless : SUBSET Pids]]
    BY <2>1, <2>3, <2>4
  <2> QED
    BY <1>1, <2>5 DEF ObserveProcesses
<1>2. CASE BeginCommit(s)
  <2>1. \A e \in Entry : Refreshed(e) \in Entry /\ Doubted(e) \in Entry
    BY SettledType DEF Refreshed, Doubted, Entry, States
  <2>2. tracked' \in [Identity -> Entry]
    BY <1>2, <2>1 DEF BeginCommit
  <2>3. (scan[s].seen \ Tracked) \cup Missing(s) \subseteq Identity
    BY DEF Missing, Tracked
  <2> DEFINE begun == [scan[s] EXCEPT !.pc = "commit",
                                      !.todo = (scan[s].seen \ Tracked) \cup Missing(s)]
  <2>5. scan' = [scan EXCEPT ![s] = begun]
    BY <1>2 DEF BeginCommit
  <2>6. begun \in [pc : {"idle", "observed", "commit"}, seen : SUBSET Identity,
                   complete : BOOLEAN, now : Times, todo : SUBSET Identity,
                              nameless : SUBSET Pids]
    <3>1. scan[s] \in ScanRecord(Identity, Times, Pids)
      BY DEF ScanRecord
    <3>2. begun \in ScanRecord(Identity, Times, Pids)
      BY <2>3, <3>1, ScanMovesOn
    <3> QED
      BY <3>2 DEF ScanRecord
  <2> HIDE DEF begun
  <2>4. scan' \in [Scanners -> [pc : {"idle", "observed", "commit"}, seen : SUBSET Identity,
                              complete : BOOLEAN, now : Times, todo : SUBSET Identity,
                              nameless : SUBSET Pids]]
    BY <2>5, <2>6
  <2> QED
    BY <1>2, <2>2, <2>4 DEF BeginCommit
<1>3. ASSUME NEW id \in Identity, StartTracking(s, id) PROVE TypeInv'
  BY <1>3, StartTrackingType
<1>4. ASSUME NEW id \in Identity, Retire(s, id) PROVE TypeInv'
  BY <1>4, RetireType
<1>5. CASE EndCommit(s)
  BY <1>5 DEF EndCommit, IdleScan, Times
<1> QED
  BY <1>1, <1>2, <1>3, <1>4, <1>5 DEF Scan

LEMMA TerminateType == ASSUME TypeInv, NEW t \in Terminators, Terminate(t) PROVE TypeInv'
<1> USE DEF TypeInv, TypeOK, TermHolds, os, mon, aux
<1>1. ASSUME NEW p \in Pids, BeginTerminate(t, p) PROVE TypeInv'
  <2>1. PICK id \in TrackedWithPid(p) :
          term' = [term EXCEPT ![t] = [pc |-> "verified", id |-> id, entry |-> tracked[id]]]
    BY <1>1 DEF BeginTerminate
  <2>2. id \in Identity
    BY DEF TrackedWithPid, Tracked
  <2> QED
    BY <1>1, <2>1, <2>2 DEF BeginTerminate
<1>2. CASE RequestTermination(t)
  <2>1. \A e \in Entry : [e EXCEPT !.state = "terminating"] \in Entry
    BY DEF Entry, States
  <2> QED
    BY <1>2, <2>1 DEF RequestTermination
<1>3. CASE TerminateDone(t)
  BY <1>3 DEF TerminateDone, Nothing, Entry, States, IdleTerm, Discard
<1>4. CASE TerminateTimedOut(t)
  BY <1>4 DEF TerminateTimedOut, Nothing, Entry, States, IdleTerm
<1>5. CASE TerminateDenied(t)
  <2>1. tracked' \in [Identity -> Entry]
    BY <1>5, SettledType DEF TerminateDenied
  <2>2. IdleTerm.entry \in Entry
    BY DEF IdleTerm, Nothing, Entry, States
  <2> QED
    BY <1>5, <2>1, <2>2 DEF TerminateDenied, IdleTerm, Discard
<1> QED
  BY <1>1, <1>2, <1>3, <1>4, <1>5 DEF Terminate

\* TypeOK, with the strengthening TermHolds, is inductive.
THEOREM TypeCorrect == Spec => []TypeOK
<1>1. Init => TypeInv
  BY InitType
<1>2. TypeInv /\ [Next]_vars => TypeInv'
  <2>1. TypeInv /\ UNCHANGED vars => TypeInv'
    BY DEF TypeInv, TypeOK, TermHolds, vars, os, mon, aux
  <2> QED
    BY <2>1, EnvironmentType, ServiceType, ScanType, TerminateType DEF Next
<1>3. TypeInv => TypeOK
  BY DEF TypeInv
<1> QED
  BY <1>1, <1>2, <1>3, PTL DEF Spec

-----------------------------------------------------------------------------
(* No live client is reported gone.                                         *)
(*                                                                          *)
(* The argument: an identity the monitor knows was born no later than the   *)
(* last process with its PID, so it cannot come (back) to life; therefore a *)
(* complete observation, once made, keeps containing every live identity    *)
(* the monitor knows or may write back, until its scan ends.  It needs the  *)
(* scan lock (a second scan would track clients the first did not see) and  *)
(* readable creation times.                                                 *)

\* An identity of the past: nothing that starts from now on can have it.
Past(id) == id \in Identity /\ id[2] \in Times /\ id[2] <= born[id[1]]

Holds(t, id) == term[t].pc # "idle" /\ term[t].id = id

\* What the monitor knows, it knows of the past.
KnownArePast ==
    /\ \A p \in live : born[p] \in Times
    /\ \A id \in Tracked : Past(id)
    /\ \A t \in Terminators : term[t].pc # "idle" => Past(term[t].id)
    /\ \A s \in Scanners : \A id \in scan[s].seen \cup scan[s].todo : Past(id)

\* _scan_lock: only one scan is under way.
OneScan == \A r, s \in Scanners : scan[r].pc = "idle" \/ scan[s].pc = "idle" \/ r = s

\* The scan has seen an identity, or psutil withheld its name from the scan.
Shown(s, id) == id \in scan[s].seen \/ id[1] \in scan[s].nameless

\* A complete observation contains every live identity that is tracked or held and named.
ObservationCovers ==
    \A s \in Scanners : (scan[s].pc # "idle" /\ scan[s].complete) =>
        \A id \in Identity :
            ((id \in Tracked \/ \E t \in Terminators : Holds(t, id)) /\ Alive(id))
                => Shown(s, id)

\* The commit loop retires only the dead and those whose name it could not read.
TodoAreDead ==
    \A s \in Scanners : scan[s].pc = "commit" =>
        \A id \in scan[s].todo : Alive(id) => Shown(s, id)

\* Names are withheld only where they can be.
NamesRead == HiddenNames \/ \A s \in Scanners : scan[s].nameless = {}

ExitInv == KnownArePast /\ OneScan /\ ObservationCovers /\ TodoAreDead /\ NamesRead

LEMMA InitExit == Init => ExitInv
BY DEF Init, ExitInv, KnownArePast, OneScan, ObservationCovers, TodoAreDead, NamesRead, Tracked,
       Nothing, IdleScan, IdleTerm, Holds

\* A step of the environment keeps the past past and the dead dead.
LEMMA DeadStayDead ==
    ASSUME TypeInv, Environment, NEW id \in Identity, Past(id)
    PROVE  Past(id)' /\ (Alive(id)' => Alive(id))
<1> USE DEF TypeInv, TypeOK, Past, Alive, Identity, Births, Times, Unread, mon, aux
<1>1. CASE Tick
  BY <1>1 DEF Tick
<1>2. ASSUME NEW p \in Pids, Spawn(p) PROVE Past(id)' /\ (Alive(id)' => Alive(id))
  BY <1>2 DEF Spawn
<1>3. ASSUME NEW p \in Pids, Die(p) PROVE Past(id)' /\ (Alive(id)' => Alive(id))
  BY <1>3 DEF Die
<1> QED
  BY <1>1, <1>2, <1>3 DEF Environment

LEMMA EnvironmentExit == TypeInv /\ ExitInv /\ Environment => ExitInv'
<1> SUFFICES ASSUME TypeInv, ExitInv, Environment PROVE ExitInv'
  OBVIOUS
<1>1. UNCHANGED <<mon, scan, term>>
  BY DEF Environment, Tick, Spawn, Die
<1>2. Tracked' = Tracked /\ \A t, id : Holds(t, id)' <=> Holds(t, id)
  BY <1>1 DEF Tracked, Holds, mon
<1>3. \A id \in Identity : Past(id) => Past(id)' /\ (Alive(id)' => Alive(id))
  BY DeadStayDead
<1>4. \A id : Past(id) => id \in Identity
  BY DEF Past
<1>5. \A p \in live' : born'[p] \in Times
  <2>1. live \subseteq Pids /\ clock \in Times /\ born \in [Pids -> Births]
    BY DEF TypeInv, TypeOK
  <2>2. \A p \in live : born[p] \in Times
    BY DEF ExitInv, KnownArePast
  <2>3. CASE Tick
    BY <2>2, <2>3 DEF Tick
  <2>4. ASSUME NEW q \in Pids, Spawn(q) PROVE \A p \in live' : born'[p] \in Times
    BY <2>1, <2>2, <2>4 DEF Spawn
  <2>5. ASSUME NEW q \in Pids, Die(q) PROVE \A p \in live' : born'[p] \in Times
    BY <2>2, <2>5 DEF Die
  <2> QED
    BY <2>3, <2>4, <2>5 DEF Environment
<1>6. KnownArePast'
  BY <1>1, <1>2, <1>3, <1>4, <1>5 DEF ExitInv, KnownArePast
<1>7. OneScan'
  BY <1>1 DEF ExitInv, OneScan
<1>8. ObservationCovers'
  <2> SUFFICES ASSUME NEW s \in Scanners, scan[s].pc # "idle", scan[s].complete,
                      NEW id \in Identity,
                      id \in Tracked \/ \E t \in Terminators : Holds(t, id), Alive(id)'
               PROVE  Shown(s, id)
    BY <1>1, <1>2 DEF ObservationCovers, Shown
  <2>1. Past(id)
    BY DEF ExitInv, KnownArePast, Holds
  <2> QED
    BY <2>1, <1>3 DEF ExitInv, ObservationCovers
<1>9. TodoAreDead'
  BY <1>1, <1>3, <1>4 DEF ExitInv, TodoAreDead, KnownArePast, Shown
<1>10. NamesRead'
  BY <1>1 DEF ExitInv, NamesRead
<1> QED
  BY <1>6, <1>7, <1>8, <1>9, <1>10 DEF ExitInv

\* The service moves accounts between records; it tracks and drops no identity.
LEMMA ServiceTracks == TypeInv /\ Service => Tracked' = Tracked /\ UNCHANGED <<os, scan, term>>
<1> SUFFICES ASSUME TypeInv, Service PROVE Tracked' = Tracked /\ UNCHANGED <<os, scan, term>>
  OBVIOUS
<1> USE DEF TypeInv, TypeOK, Tracked, mon, aux
<1>1. ASSUME NEW a \in Accounts, NEW policy \in Policies, RegisterLaunch(a, policy)
      PROVE Tracked' = Tracked /\ UNCHANGED <<os, scan, term>>
  BY <1>1 DEF RegisterLaunch
<1>2. ASSUME NEW a \in Accounts, NEW policy \in Policies, NEW p \in Pids,
             BindOrphan(p, a, policy)
      PROVE Tracked' = Tracked /\ UNCHANGED <<os, scan, term>>
  BY <1>2 DEF BindOrphan, TrackedWithPid, Entry, States
<1>3. ASSUME NEW a \in Accounts, ForgetAccount(a)
      PROVE Tracked' = Tracked /\ UNCHANGED <<os, scan, term>>
  <2>1. \A e \in Entry : [e EXCEPT !.state = "orphaned", !.chain = NoIntent].state = "orphaned"
    BY DEF Entry
  <2>2. \A id \in Identity : tracked'[id].state = "absent" <=> tracked[id].state = "absent"
    BY <1>3, <2>1 DEF ForgetAccount
  <2> QED
    BY <1>3, <2>2 DEF ForgetAccount
<1>4. ASSUME NEW i \in pending, CancelLaunch(i)
      PROVE Tracked' = Tracked /\ UNCHANGED <<os, scan, term>>
  BY <1>4 DEF CancelLaunch
<1>5. ASSUME NEW q \in claimed, RegisterRelaunch(q) \/ DropRelaunch(q)
      PROVE Tracked' = Tracked /\ UNCHANGED <<os, scan, term>>
  BY <1>5 DEF RegisterRelaunch, DropRelaunch
<1>6. CASE ClaimDueRestarts
  BY <1>6 DEF ClaimDueRestarts
<1> QED
  BY <1>1, <1>2, <1>3, <1>4, <1>5, <1>6 DEF Service

\* A step that changes neither the environment, nor a scan, nor a terminator, nor what is
\* tracked cannot disturb the invariant.
LEMMA FrameExit ==
    ASSUME ExitInv, Tracked' = Tracked, UNCHANGED <<os, scan, term>>
    PROVE  ExitInv'
<1>1. (\A t, id : Holds(t, id)' <=> Holds(t, id)) /\ (\A id : Alive(id)' <=> Alive(id))
        /\ (\A id : Past(id)' <=> Past(id))
  BY DEF Holds, Alive, Past, os
<1> QED
  BY <1>1 DEF ExitInv, KnownArePast, OneScan, ObservationCovers, TodoAreDead, NamesRead, Shown, os

\* Whatever is observed belongs to the past, and a complete observation misses nothing live.
LEMMA ObserveExit ==
    ASSUME TypeInv, ExitInv, HiddenBirths = FALSE, NEW s \in Scanners, ObserveProcesses(s)
    PROVE  ExitInv'
<1>1. PICK shown \in SUBSET live, whole \in BOOLEAN :
        /\ whole => shown = live \/ HiddenNames
        /\ scan' = [scan EXCEPT ![s] =
             [pc |-> "observed", seen |-> Newest(Observed(shown, {})), now |-> clock,
              complete |-> Complete(Observed(shown, {}), whole),
              todo |-> {}, nameless |-> IF whole THEN live \ shown ELSE {}]]
  BY DEF ObserveProcesses
<1> DEFINE seen == Observed(shown, {})
<1>2. UNCHANGED <<os, mon, term>> /\ Tracked' = Tracked
  BY DEF ObserveProcesses, mon, Tracked
<1>3. (\A t, id : Holds(t, id)' <=> Holds(t, id)) /\ (\A id : Alive(id)' <=> Alive(id))
        /\ (\A id : Past(id)' <=> Past(id))
  BY <1>2 DEF Holds, Alive, Past, os
<1>4. /\ scan'[s].pc = "observed" /\ scan'[s].todo = {}
      /\ scan'[s].seen = Newest(seen) /\ scan'[s].complete = Complete(seen, whole)
      /\ scan'[s].nameless = IF whole THEN live \ shown ELSE {}
      /\ \A r \in Scanners \ {s} : scan'[r] = scan[r] /\ scan[r].pc = "idle"
  BY <1>1 DEF TypeInv, TypeOK, ObserveProcesses, ScanLockFree
<1>5. \A id \in seen : Past(id)
  <2>1. \A p \in shown : p \in Pids /\ born[p] \in Times
    BY <1>1 DEF ExitInv, KnownArePast, TypeInv, TypeOK
  <2>2. seen = {<<p, born[p]>> : p \in shown}
    BY DEF Observed
  <2> QED
    BY <2>1, <2>2 DEF Past, Identity, Births, Times
<1>6. Newest(seen) \subseteq seen
  BY DEF Newest
<1>7. KnownArePast'
  BY <1>2, <1>3, <1>4, <1>5, <1>6 DEF ExitInv, KnownArePast, os
<1>8. OneScan'
  BY <1>4 DEF OneScan
<1>9. ObservationCovers'
  <2> SUFFICES ASSUME Complete(seen, whole),
                      NEW id \in Identity,
                      id \in Tracked \/ \E t \in Terminators : Holds(t, id), Alive(id),
                      id[1] \notin live \ shown
               PROVE  id \in Newest(seen)
    BY <1>2, <1>3, <1>4 DEF ObservationCovers, Shown, Complete
  <2>1. Past(id)
    BY DEF ExitInv, KnownArePast, Holds
  <2>2. id \in seen
    BY <2>1 DEF Observed, Alive, Past, Times, Unread, Identity
  <2>3. IsFiniteSet(seen)
    <3>1. IsFiniteSet(shown)
      BY FS_Subset DEF TypeInv, TypeOK
    <3>2. [p \in shown |-> <<p, born[p]>>] \in Surjection(shown, seen)
      BY DEF Surjection, Observed
    <3> QED
      BY <3>1, <3>2, FS_Surjection
  <2> DEFINE newer == {j \in seen : Newer(j, id)}
  <2>4. newer \subseteq seen \ {id}
    <3>1. \A p \in Pids : ~ p > p
      OBVIOUS
    <3>3. \A b \in Times : ~ b > b
      BY DEF Times
    <3>4. id[1] \in Pids /\ id[2] \in Times
      BY <2>1 DEF Past, Identity
    <3>2. ~ Newer(id, id)
      BY <3>1, <3>3, <3>4 DEF Newer
    <3> QED
      BY <3>2
  <2>5. Cardinality(newer) < Cardinality(seen)
    BY <2>2, <2>3, <2>4, FS_Subset, FS_RemoveElement, FS_CardinalityType
  <2> QED
    BY <2>2, <2>3, <2>4, <2>5, FS_Subset, FS_CardinalityType DEF Newest, Complete
<1>10. TodoAreDead'
  BY <1>4 DEF ExitInv, TodoAreDead
<1>11. NamesRead'
  BY <1>1, <1>4 DEF ExitInv, NamesRead
<1> QED
  BY <1>7, <1>8, <1>9, <1>10, <1>11 DEF ExitInv

\* The commit begins: identities move into `todo`, nothing is tracked or dropped yet.
LEMMA BeginCommitExit ==
    ASSUME TypeInv, ExitInv, NEW s \in Scanners, BeginCommit(s)
    PROVE  ExitInv'
<1> USE DEF TypeInv, TypeOK
<1> DEFINE begun == (scan[s].seen \ Tracked) \cup Missing(s)
<1>1. UNCHANGED <<os, term>>
  BY DEF BeginCommit
<1>2. Tracked' = Tracked
  <2>1. \A e \in Entry : e.state # "absent" =>
          Refreshed(e).state # "absent" /\ Doubted(e).state # "absent"
    BY DEF Refreshed, Doubted, Settled, Entry, States
  <2>2. \A id \in Identity : tracked'[id].state = "absent" <=> tracked[id].state = "absent"
    BY <2>1 DEF BeginCommit, Tracked
  <2> QED
    BY <2>2 DEF Tracked
<1>3. (\A t, id : Holds(t, id)' <=> Holds(t, id)) /\ (\A id : Alive(id)' <=> Alive(id))
        /\ (\A id : Past(id)' <=> Past(id))
  BY <1>1 DEF Holds, Alive, Past, os
<1>4. /\ scan[s].pc = "observed"
      /\ scan'[s].todo = begun /\ scan'[s].seen = scan[s].seen
      /\ scan'[s].complete = scan[s].complete /\ scan'[s].nameless = scan[s].nameless
      /\ \A r \in Scanners \ {s} : scan'[r] = scan[r]
      /\ scan' \in [Scanners -> [pc : {"idle", "observed", "commit"}, seen : SUBSET Identity,
                              complete : BOOLEAN, now : Times, todo : SUBSET Identity,
                              nameless : SUBSET Pids]]
  BY ScanType, TypeInv DEF BeginCommit, Scan
<1>5. \A id \in begun : Past(id)
  BY DEF ExitInv, KnownArePast, Missing
<1>6. KnownArePast'
  BY <1>1, <1>2, <1>3, <1>4, <1>5 DEF ExitInv, KnownArePast, os
<1>7. OneScan'
  BY <1>4 DEF ExitInv, OneScan
<1>8. ObservationCovers'
  BY <1>1, <1>2, <1>3, <1>4 DEF ExitInv, ObservationCovers, Shown
<1>9. TodoAreDead'
  <2>1. \A id \in begun : Alive(id) => Shown(s, id)
    BY <1>4 DEF ExitInv, ObservationCovers, Missing, Tracked, Shown
  <2>2. \A r \in Scanners \ {s} : \A id : Shown(r, id)' <=> Shown(r, id)
    BY <1>4 DEF Shown
  <2>3. \A id : Shown(s, id)' <=> Shown(s, id)
    BY <1>4 DEF Shown
  <2> QED
    BY <1>3, <1>4, <2>1, <2>2, <2>3 DEF ExitInv, TodoAreDead
<1>10. NamesRead'
  BY <1>4 DEF ExitInv, NamesRead
<1> QED
  BY <1>6, <1>7, <1>8, <1>9, <1>10 DEF ExitInv

\* What a scan starts to track, it has seen.
LEMMA StartTrackingExit ==
    ASSUME TypeInv, ExitInv, NEW s \in Scanners, NEW id \in Identity, StartTracking(s, id)
    PROVE  ExitInv'
<1> USE DEF TypeInv, TypeOK
<1>1. UNCHANGED <<os, term>>
  BY DEF StartTracking
<1>2. Tracked' \subseteq Tracked \cup {id}
  BY DEF StartTracking, Tracked
<1>3. (\A t, i : Holds(t, i)' <=> Holds(t, i)) /\ (\A i : Alive(i)' <=> Alive(i))
        /\ (\A i : Past(i)' <=> Past(i))
  BY <1>1 DEF Holds, Alive, Past, os
<1>4. /\ scan[s].pc = "commit" /\ id \in scan[s].seen
      /\ scan'[s].todo = scan[s].todo \ {id} /\ scan'[s].seen = scan[s].seen
      /\ scan'[s].pc = "commit" /\ scan'[s].complete = scan[s].complete
      /\ scan'[s].nameless = scan[s].nameless
      /\ \A r \in Scanners \ {s} : scan'[r] = scan[r]
  BY DEF StartTracking, IsFirst
<1>5. KnownArePast'
  BY <1>1, <1>2, <1>3, <1>4 DEF ExitInv, KnownArePast, os
<1>6. OneScan'
  BY <1>4 DEF ExitInv, OneScan
<1>7. ObservationCovers'
  <2> SUFFICES ASSUME NEW r \in Scanners, scan'[r].pc # "idle", scan'[r].complete,
                      NEW i \in Identity,
                      i \in Tracked' \/ \E t \in Terminators : Holds(t, i), Alive(i)
               PROVE  Shown(r, i)'
    BY <1>3 DEF ObservationCovers
  <2>1. r = s
    BY <1>4 DEF ExitInv, OneScan
  <2>2. CASE i = id
    BY <1>4, <2>1, <2>2 DEF Shown
  <2>3. CASE i # id
    BY <1>2, <1>4, <2>1, <2>3 DEF ExitInv, ObservationCovers, Shown
  <2> QED
    BY <2>2, <2>3
<1>8. TodoAreDead'
  BY <1>3, <1>4 DEF ExitInv, TodoAreDead, Shown
<1>9. NamesRead'
  BY <1>4 DEF ExitInv, NamesRead
<1> QED
  BY <1>5, <1>6, <1>7, <1>8, <1>9 DEF ExitInv

\* A step that only takes identities out of Tracked, out of the terminators' hands and
\* out of a scan cannot disturb the invariant either.
LEMMA FewerExit ==
    ASSUME ExitInv, UNCHANGED os, Tracked' \subseteq Tracked,
           \A t \in Terminators : term'[t].pc = "idle"
              \/ (term[t].pc # "idle" /\ term'[t].id = term[t].id),
           \A s \in Scanners :
              \/ /\ scan'[s].pc = "idle" /\ scan'[s].seen = {} /\ scan'[s].todo = {}
                 /\ scan'[s].nameless = {}
              \/ /\ scan'[s].pc = scan[s].pc /\ scan'[s].seen = scan[s].seen
                 /\ scan'[s].nameless = scan[s].nameless
                 /\ scan'[s].complete = scan[s].complete
                 /\ scan'[s].todo \subseteq scan[s].todo
    PROVE  ExitInv'
<1>1. (\A t \in Terminators : \A id : Holds(t, id)' => Holds(t, id))
        /\ (\A id : Alive(id)' <=> Alive(id)) /\ (\A id : Past(id)' <=> Past(id))
  BY DEF Holds, Alive, Past, os
<1>2. KnownArePast'
  BY <1>1 DEF ExitInv, KnownArePast, os
<1>3. OneScan'
  BY DEF ExitInv, OneScan
<1>4. ObservationCovers'
  BY <1>1 DEF ExitInv, ObservationCovers, Shown
<1>5. TodoAreDead'
  BY <1>1 DEF ExitInv, TodoAreDead, Shown
<1>6. NamesRead'
  BY DEF ExitInv, NamesRead
<1> QED
  BY <1>2, <1>3, <1>4, <1>5, <1>6 DEF ExitInv

LEMMA RetireExit ==
    ASSUME TypeInv, ExitInv, NEW s \in Scanners, NEW id \in Identity, Retire(s, id)
    PROVE  ExitInv'
<1> USE DEF TypeInv, TypeOK
<1>1. Tracked' \subseteq Tracked
  BY DEF Retire, Tracked, Nothing
<1>2. \A r \in Scanners : /\ scan'[r].pc = scan[r].pc /\ scan'[r].seen = scan[r].seen
                          /\ scan'[r].complete = scan[r].complete
                          /\ scan'[r].nameless = scan[r].nameless
                          /\ scan'[r].todo \subseteq scan[r].todo
  BY DEF Retire
<1>3. UNCHANGED <<os, term>>
  BY DEF Retire
<1> QED
  BY <1>1, <1>2, <1>3, FewerExit

LEMMA EndCommitExit ==
    ASSUME TypeInv, ExitInv, NEW s \in Scanners, EndCommit(s)
    PROVE  ExitInv'
<1> USE DEF TypeInv, TypeOK
<1>1. Tracked' = Tracked /\ UNCHANGED <<os, term>>
  BY DEF EndCommit, Tracked, mon
<1>2. \A r \in Scanners : scan'[r] = IF r = s THEN IdleScan ELSE scan[r]
  BY DEF EndCommit
<1> QED
  BY <1>1, <1>2, FewerExit DEF IdleScan

\* The terminator writes back an identity it holds, so nothing the scan has missed.
LEMMA TerminateExit ==
    ASSUME TypeInv, ExitInv, NEW t \in Terminators, Terminate(t)
    PROVE  ExitInv'
<1> USE DEF TypeInv, TypeOK, TermHolds
<1>1. ASSUME NEW p \in Pids, BeginTerminate(t, p) PROVE ExitInv'
  <2>1. PICK id \in Tracked : /\ term'[t].id = id
                              /\ \A r \in Terminators \ {t} : term'[r] = term[r]
    BY <1>1 DEF BeginTerminate, TrackedWithPid
  <2>2. UNCHANGED <<os, scan>> /\ Tracked' = Tracked
    BY <1>1 DEF BeginTerminate, mon, Tracked
  <2>3. (\A i : Alive(i)' <=> Alive(i)) /\ (\A i : Past(i)' <=> Past(i))
    BY <2>2 DEF Alive, Past, os
  <2>4. \A r \in Terminators : \A i : Holds(r, i)' => Holds(r, i) \/ i = id
    BY <2>1 DEF Holds
  <2>5. KnownArePast'
    BY <2>1, <2>2, <2>3 DEF ExitInv, KnownArePast, os
  <2>6. ObservationCovers'
    BY <2>1, <2>2, <2>3, <2>4 DEF ExitInv, ObservationCovers, Shown
  <2> QED
    BY <2>2, <2>3, <2>5, <2>6 DEF ExitInv, OneScan, TodoAreDead, NamesRead, Shown
<1>2. CASE RequestTermination(t)
  <2> DEFINE id == term[t].id
  <2>1. Tracked' \subseteq Tracked \cup {id}
    BY <1>2 DEF RequestTermination, Tracked
  <2>2. UNCHANGED <<os, scan>> /\ term[t].pc = "verified"
          /\ (\A r \in Terminators : term'[r].id = term[r].id
                                    /\ (term'[r].pc = "idle" <=> term[r].pc = "idle"))
    BY <1>2 DEF RequestTermination
  <2>3. (\A i : Alive(i)' <=> Alive(i)) /\ (\A i : Past(i)' <=> Past(i))
          /\ (\A r \in Terminators : \A i : Holds(r, i)' <=> Holds(r, i))
    BY <2>2 DEF Alive, Past, Holds, os
  <2>4. Holds(t, id)
    BY <2>2 DEF Holds
  <2>5. KnownArePast'
    BY <2>1, <2>2, <2>3 DEF ExitInv, KnownArePast, os
  <2>6. ObservationCovers'
    BY <2>1, <2>2, <2>3, <2>4 DEF ExitInv, ObservationCovers, Shown
  <2> QED
    BY <2>2, <2>3, <2>5, <2>6 DEF ExitInv, OneScan, TodoAreDead, NamesRead, Shown
<1>3. CASE TerminateDone(t)
  <2>1. Tracked' \subseteq Tracked
    BY <1>3 DEF TerminateDone, Tracked, Nothing
  <2>2. UNCHANGED <<os, scan>> /\ term' = [term EXCEPT ![t] = IdleTerm]
    BY <1>3 DEF TerminateDone
  <2> QED
    BY <2>1, <2>2, FewerExit DEF IdleTerm
<1>4. CASE TerminateTimedOut(t)
  <2>1. Tracked' = Tracked
    BY <1>4 DEF TerminateTimedOut, Tracked, mon
  <2>2. UNCHANGED <<os, scan>> /\ term' = [term EXCEPT ![t] = IdleTerm]
    BY <1>4 DEF TerminateTimedOut
  <2> QED
    BY <2>1, <2>2, FewerExit DEF IdleTerm
<1>5. CASE TerminateDenied(t)
  <2>1. Tracked' \subseteq Tracked
    BY <1>5 DEF TerminateDenied, Tracked
  <2>2. UNCHANGED <<os, scan>> /\ term' = [term EXCEPT ![t] = IdleTerm]
    BY <1>5 DEF TerminateDenied
  <2> QED
    BY <2>1, <2>2, FewerExit DEF IdleTerm
<1> QED
  BY <1>1, <1>2, <1>3, <1>4, <1>5 DEF Terminate

\* With readable creation times, ExitInv is inductive.
LEMMA ExitStep ==
    ASSUME HiddenBirths = FALSE, TypeInv, ExitInv, [Next]_vars
    PROVE  ExitInv'
<1>1. CASE Environment
  BY <1>1, EnvironmentExit
<1>2. CASE Service
  BY <1>2, ServiceTracks, FrameExit
<1>3. ASSUME NEW s \in Scanners, Scan(s) PROVE ExitInv'
  BY <1>3, ObserveExit, BeginCommitExit, StartTrackingExit, RetireExit, EndCommitExit DEF Scan
<1>4. ASSUME NEW t \in Terminators, Terminate(t) PROVE ExitInv'
  BY <1>4, TerminateExit
<1>5. CASE UNCHANGED vars
  <2>1. Tracked' = Tracked /\ UNCHANGED <<os, scan, term>>
    BY <1>5 DEF vars, mon, Tracked
  <2> QED
    BY <2>1, FrameExit
<1> QED
  BY <1>1, <1>2, <1>3, <1>4, <1>5 DEF Next

\* A scan that could not read the name of this process is committing.
Overlooked(id) == \E s \in Scanners : scan[s].pc = "commit" /\ id[1] \in scan[s].nameless

\* Only the commit loop and a finished close take an identity out of Tracked.
LEMMA OnlyTheDeadLeave ==
    ASSUME TypeInv, ExitInv, [Next]_vars, NEW id \in Tracked \ Tracked'
    PROVE  Alive(id) => Overlooked(id)
<1> USE DEF TypeInv, TypeOK
<1>0. id \in Identity /\ tracked[id].state # "absent" /\ tracked'[id].state = "absent"
  BY DEF Tracked
<1>1. CASE Environment
  BY <1>0, <1>1 DEF Environment, Tick, Spawn, Die, mon
<1>2. CASE Service
  BY <1>2, ServiceTracks
<1>3. ASSUME NEW s \in Scanners, Scan(s) PROVE Alive(id) => Overlooked(id)
  <2>1. CASE ObserveProcesses(s)
    BY <1>0, <2>1 DEF ObserveProcesses, mon
  <2>2. CASE BeginCommit(s)
    <3>1. \A e \in Entry : e.state # "absent" =>
            Refreshed(e).state # "absent" /\ Doubted(e).state # "absent"
      BY DEF Refreshed, Doubted, Settled, Entry, States
    <3> QED
      BY <1>0, <2>2, <3>1 DEF BeginCommit, Tracked
  <2>3. ASSUME NEW i \in Identity, StartTracking(s, i) PROVE Alive(id) => Overlooked(id)
    BY <1>0, <2>3 DEF StartTracking
  <2>4. ASSUME NEW i \in Identity, Retire(s, i) PROVE Alive(id) => Overlooked(id)
    <3>1. i = id
      BY <1>0, <2>4 DEF Retire
    <3>2. scan[s].pc = "commit" /\ id \in scan[s].todo \ scan[s].seen
      BY <2>4, <3>1 DEF Retire, IsFirst
    <3> QED
      BY <3>2 DEF ExitInv, TodoAreDead, Shown, Overlooked
  <2>5. CASE EndCommit(s)
    BY <1>0, <2>5 DEF EndCommit, mon
  <2> QED
    BY <1>3, <2>1, <2>2, <2>3, <2>4, <2>5 DEF Scan
<1>4. ASSUME NEW t \in Terminators, Terminate(t) PROVE Alive(id) => Overlooked(id)
  <2>1. ASSUME NEW p \in Pids, BeginTerminate(t, p) PROVE FALSE
    BY <1>0, <2>1 DEF BeginTerminate, mon
  <2>2. CASE RequestTermination(t)
    <3>1. [term[t].entry EXCEPT !.state = "terminating"].state = "terminating"
      BY DEF Entry
    <3> QED
      BY <1>0, <2>2, <3>1 DEF RequestTermination
  <2>3. CASE TerminateDone(t)
    BY <1>0, <2>3 DEF TerminateDone
  <2>4. CASE TerminateTimedOut(t)
    BY <1>0, <2>4 DEF TerminateTimedOut, mon
  <2>5. CASE TerminateDenied(t)
    <3>1. \A e \in Entry : Settled(e).state # "absent"
      BY DEF Settled, Entry
    <3> QED
      BY <1>0, <2>5, <3>1 DEF TerminateDenied
  <2> QED
    BY <1>4, <2>1, <2>2, <2>3, <2>4, <2>5 DEF Terminate
<1>5. CASE UNCHANGED vars
  BY <1>0, <1>5 DEF vars, mon
<1> QED
  BY <1>1, <1>2, <1>3, <1>4, <1>5 DEF Next

\* A client that is running is never reported gone, for any number of processes, scanner
\* threads and terminators, as long as creation times can be read, except by a scan from
\* which psutil withheld its name (process_monitor.py, _to_observed, scan).
THEOREM RunningNeverReportedGone ==
    ASSUME HiddenBirths = FALSE
    PROVE  Spec => NoFalseExit
<1> DEFINE Inv == TypeInv /\ ExitInv
<1>1. Init => Inv
  BY InitType, InitExit
<1>2. Inv /\ [Next]_vars => Inv'
  <2>1. TypeInv /\ UNCHANGED vars => TypeInv'
    BY DEF TypeInv, TypeOK, TermHolds, vars, os, mon, aux
  <2> QED
    BY <2>1, EnvironmentType, ServiceType, ScanType, TerminateType, ExitStep DEF Next
<1>3. Inv /\ [Next]_vars =>
        [\A id \in Tracked \ Tracked' :
           Alive(id) => \E s \in Scanners : scan[s].pc = "commit" /\ id[1] \in scan[s].nameless]_vars
  BY OnlyTheDeadLeave DEF Overlooked
<1> HIDE DEF Inv
<1> QED
  BY <1>1, <1>2, <1>3, PTL DEF Spec, NoFalseExit

-----------------------------------------------------------------------------
(* Relaunches are bounded.                                                  *)
(*                                                                          *)
(* A close writes the record back that it read before, so what it holds has *)
(* to keep the bound as well.                                               *)

LEMMA TypeStep == TypeInv /\ [Next]_vars => TypeInv'
<1>1. TypeInv /\ UNCHANGED vars => TypeInv'
  BY DEF TypeInv, TypeOK, TermHolds, vars, os, mon, aux
<1> QED
  BY <1>1, EnvironmentType, ServiceType, ScanType, TerminateType DEF Next

LEMMA TypeInvariant == Spec => []TypeInv
BY InitType, TypeStep, PTL DEF Spec

WithinLimit(e) == Bound(e) => e.chain.attempt <= e.chain.policy.max

AttemptInv ==
    /\ \A q \in restarts \cup claimed : q.chain.attempt \in 1 .. q.chain.policy.max
    /\ \A i \in pending : i.chain.attempt <= i.chain.policy.max
    /\ \A id \in Identity : WithinLimit(tracked[id])
    /\ \A t \in Terminators : WithinLimit(term[t].entry)

\* An intent that joins the queue has the chain it is registered with.
LEMMA RegisterAdds ==
    ASSUME NEW chain, Register(chain)
    PROVE  \A i \in pending' : i \in pending \/ i.chain = chain
BY DEF Register

\* A request that joins the queue is the given one.
LEMMA WithRestartAdds ==
    ASSUME NEW q, restarts' \in WithRestart(q)
    PROVE  restarts' \subseteq restarts \cup {q}
BY DEF WithRestart

LEMMA InitAttempt == Init => AttemptInv
BY DEF Init, AttemptInv, WithinLimit, Bound, Nothing, IdleTerm

LEMMA ServiceAttempt == TypeInv /\ AttemptInv /\ Service => AttemptInv'
<1> SUFFICES ASSUME TypeInv, AttemptInv, Service PROVE AttemptInv'
  OBVIOUS
<1>. USE DEF AttemptInv, mon, aux
<1>1. \A a \in Accounts, policy \in Policies :
         UserChain(a, policy).attempt <= UserChain(a, policy).policy.max
  BY DEF UserChain, PolicySpace
<1>2. ASSUME NEW a \in Accounts, NEW policy \in Policies, RegisterLaunch(a, policy) PROVE AttemptInv'
  BY <1>1, <1>2, RegisterAdds DEF RegisterLaunch
<1>3. ASSUME NEW a \in Accounts, NEW policy \in Policies, NEW p \in Pids, BindOrphan(p, a, policy)
      PROVE AttemptInv'
  <2>1. PICK id \in TrackedWithPid(p) :
          tracked' = [tracked EXCEPT ![id].state = "running", ![id].chain = UserChain(a, policy)]
    BY <1>3 DEF BindOrphan
  <2>2. \A j \in Identity : tracked'[j] = tracked[j] \/ tracked'[j].chain = UserChain(a, policy)
    BY <2>1 DEF TypeInv, TypeOK, Entry
  <2>3. \A j \in Identity : WithinLimit(tracked'[j])
    BY <1>1, <2>2 DEF WithinLimit
  <2>. QED BY <1>3, <2>3 DEF BindOrphan, WithinLimit, Bound
<1>4. ASSUME NEW a \in Accounts, ForgetAccount(a) PROVE AttemptInv'
  <2>1. \A e \in Entry : [e EXCEPT !.state = "orphaned", !.chain = NoIntent].chain = NoIntent
    BY DEF Entry
  <2>2. \A j \in Identity : tracked[j] \in Entry
    BY DEF TypeInv, TypeOK
  <2>3. \A j \in Identity : tracked'[j] = tracked[j] \/ tracked'[j].chain = NoIntent
    BY <1>4, <2>1, <2>2 DEF ForgetAccount
  <2>4. \A j \in Identity : WithinLimit(tracked'[j])
    BY <2>3 DEF WithinLimit, Bound
  <2>. QED BY <1>4, <2>4 DEF ForgetAccount, WithinLimit, Bound
<1>5. ASSUME NEW q \in claimed, RegisterRelaunch(q) PROVE AttemptInv'
  <2>1. q.chain.attempt \in 1 .. q.chain.policy.max /\ q.chain.attempt <= q.chain.policy.max
    BY DEF TypeInv, TypeOK, Request, Chain, PolicySpace
  <2>. QED BY <1>5, <2>1, RegisterAdds DEF RegisterRelaunch
<1>6. ASSUME NEW q \in claimed, DropRelaunch(q) PROVE AttemptInv'
  BY <1>6 DEF DropRelaunch
<1>7. ASSUME NEW i \in pending, CancelLaunch(i) PROVE AttemptInv'
  BY <1>7 DEF CancelLaunch
<1>8. CASE ClaimDueRestarts
  BY <1>8 DEF ClaimDueRestarts, NotDue
<1> QED
  BY <1>2, <1>3, <1>4, <1>5, <1>6, <1>7, <1>8 DEF Service

LEMMA SettledChain ==
    ASSUME NEW e \in Entry
    PROVE  /\ Settled(e).chain = e.chain /\ Refreshed(e).chain = e.chain /\ Doubted(e).chain = e.chain
           /\ [e EXCEPT !.state = "terminating"].chain = e.chain
BY DEF Entry, Settled, Refreshed, Doubted

LEMMA ScanAttempt == ASSUME TypeInv, AttemptInv, NEW s \in Scanners, Scan(s) PROVE AttemptInv'
<1>. USE DEF AttemptInv, mon, aux
<1>1. CASE ObserveProcesses(s)
  BY <1>1 DEF ObserveProcesses, WithinLimit, Bound
<1>2. CASE BeginCommit(s)
  <2>1. \A id \in Identity : tracked'[id].chain = tracked[id].chain
    BY <1>2, SettledChain DEF BeginCommit, TypeInv, TypeOK
  <2>. QED BY <1>2, <2>1 DEF BeginCommit, WithinLimit, Bound
<1>3. ASSUME NEW id \in Identity, StartTracking(s, id) PROVE AttemptInv'
  <2>1. \A j \in Identity : \/ tracked'[j] = tracked[j]
                            \/ tracked'[j].chain = NoIntent
                            \/ \E i \in pending : tracked'[j].chain = i.chain
    BY <1>3 DEF StartTracking, Matches, Eligible, TypeInv, TypeOK
  <2>2. \A j \in Identity : WithinLimit(tracked'[j])
    BY <2>1 DEF WithinLimit, Bound
  <2>. QED BY <1>3, <2>2 DEF StartTracking, WithinLimit, Bound
<1>4. ASSUME NEW id \in Identity, Retire(s, id) PROVE AttemptInv'
  <2>1. \A j \in Identity : WithinLimit(tracked'[j])
    BY <1>4 DEF Retire, Nothing, WithinLimit, Bound, TypeInv, TypeOK
  <2>2. \A q \in restarts' : q.chain.attempt \in 1 .. q.chain.policy.max
    <3>1. CASE Schedules(id, scan[s].now)
      <4>. DEFINE q == Relaunch(tracked[id].chain, scan[s].now)
      <4>1. tracked[id].chain \in Chain
        BY <3>1 DEF Schedules, Bound, TypeInv, TypeOK, Entry
      <4>2. q.chain.attempt \in 1 .. q.chain.policy.max
        BY <3>1, <4>1 DEF Schedules, Relaunch, Chain, PolicySpace
      <4>. QED BY <1>4, <3>1, <4>2, WithRestartAdds DEF Retire
    <3>. QED BY <1>4, <3>1 DEF Retire
  <2>. QED BY <1>4, <2>1, <2>2 DEF Retire, WithinLimit, Bound
<1>5. CASE EndCommit(s)
  BY <1>5 DEF EndCommit, WithinLimit, Bound
<1> QED
  BY <1>1, <1>2, <1>3, <1>4, <1>5 DEF Scan

\* What a close writes back and what it reads keeps its chain.
LEMMA TerminateChains ==
    ASSUME TypeInv, NEW t \in Terminators, Terminate(t)
    PROVE  /\ UNCHANGED <<pending, restarts, claimed, launches>>
           /\ \A j \in Identity : \/ tracked'[j].chain = tracked[j].chain
                                  \/ tracked'[j].chain = NoIntent
                                  \/ tracked'[j].chain = term[t].entry.chain
           /\ \A u \in Terminators : \/ term'[u].entry.chain = term[u].entry.chain
                                     \/ term'[u].entry.chain = NoIntent
                                     \/ \E id \in Identity : term'[u].entry.chain = tracked[id].chain
<1>1. UNCHANGED <<pending, restarts, claimed, launches>>
  BY DEF Terminate, BeginTerminate, RequestTermination, TerminateDone, TerminateTimedOut,
         TerminateDenied, mon, aux
<1>2. \A j \in Identity : \/ tracked'[j].chain = tracked[j].chain
                          \/ tracked'[j].chain = NoIntent
                          \/ tracked'[j].chain = term[t].entry.chain
  <2>1. CASE RequestTermination(t)
    BY <2>1, SettledChain DEF RequestTermination, TypeInv, TypeOK
  <2>2. CASE TerminateDone(t)
    BY <2>2 DEF TerminateDone, Nothing, TypeInv, TypeOK
  <2>3. CASE TerminateDenied(t)
    BY <2>3, SettledChain DEF TerminateDenied, TypeInv, TypeOK
  <2>. QED BY <2>1, <2>2, <2>3 DEF Terminate, BeginTerminate, TerminateTimedOut, mon
<1>3. \A u \in Terminators : \/ term'[u].entry.chain = term[u].entry.chain
                             \/ term'[u].entry.chain = NoIntent
                             \/ \E id \in Identity : term'[u].entry.chain = tracked[id].chain
  <2>1. ASSUME NEW p \in Pids, BeginTerminate(t, p)
        PROVE \A u \in Terminators : \/ term'[u].entry.chain = term[u].entry.chain
                                     \/ \E id \in Identity : term'[u].entry.chain = tracked[id].chain
    BY <2>1 DEF BeginTerminate, TrackedWithPid, Tracked, TypeInv, TypeOK
  <2>2. CASE RequestTermination(t)
    BY <2>2 DEF RequestTermination, TypeInv, TypeOK
  <2>3. CASE TerminateDone(t) \/ TerminateTimedOut(t) \/ TerminateDenied(t)
    BY <2>3 DEF TerminateDone, TerminateTimedOut, TerminateDenied, IdleTerm, Nothing, TypeInv, TypeOK
  <2>. QED BY <2>1, <2>2, <2>3 DEF Terminate
<1> QED
  BY <1>1, <1>2, <1>3

LEMMA TerminateAttempt == ASSUME TypeInv, AttemptInv, NEW t \in Terminators, Terminate(t) PROVE AttemptInv'
BY TerminateChains DEF AttemptInv, WithinLimit, Bound

LEMMA AttemptStep == TypeInv /\ AttemptInv /\ [Next]_vars => AttemptInv'
<1>1. TypeInv /\ AttemptInv /\ Environment => AttemptInv'
  BY DEF Environment, Tick, Spawn, Die, mon, aux, AttemptInv, WithinLimit, Bound
<1>2. AttemptInv /\ UNCHANGED vars => AttemptInv'
  BY DEF vars, mon, AttemptInv, WithinLimit, Bound
<1> QED
  BY <1>1, <1>2, ServiceAttempt, ScanAttempt, TerminateAttempt DEF Next

\* For any number of launches, scans and closes, and whatever creation times cannot be read: a
\* chain of relaunches stops at the limit of its policy (process_monitor.py,
\* _schedule_restart_if_eligible; the records terminate_known_process writes back keep it).
THEOREM RelaunchesAreBounded == Spec => []AttemptsBounded
<1>1. AttemptInv => AttemptsBounded
  BY DEF AttemptInv, AttemptsBounded, WithinLimit, Tracked
<1> QED
  BY <1>1, InitAttempt, AttemptStep, TypeInvariant, PTL DEF Spec

-----------------------------------------------------------------------------
(* Requested closes.                                                        *)
(*                                                                          *)
(* A request is made together with a record for its identity, and goes with *)
(* that record; so the set of requests is inside the set of records.        *)

RequestsTracked == requested \subseteq Tracked

\* Refreshing or doubting a record keeps it a record.
LEMMA CommitTracks ==
    ASSUME TypeInv, NEW s \in Scanners, BeginCommit(s)
    PROVE  Tracked' = Tracked
<1>1. \A e \in Entry : e.state # "absent" =>
        Refreshed(e).state # "absent" /\ Doubted(e).state # "absent"
  BY DEF Refreshed, Doubted, Settled, Entry, States
<1>2. \A id \in Identity : tracked'[id].state = "absent" <=> tracked[id].state = "absent"
  BY <1>1 DEF BeginCommit, Tracked, TypeInv, TypeOK
<1> QED
  BY <1>2 DEF Tracked

\* What is tracked after a step of a scan, and what is requested.
LEMMA ScanTracks ==
    ASSUME TypeInv, NEW s \in Scanners, Scan(s)
    PROVE  \/ Tracked \subseteq Tracked' /\ requested' = requested
           \/ \E id \in Identity : /\ Retire(s, id)
                                   /\ Tracked' = Tracked \ {id}
                                   /\ requested' = requested \ {id}
<1>1. CASE ObserveProcesses(s)
  BY <1>1 DEF ObserveProcesses, mon, Tracked
<1>2. CASE BeginCommit(s)
  BY <1>2, CommitTracks DEF BeginCommit
<1>3. ASSUME NEW id \in Identity, StartTracking(s, id)
      PROVE  Tracked \subseteq Tracked' /\ requested' = requested
  <2>1. tracked'[id].state # "absent" /\ \A j \in Identity \ {id} : tracked'[j] = tracked[j]
    BY <1>3 DEF StartTracking, TypeInv, TypeOK
  <2>. QED BY <1>3, <2>1 DEF StartTracking, Tracked
<1>4. ASSUME NEW id \in Identity, Retire(s, id)
      PROVE  Tracked' = Tracked \ {id} /\ requested' = requested \ {id}
  <2>1. /\ tracked'[id].state = "absent"
        /\ \A j \in Identity \ {id} : tracked'[j] = tracked[j]
    BY <1>4 DEF Retire, Nothing, TypeInv, TypeOK
  <2>. QED BY <1>4, <2>1 DEF Retire, Discard, Tracked
<1>5. CASE EndCommit(s)
  BY <1>5 DEF EndCommit, mon, Tracked
<1> QED
  BY <1>1, <1>2, <1>3, <1>4, <1>5 DEF Scan

LEMMA SettledStays ==
    ASSUME NEW e \in Entry
    PROVE  Settled(e).state # "absent" /\ [e EXCEPT !.state = "terminating"].state = "terminating"
BY DEF Settled, Entry

\* What a terminator does to the records and to the requests.
LEMMA TerminateTracks ==
    ASSUME TypeInv, NEW t \in Terminators, Terminate(t)
    PROVE  \/ Tracked' = Tracked /\ requested' = requested
           \/ /\ RequestTermination(t)
              /\ Tracked' = Tracked \cup {term[t].id} /\ requested' = requested \cup {term[t].id}
           \/ /\ TerminateDone(t)
              /\ Tracked' = Tracked \ {term[t].id} /\ requested' = requested \ {term[t].id}
           \/ /\ TerminateDenied(t)
              /\ Tracked' = Tracked /\ requested' = requested \ {term[t].id}
<1>1. ASSUME NEW p \in Pids, BeginTerminate(t, p)
      PROVE  Tracked' = Tracked /\ requested' = requested
  BY <1>1 DEF BeginTerminate, mon, Tracked
<1>2. CASE RequestTermination(t)
  <2>1. term[t].id \in Identity /\ term[t].entry \in Entry
    BY <1>2 DEF RequestTermination, TypeInv, TypeOK, TermHolds
  <2>2. /\ tracked'[term[t].id].state = "terminating"
        /\ \A j \in Identity \ {term[t].id} : tracked'[j] = tracked[j]
    BY <1>2, <2>1, SettledStays DEF RequestTermination, TypeInv, TypeOK
  <2>. QED BY <1>2, <2>1, <2>2 DEF RequestTermination, Tracked
<1>3. CASE TerminateDone(t)
  <2>1. term[t].id \in Identity
    BY <1>3 DEF TerminateDone, TypeInv, TermHolds
  <2>2. /\ tracked'[term[t].id].state = "absent"
        /\ \A j \in Identity \ {term[t].id} : tracked'[j] = tracked[j]
    BY <1>3, <2>1 DEF TerminateDone, Nothing, TypeInv, TypeOK
  <2>. QED BY <1>3, <2>1, <2>2 DEF TerminateDone, Discard, Tracked
<1>4. CASE TerminateTimedOut(t)
  BY <1>4 DEF TerminateTimedOut, mon, Tracked
<1>5. CASE TerminateDenied(t)
  <2>1. term[t].id \in Identity
    BY <1>5 DEF TerminateDenied, TypeInv, TermHolds
  <2>2. \A j \in Identity : tracked[j] \in Entry /\ Settled(tracked[j]).state # "absent"
    BY SettledStays DEF TypeInv, TypeOK
  <2>3. \A j \in Identity : tracked'[j].state = "absent" <=> tracked[j].state = "absent"
    BY <1>5, <2>1, <2>2 DEF TerminateDenied, TypeInv, TypeOK
  <2>. QED BY <1>5, <2>3 DEF TerminateDenied, Discard, Tracked
<1> QED
  BY <1>1, <1>2, <1>3, <1>4, <1>5 DEF Terminate

LEMMA ServiceRequests == Service => requested' = requested
BY DEF Service, RegisterLaunch, BindOrphan, ForgetAccount, CancelLaunch, RegisterRelaunch,
       DropRelaunch, ClaimDueRestarts, mon, aux

LEMMA RequestsStep == TypeInv /\ RequestsTracked /\ [Next]_vars => RequestsTracked'
<1> SUFFICES ASSUME TypeInv, RequestsTracked, [Next]_vars PROVE RequestsTracked'
  OBVIOUS
<1>. USE DEF RequestsTracked
<1>1. CASE Environment
  BY <1>1 DEF Environment, Tick, Spawn, Die, mon, Tracked
<1>2. CASE Service
  BY <1>2, ServiceTracks, ServiceRequests
<1>3. ASSUME NEW s \in Scanners, Scan(s) PROVE RequestsTracked'
  BY <1>3, ScanTracks
<1>4. ASSUME NEW t \in Terminators, Terminate(t) PROVE RequestsTracked'
  BY <1>4, TerminateTracks
<1>5. CASE UNCHANGED vars
  BY <1>5 DEF vars, mon, Tracked
<1> QED
  BY <1>1, <1>2, <1>3, <1>4, <1>5 DEF Next

\* For any number of processes and closes, and even when creation times cannot be read: a
\* requested close is never remembered for a process the monitor has forgotten, so
\* `_termination_requested` cannot grow beyond the records, and a later client with the same
\* identity is not taken for a closed one (process_monitor.py, terminate_known_process).
THEOREM RequestsDoNotLeak == Spec => []NoLeakedRequest
<1>1. Init => RequestsTracked
  BY DEF Init, RequestsTracked
<1>2. RequestsTracked => NoLeakedRequest
  BY DEF RequestsTracked, NoLeakedRequest
<1> QED
  BY <1>1, <1>2, RequestsStep, TypeInvariant, PTL DEF Spec

-----------------------------------------------------------------------------
(* A closed client is not relaunched.                                       *)
(*                                                                          *)
(* While its close is waited for, a record keeps its request.  When the     *)
(* record goes first, the client is dead and no scan under way has seen it, *)
(* so it cannot be tracked again without its request.  A second close of    *)
(* the same client, refused while the first still waits, would take the     *)
(* request away: hence at most one terminator.                              *)

AskedInv ==
    \A t \in Terminators : term[t].pc = "asked" =>
        /\ term[t].id \in Tracked => term[t].id \in requested
        /\ term[t].id \notin Tracked =>
             /\ ~ Alive(term[t].id)
             /\ \A s \in Scanners : scan[s].pc # "idle" => term[t].id \notin scan[s].seen

\* A process observed with a creation time is running.
LEMMA ObservedAlive ==
    ASSUME TypeInv, HiddenBirths = FALSE, NEW s \in Scanners, ObserveProcesses(s),
           NEW id \in scan'[s].seen
    PROVE  Alive(id)
<1>1. PICK shown \in SUBSET live, whole \in BOOLEAN :
        scan' = [scan EXCEPT ![s] =
             [pc |-> "observed", seen |-> Newest(Observed(shown, {})), now |-> clock,
              complete |-> Complete(Observed(shown, {}), whole),
              todo |-> {}, nameless |-> IF whole THEN live \ shown ELSE {}]]
  BY DEF ObserveProcesses
<1>2. id \in Observed(shown, {})
  BY <1>1 DEF Newest, TypeInv, TypeOK
<1>3. PICK p \in shown : id = <<p, born[p]>>
  BY <1>2 DEF Observed
<1> QED
  BY <1>3 DEF Alive

LEMMA ScanAsked ==
    ASSUME TypeInv, ExitInv, AskedInv, HiddenBirths = FALSE, HiddenNames = FALSE, NEW s \in Scanners, Scan(s)
    PROVE  AskedInv'
<1>1. UNCHANGED <<os, term>> /\ \A id : Alive(id)' <=> Alive(id)
  BY DEF Scan, ObserveProcesses, BeginCommit, StartTracking, Retire, EndCommit, os, Alive
<1> SUFFICES ASSUME NEW t \in Terminators, term[t].pc = "asked"
             PROVE  /\ term[t].id \in Tracked' => term[t].id \in requested'
                    /\ term[t].id \notin Tracked' =>
                         /\ ~ Alive(term[t].id)
                         /\ \A r \in Scanners : scan'[r].pc # "idle" => term[t].id \notin scan'[r].seen
  BY <1>1 DEF AskedInv
<1> DEFINE id == term[t].id
<1>2. id \in Identity
  BY DEF TypeInv, TermHolds
<1>3. CASE ObserveProcesses(s)
  <2>1. Tracked' = Tracked /\ requested' = requested
    BY <1>3 DEF ObserveProcesses, mon, Tracked
  <2>2. \A r \in Scanners \ {s} : scan'[r] = scan[r]
    BY <1>3 DEF ObserveProcesses, TypeInv, TypeOK
  <2>3. ~ Alive(id) => id \notin scan'[s].seen
    BY <1>3, ObservedAlive
  <2>. QED BY <2>1, <2>2, <2>3 DEF AskedInv
<1>4. CASE BeginCommit(s) \/ EndCommit(s)
  <2>1. Tracked' = Tracked /\ requested' = requested
    BY <1>4, CommitTracks DEF BeginCommit, EndCommit, mon, Tracked
  <2>2. \A r \in Scanners : scan'[r].pc # "idle" => scan[r].pc # "idle" /\ scan'[r].seen = scan[r].seen
    <3>1. CASE BeginCommit(s)
      BY <3>1 DEF BeginCommit, TypeInv, TypeOK
    <3>2. CASE EndCommit(s)
      BY <3>2 DEF EndCommit, IdleScan, TypeInv, TypeOK
    <3>. QED BY <1>4, <3>1, <3>2
  <2>. QED BY <2>1, <2>2 DEF AskedInv
<1>5. ASSUME NEW i \in Identity, StartTracking(s, i)
      PROVE  /\ id \in Tracked' => id \in requested'
             /\ id \notin Tracked' =>
                  /\ ~ Alive(id)
                  /\ \A r \in Scanners : scan'[r].pc # "idle" => id \notin scan'[r].seen
  <2>1. /\ scan[s].pc = "commit" /\ i \in scan[s].seen /\ requested' = requested
        /\ \A r \in Scanners : scan'[r].pc = scan[r].pc /\ scan'[r].seen = scan[r].seen
    BY <1>5 DEF StartTracking, IsFirst, TypeInv, TypeOK
  <2>2. Tracked \subseteq Tracked' /\ Tracked' \subseteq Tracked \cup {i}
    BY <1>5, ScanTracks DEF StartTracking, Tracked, TypeInv, TypeOK
  <2>3. id \notin Tracked => id # i
    BY <2>1 DEF AskedInv
  <2>. QED BY <2>1, <2>2, <2>3 DEF AskedInv
<1>6. ASSUME NEW i \in Identity, Retire(s, i)
      PROVE  /\ id \in Tracked' => id \in requested'
             /\ id \notin Tracked' =>
                  /\ ~ Alive(id)
                  /\ \A r \in Scanners : scan'[r].pc # "idle" => id \notin scan'[r].seen
  <2>1. /\ scan[s].pc = "commit" /\ i \in scan[s].todo \ scan[s].seen
        /\ \A r \in Scanners : scan'[r].pc = scan[r].pc /\ scan'[r].seen = scan[r].seen
    BY <1>6 DEF Retire, IsFirst, TypeInv, TypeOK
  <2>2. Tracked' = Tracked \ {i} /\ requested' = requested \ {i}
    <3>1. /\ tracked'[i].state = "absent"
          /\ \A j \in Identity \ {i} : tracked'[j] = tracked[j]
      BY <1>6 DEF Retire, Nothing, TypeInv, TypeOK
    <3>. QED BY <1>6, <3>1 DEF Retire, Discard, Tracked
  <2>3. ~ Alive(i)
    BY <2>1 DEF ExitInv, TodoAreDead, NamesRead, Shown
  <2>4. \A r \in Scanners : scan'[r].pc # "idle" => r = s
    BY <2>1 DEF ExitInv, OneScan
  <2>. QED BY <2>1, <2>2, <2>3, <2>4 DEF AskedInv
<1> QED
  BY <1>3, <1>4, <1>5, <1>6 DEF Scan

LEMMA TerminateAsked ==
    ASSUME TypeInv, AskedInv, \A t, u \in Terminators : t = u,
           NEW t \in Terminators, Terminate(t)
    PROVE  AskedInv'
<1>1. CASE RequestTermination(t)
  <2>1. \A u \in Terminators : u = t
    OBVIOUS
  <2>2. term'[t].id = term[t].id
    BY <1>1 DEF RequestTermination, TypeInv, TypeOK
  <2>3. term[t].id \in Identity /\ term[t].entry \in Entry
    BY <1>1 DEF RequestTermination, TypeInv, TypeOK, TermHolds
  <2>4. tracked'[term[t].id].state = "terminating"
    BY <1>1, <2>3, SettledStays DEF RequestTermination, TypeInv, TypeOK
  <2>5. term[t].id \in Tracked' /\ term[t].id \in requested'
    BY <1>1, <2>3, <2>4 DEF RequestTermination, Tracked
  <2>. QED BY <2>1, <2>2, <2>5 DEF AskedInv
<1>2. CASE TerminateTimedOut(t) \/ TerminateDone(t) \/ TerminateDenied(t)
  <2>1. \A u \in Terminators : term'[u].pc = "idle"
    BY <1>2 DEF TerminateTimedOut, TerminateDone, TerminateDenied, IdleTerm, TypeInv, TypeOK
  <2>. QED BY <2>1 DEF AskedInv
<1>3. ASSUME NEW p \in Pids, BeginTerminate(t, p) PROVE AskedInv'
  <2>1. \A u \in Terminators : term'[u].pc # "asked"
    BY <1>3 DEF BeginTerminate, TypeInv, TypeOK
  <2>. QED BY <2>1 DEF AskedInv
<1> QED
  BY <1>1, <1>2, <1>3 DEF Terminate

LEMMA AskedStep ==
    ASSUME HiddenBirths = FALSE, HiddenNames = FALSE, \A t, u \in Terminators : t = u,
           TypeInv, ExitInv, AskedInv, [Next]_vars
    PROVE  AskedInv'
<1>1. CASE Environment
  <2>1. UNCHANGED <<mon, scan, term>> /\ Tracked' = Tracked
    BY <1>1 DEF Environment, Tick, Spawn, Die, mon, Tracked
  <2>2. \A t \in Terminators : term[t].pc = "asked" => (Alive(term[t].id)' => Alive(term[t].id))
    <3> SUFFICES ASSUME NEW t \in Terminators, term[t].pc = "asked", Alive(term[t].id)'
                 PROVE  Alive(term[t].id)
      OBVIOUS
    <3> DEFINE id == term[t].id
    <3>1. id \in Identity /\ Past(id)
      BY DEF TypeInv, TermHolds, ExitInv, KnownArePast
    <3>2. \A i \in Identity : Past(i) => (Alive(i)' => Alive(i))
      BY <1>1, DeadStayDead
    <3>3. term'[t] = term[t]
      BY <2>1
    <3>. QED BY <3>1, <3>2, <3>3 DEF Alive
  <2>. QED BY <2>1, <2>2 DEF AskedInv, mon, Alive
<1>2. CASE Service
  <2>1. /\ Tracked' = Tracked /\ requested' = requested /\ UNCHANGED <<scan, term>>
        /\ \A id : Alive(id)' <=> Alive(id)
    BY <1>2, ServiceTracks, ServiceRequests DEF os, Alive
  <2>. QED BY <2>1 DEF AskedInv
<1>3. ASSUME NEW s \in Scanners, Scan(s) PROVE AskedInv'
  BY <1>3, ScanAsked
<1>4. ASSUME NEW t \in Terminators, Terminate(t) PROVE AskedInv'
  BY <1>4, TerminateAsked
<1>5. CASE UNCHANGED vars
  BY <1>5 DEF vars, mon, os, Tracked, Alive, AskedInv
<1> QED
  BY <1>1, <1>2, <1>3, <1>4, <1>5 DEF Next

NoRelaunchOfClosed ==
    \A t \in Terminators :
        (term[t].pc = "asked" /\ term[t].id \in Tracked /\ term[t].id \notin Tracked')
           => restarts' \subseteq restarts

LEMMA ClosedStep ==
    ASSUME TypeInv, AskedInv, [Next]_vars
    PROVE  NoRelaunchOfClosed
<1> SUFFICES ASSUME NEW t \in Terminators, term[t].pc = "asked", term[t].id \in Tracked,
                    term[t].id \notin Tracked'
             PROVE  restarts' \subseteq restarts
  BY DEF NoRelaunchOfClosed
<1> DEFINE id == term[t].id
<1>1. CASE Environment
  BY <1>1 DEF Environment, Tick, Spawn, Die, mon
<1>2. CASE Service
  BY <1>2, ServiceTracks
<1>3. ASSUME NEW s \in Scanners, Scan(s) PROVE restarts' \subseteq restarts
  <2>1. PICK i \in Identity : Retire(s, i) /\ Tracked' = Tracked \ {i}
    BY <1>3, ScanTracks
  <2>2. i = id /\ id \in requested
    BY <2>1 DEF AskedInv
  <2>3. TerminalState(id, scan[s].now) = "terminated"
    BY <2>2 DEF TerminalState
  <2>4. ~ Schedules(id, scan[s].now)
    BY <2>3 DEF Schedules, WantsRestart
  <2>. QED BY <2>1, <2>2, <2>4 DEF Retire
<1>4. ASSUME NEW u \in Terminators, Terminate(u) PROVE restarts' \subseteq restarts
  BY <1>4 DEF Terminate, BeginTerminate, RequestTermination, TerminateDone, TerminateTimedOut,
              TerminateDenied, mon
<1>5. CASE UNCHANGED vars
  BY <1>5 DEF vars, mon
<1> QED
  BY <1>1, <1>2, <1>3, <1>4, <1>5 DEF Next

\* When names and creation times can be read and one close runs at a time: however the close is
\* interleaved with scans, bindings and deletions, the disappearance of a client whose close is
\* waited for queues no relaunch (process_monitor.py, terminate_known_process and
\* _terminal_state).
THEOREM ClosedStaysClosed ==
    ASSUME HiddenBirths = FALSE, HiddenNames = FALSE, \A t, u \in Terminators : t = u
    PROVE  Spec => ClosedNotRelaunched
<1> DEFINE Inv == TypeInv /\ ExitInv /\ AskedInv
<1>1. Init => Inv
  BY InitType, InitExit DEF Init, AskedInv, IdleTerm
<1>2. Inv /\ [Next]_vars => Inv'
  BY TypeStep, ExitStep, AskedStep
<1>3. Inv /\ [Next]_vars => [NoRelaunchOfClosed]_vars
  BY ClosedStep
<1> HIDE DEF Inv
<1>4. Spec => [][NoRelaunchOfClosed]_vars
  BY <1>1, <1>2, <1>3, PTL DEF Spec
<1> QED
  BY <1>4 DEF NoRelaunchOfClosed, ClosedNotRelaunched

-----------------------------------------------------------------------------
(* One copy of a launch.                                                    *)
(*                                                                          *)
(* A launch is in the hands of at most one waiting record or of one client. *)
(* A client holds it through its record, unless that is the record of a     *)
(* closed and dead one, and through the record a close has read and will    *)
(* write back, as long as the client lives.                                 *)

Waiting == pending \cup restarts \cup claimed

OfLaunch(e, root) == Bound(e) /\ e.chain.root = root

Carries(id, root) ==
    OfLaunch(tracked[id], root) /\ (tracked[id].state # "terminating" \/ Alive(id))

Recalls(t, id, root) ==
    term[t].pc = "verified" /\ term[t].id = id /\ Alive(id) /\ OfLaunch(term[t].entry, root)

ClientOf(id, root) == Carries(id, root) \/ \E t \in Terminators : Recalls(t, id, root)

OneOf(root) ==
    /\ \A x, y \in Waiting : (x.chain.root = root /\ y.chain.root = root) => x = y
    /\ \A q \in restarts : q.chain.root = root => q \notin claimed
    /\ \A x \in Waiting : \A id \in Identity : x.chain.root = root => ~ ClientOf(id, root)
    /\ \A i, j \in Identity : (ClientOf(i, root) /\ ClientOf(j, root)) => i = j

\* The numbers of launches are used up in order.
Known(e, n) == Bound(e) => e.chain.root < n
RootInv ==
    /\ \A x \in Waiting : x.chain.root < launches
    /\ \A id \in Identity : Known(tracked[id], launches)
    /\ \A t \in Terminators : Known(term[t].entry, launches)

CopyInv == \A root \in Nat : OneOf(root)

\* The intent that Register adds.
IntentOf(chain) == [chain |-> chain, requested |-> clock, expires |-> clock + MatchTimeout]
LEMMA RegisterAddsOne ==
    ASSUME NEW chain, Register(chain)
    PROVE  pending' \subseteq pending \cup {IntentOf(chain)} /\ IntentOf(chain).chain = chain
BY DEF Register, IntentOf

LEMMA InitRoot == Init => RootInv
BY DEF Init, RootInv, Waiting, Known, Bound, Nothing, IdleTerm

LEMMA ServiceRoot == TypeInv /\ RootInv /\ Service => RootInv'
<1> SUFFICES ASSUME TypeInv, RootInv, Service PROVE RootInv'
  OBVIOUS
<1>. USE DEF RootInv, Waiting, mon, aux
<1>1. \A a \in Accounts, policy \in Policies : UserChain(a, policy).root = launches
  BY DEF UserChain
<1>2. launches \in Nat /\ launches < launches + 1
  BY DEF TypeInv, TypeOK
<1>3. /\ \A x \in Waiting : x.chain.root < launches + 1
      /\ \A id \in Identity : Known(tracked[id], launches + 1)
      /\ \A t \in Terminators : Known(term[t].entry, launches + 1)
  <2>1. \A c \in Chain : c.root < launches => c.root < launches + 1
    BY <1>2 DEF Chain
  <2>2. \A x \in Waiting : x.chain \in Chain
    BY DEF TypeInv, TypeOK, Intent, Request
  <2>3. \A e \in Entry : Known(e, launches) => Known(e, launches + 1)
    BY <2>1 DEF Known, Bound, Entry
  <2>4. (\A id \in Identity : tracked[id] \in Entry) /\ (\A t \in Terminators : term[t].entry \in Entry)
    BY DEF TypeInv, TypeOK
  <2>. QED BY <2>1, <2>2, <2>3, <2>4
<1>4. ASSUME NEW a \in Accounts, NEW policy \in Policies, RegisterLaunch(a, policy) PROVE RootInv'
  BY <1>1, <1>2, <1>3, <1>4, RegisterAddsOne DEF RegisterLaunch
<1>5. ASSUME NEW a \in Accounts, NEW policy \in Policies, NEW p \in Pids, BindOrphan(p, a, policy)
      PROVE RootInv'
  <2>1. PICK id \in TrackedWithPid(p) :
          tracked' = [tracked EXCEPT ![id].state = "running", ![id].chain = UserChain(a, policy)]
    BY <1>5 DEF BindOrphan
  <2>2. \A j \in Identity : tracked'[j] = tracked[j] \/ tracked'[j].chain = UserChain(a, policy)
    BY <2>1 DEF TypeInv, TypeOK, Entry
  <2>3. \A j \in Identity : Known(tracked'[j], launches + 1)
    BY <1>1, <1>2, <1>3, <2>2 DEF Known
  <2>. QED BY <1>3, <1>5, <2>3 DEF BindOrphan
<1>6. ASSUME NEW a \in Accounts, ForgetAccount(a) PROVE RootInv'
  <2>1. \A e \in Entry : [e EXCEPT !.state = "orphaned", !.chain = NoIntent].chain = NoIntent
    BY DEF Entry
  <2>2. \A j \in Identity : tracked[j] \in Entry
    BY DEF TypeInv, TypeOK
  <2>3. \A j \in Identity : tracked'[j] = tracked[j] \/ tracked'[j].chain = NoIntent
    BY <1>6, <2>1, <2>2 DEF ForgetAccount
  <2>4. \A j \in Identity : Known(tracked'[j], launches)
    BY <2>3 DEF Known, Bound
  <2>. QED BY <1>6, <2>4 DEF ForgetAccount
<1>7. ASSUME NEW q \in claimed, RegisterRelaunch(q) PROVE RootInv'
  BY <1>7, RegisterAddsOne DEF RegisterRelaunch
<1>8. ASSUME NEW q \in claimed, DropRelaunch(q) PROVE RootInv'
  BY <1>8 DEF DropRelaunch
<1>9. ASSUME NEW i \in pending, CancelLaunch(i) PROVE RootInv'
  BY <1>9 DEF CancelLaunch
<1>10. CASE ClaimDueRestarts
  BY <1>10 DEF ClaimDueRestarts, NotDue
<1> QED
  BY <1>4, <1>5, <1>6, <1>7, <1>8, <1>9, <1>10 DEF Service

\* A relaunch keeps the launch it goes back to.
LEMMA RelaunchRoot ==
    ASSUME NEW chain \in Chain, NEW now
    PROVE  Relaunch(chain, now).chain.root = chain.root
BY DEF Relaunch, Chain

LEMMA ScanRoot == ASSUME TypeInv, RootInv, NEW s \in Scanners, Scan(s) PROVE RootInv'
<1>. USE DEF RootInv, Waiting, mon, aux
<1>1. CASE ObserveProcesses(s)
  BY <1>1 DEF ObserveProcesses
<1>2. CASE BeginCommit(s)
  <2>1. \A id \in Identity : tracked'[id].chain = tracked[id].chain
    BY <1>2, SettledChain DEF BeginCommit, TypeInv, TypeOK
  <2>. QED BY <1>2, <2>1 DEF BeginCommit, Known, Bound
<1>3. ASSUME NEW id \in Identity, StartTracking(s, id) PROVE RootInv'
  <2>1. \A j \in Identity : \/ tracked'[j] = tracked[j]
                            \/ tracked'[j].chain = NoIntent
                            \/ \E i \in pending : tracked'[j].chain = i.chain
    BY <1>3 DEF StartTracking, Matches, Eligible, TypeInv, TypeOK
  <2>2. \A j \in Identity : Known(tracked'[j], launches)
    BY <2>1 DEF Known, Bound
  <2>. QED BY <1>3, <2>2 DEF StartTracking
<1>4. ASSUME NEW id \in Identity, Retire(s, id) PROVE RootInv'
  <2>1. \A j \in Identity : Known(tracked'[j], launches)
    BY <1>4 DEF Retire, Nothing, Known, Bound, TypeInv, TypeOK
  <2>2. \A q \in restarts' : q.chain.root < launches
    <3>1. CASE Schedules(id, scan[s].now)
      <4>1. tracked[id].chain \in Chain /\ tracked[id].chain.root < launches
        BY <3>1 DEF Schedules, Bound, Known, TypeInv, TypeOK, Entry
      <4>2. Relaunch(tracked[id].chain, scan[s].now).chain.root < launches
        BY <4>1, RelaunchRoot
      <4>. QED BY <1>4, <3>1, <4>2, WithRestartAdds DEF Retire
    <3>. QED BY <1>4, <3>1 DEF Retire
  <2>. QED BY <1>4, <2>1, <2>2 DEF Retire
<1>5. CASE EndCommit(s)
  BY <1>5 DEF EndCommit
<1> QED
  BY <1>1, <1>2, <1>3, <1>4, <1>5 DEF Scan

LEMMA RootStep == TypeInv /\ RootInv /\ [Next]_vars => RootInv'
<1>1. TypeInv /\ RootInv /\ Environment => RootInv'
  BY DEF Environment, Tick, Spawn, Die, mon, aux, RootInv, Waiting, Known, Bound
<1>2. RootInv /\ UNCHANGED vars => RootInv'
  BY DEF vars, mon, aux, RootInv, Waiting, Known, Bound
<1>3. ASSUME TypeInv, RootInv, NEW t \in Terminators, Terminate(t) PROVE RootInv'
  BY <1>3, TerminateChains DEF RootInv, Waiting, Known, Bound
<1> QED
  BY <1>1, <1>2, <1>3, ServiceRoot, ScanRoot DEF Next

\* A step that gives `root` no new place keeps it in one place.
LEMMA CopyFrame ==
    ASSUME NEW root, OneOf(root),
           \A x \in Waiting' : x.chain.root = root => x \in Waiting,
           \A q \in restarts' : q.chain.root = root => (q \in restarts /\ (q \in claimed' => q \in claimed)),
           \A id \in Identity : ClientOf(id, root)' => ClientOf(id, root)
    PROVE  OneOf(root)'
BY DEF OneOf

\* A launch no client holds, and that waits in `new` only, is in one place.
LEMMA CopyWaits ==
    ASSUME NEW root, NEW new,
           \A x \in Waiting' : x.chain.root = root => x = new,
           new \in restarts' => new \notin claimed',
           \A id \in Identity : ~ ClientOf(id, root)'
    PROVE  OneOf(root)'
BY DEF OneOf, Waiting

\* So is a launch that does not wait, and that only `client` holds.
LEMMA CopyRuns ==
    ASSUME NEW root, NEW client,
           \A x \in Waiting' : x.chain.root # root,
           \A id \in Identity : ClientOf(id, root)' => id = client
    PROVE  OneOf(root)'
BY DEF OneOf, Waiting

\* Records and requests are records of different shapes.
LEMMA IntentIsNoRequest == Intent \cap Request = {}
<1> SUFFICES ASSUME NEW i \in Intent, i \in Request PROVE FALSE
  OBVIOUS
<1>1. "requested" \in DOMAIN i /\ "requested" \notin DOMAIN i
  BY DEF Intent, Request
<1> QED
  BY <1>1

LEMMA EnvironmentCopy ==
    ASSUME TypeInv, ExitInv, Environment, NEW root \in Nat, OneOf(root)
    PROVE  OneOf(root)'
<1>1. UNCHANGED <<mon, scan, term, claimed>> /\ Tracked' = Tracked
  BY DEF Environment, Tick, Spawn, Die, mon, Tracked
<1>2. \A i \in Identity : Past(i) => (Alive(i)' => Alive(i))
  BY DeadStayDead
<1>3. ASSUME NEW id \in Identity, Carries(id, root)' PROVE Carries(id, root)
  <2>1. tracked[id].state = "terminating" => id \in Tracked
    BY DEF Tracked
  <2>2. tracked[id].state = "terminating" => (Alive(id)' => Alive(id))
    BY <1>2, <2>1 DEF ExitInv, KnownArePast
  <2>. QED BY <1>1, <1>3, <2>2 DEF Carries, OfLaunch, Bound, mon
<1>4. ASSUME NEW id \in Identity, NEW t \in Terminators, Recalls(t, id, root)' PROVE Recalls(t, id, root)
  <2>1. Past(id)
    BY <1>1, <1>4 DEF Recalls, ExitInv, KnownArePast
  <2>. QED BY <1>1, <1>2, <1>4, <2>1 DEF Recalls, OfLaunch, Bound
<1>5. \A id \in Identity : ClientOf(id, root)' => ClientOf(id, root)
  BY <1>3, <1>4 DEF ClientOf
<1> QED
  BY <1>1, <1>5, CopyFrame DEF Waiting, mon

LEMMA ServiceCopy ==
    ASSUME TypeInv, RootInv, Service, NEW root \in Nat, OneOf(root)
    PROVE  OneOf(root)'
<1>. USE DEF mon, aux
<1>1. UNCHANGED <<scan, term>> /\ \A id : Alive(id)' <=> Alive(id)
  BY ServiceTracks DEF os, Alive
<1>2. \A id \in Identity : \A t \in Terminators : Recalls(t, id, root)' <=> Recalls(t, id, root)
  BY <1>1 DEF Recalls, OfLaunch, Bound
<1>3. tracked' = tracked => \A id \in Identity : ClientOf(id, root)' <=> ClientOf(id, root)
  BY <1>1, <1>2 DEF ClientOf, Carries, OfLaunch, Bound
<1>4. root = launches => /\ \A x \in Waiting : x.chain.root # root
                         /\ \A id \in Identity : ~ ClientOf(id, root)
  BY DEF RootInv, Known, ClientOf, Carries, Recalls, OfLaunch
<1>5. ASSUME NEW a \in Accounts, NEW policy \in Policies, RegisterLaunch(a, policy)
      PROVE OneOf(root)'
  <2>. DEFINE new == IntentOf(UserChain(a, policy))
  <2>1. Waiting' \subseteq Waiting \cup {new} /\ new.chain.root = launches
    BY <1>5, RegisterAddsOne DEF RegisterLaunch, Waiting, UserChain
  <2>2. UNCHANGED <<tracked, restarts, claimed>>
    BY <1>5 DEF RegisterLaunch
  <2>3. CASE root = launches
    <3>1. \A q \in restarts' : q.chain.root # root
      BY <1>4, <2>2, <2>3 DEF Waiting
    <3>2. \A x \in Waiting' : x.chain.root = root => x = new
      BY <1>4, <2>1, <2>3
    <3>3. new \notin restarts'
      BY <2>1, <2>3, <3>1
    <3>. QED BY <1>3, <1>4, <2>2, <2>3, <3>2, <3>3, CopyWaits
  <2>4. CASE root # launches
    BY <1>3, <2>1, <2>2, <2>4, CopyFrame
  <2>. QED BY <2>3, <2>4
<1>6. ASSUME NEW a \in Accounts, NEW policy \in Policies, NEW p \in Pids, BindOrphan(p, a, policy)
      PROVE OneOf(root)'
  <2>1. PICK id \in TrackedWithPid(p) :
          tracked' = [tracked EXCEPT ![id].state = "running", ![id].chain = UserChain(a, policy)]
    BY <1>6 DEF BindOrphan
  <2>2. id \in Identity /\ tracked[id] \in Entry
    BY DEF TrackedWithPid, Tracked, TypeInv, TypeOK
  <2>3. /\ tracked'[id].chain.root = launches
        /\ \A j \in Identity \ {id} : tracked'[j] = tracked[j]
    BY <2>1, <2>2 DEF UserChain, TypeInv, TypeOK, Entry
  <2>4. UNCHANGED <<pending, restarts, claimed>>
    BY <1>6 DEF BindOrphan
  <2>5. \A j \in Identity \ {id} : ClientOf(j, root)' => ClientOf(j, root)
    BY <1>1, <1>2, <2>3 DEF ClientOf, Carries, OfLaunch, Bound
  <2>6. CASE root = launches
    BY <1>4, <2>4, <2>5, <2>6, CopyRuns DEF Waiting
  <2>7. CASE root # launches
    <3>1. ClientOf(id, root)' => ClientOf(id, root)
      BY <1>2, <2>2, <2>3, <2>7 DEF ClientOf, Carries, OfLaunch
    <3>. QED BY <2>4, <2>5, <3>1, CopyFrame DEF Waiting
  <2>. QED BY <2>6, <2>7
<1>7. ASSUME NEW a \in Accounts, ForgetAccount(a) PROVE OneOf(root)'
  <2>1. \A e \in Entry : [e EXCEPT !.state = "orphaned", !.chain = NoIntent].chain = NoIntent
    BY DEF Entry
  <2>2. \A j \in Identity : tracked[j] \in Entry
    BY DEF TypeInv, TypeOK
  <2>3. \A j \in Identity : tracked'[j] = tracked[j] \/ tracked'[j].chain = NoIntent
    BY <1>7, <2>1, <2>2 DEF ForgetAccount
  <2>4. \A j \in Identity : ClientOf(j, root)' => ClientOf(j, root)
    BY <1>1, <1>2, <2>3 DEF ClientOf, Carries, OfLaunch, Bound
  <2>. QED BY <1>7, <2>4, CopyFrame DEF ForgetAccount, Waiting
<1>8. ASSUME NEW q \in claimed, RegisterRelaunch(q) PROVE OneOf(root)'
  <2>. DEFINE new == IntentOf(q.chain)
  <2>1. pending' \subseteq pending \cup {new} /\ new.chain = q.chain
    BY <1>8, RegisterAddsOne DEF RegisterRelaunch
  <2>2. UNCHANGED <<tracked, restarts>> /\ claimed' = claimed \ {q}
    BY <1>8 DEF RegisterRelaunch
  <2>3. CASE root = q.chain.root
    <3>1. \A x \in Waiting : x.chain.root = root => x = q
      BY <2>3 DEF OneOf, Waiting
    <3>2. q \notin pending /\ q \notin restarts
      BY <2>3, IntentIsNoRequest DEF OneOf, TypeInv, TypeOK
    <3>3. \A x \in Waiting' : x.chain.root = root => x = new
      BY <2>1, <2>2, <3>1, <3>2 DEF Waiting
    <3>4. new \notin restarts'
      BY <2>1, <2>2, <2>3, <3>1, <3>2 DEF Waiting
    <3>5. \A id \in Identity : ~ ClientOf(id, root)'
      BY <1>3, <2>2, <2>3 DEF OneOf, Waiting
    <3>. QED BY <3>3, <3>4, <3>5, CopyWaits
  <2>4. CASE root # q.chain.root
    BY <1>3, <2>1, <2>2, <2>4, CopyFrame DEF Waiting
  <2>. QED BY <2>3, <2>4
<1>9. ASSUME NEW q \in claimed, DropRelaunch(q) PROVE OneOf(root)'
  BY <1>3, <1>9, CopyFrame DEF DropRelaunch, Waiting
<1>10. ASSUME NEW i \in pending, CancelLaunch(i) PROVE OneOf(root)'
  BY <1>3, <1>10, CopyFrame DEF CancelLaunch, Waiting
<1>11. CASE ClaimDueRestarts
  <2>1. UNCHANGED <<tracked, pending>> /\ Waiting' \subseteq Waiting
    BY <1>11 DEF ClaimDueRestarts, NotDue, Waiting
  <2>2. \A q \in restarts' : q \in restarts /\ (q \in claimed' => q \in claimed)
    BY <1>11 DEF ClaimDueRestarts, NotDue, TypeInv, TypeOK, Request, Times
  <2>. QED BY <1>3, <2>1, <2>2, CopyFrame
<1> QED
  BY <1>5, <1>6, <1>7, <1>8, <1>9, <1>10, <1>11 DEF Service

\* The states a scan gives to the records it keeps.
LEMMA CommitStates ==
    ASSUME NEW e \in Entry
    PROVE  /\ Refreshed(e).state = "terminating" => e.state = "terminating"
           /\ Doubted(e).state = "terminating" => e.state = "terminating"
           /\ e.state = "terminating" => Refreshed(e) = e /\ Doubted(e) = e
BY DEF Refreshed, Doubted, Settled, Entry

\* A record that is relaunched is not that of a closed client.
LEMMA ScheduledIsOpen ==
    ASSUME NEW id, NEW now, Schedules(id, now)
    PROVE  Bound(tracked[id]) /\ tracked[id].state # "terminating"
BY DEF Schedules, WantsRestart, TerminalState

LEMMA ScanCopy ==
    ASSUME TypeInv, ExitInv, RootInv, HiddenNames = FALSE \/ Terminators = {},
           NEW s \in Scanners, Scan(s), NEW root \in Nat, OneOf(root)
    PROVE  OneOf(root)'
<1>. USE DEF mon, aux
<1>1. UNCHANGED <<os, term, claimed>> /\ \A id : Alive(id)' <=> Alive(id)
  BY DEF Scan, ObserveProcesses, BeginCommit, StartTracking, Retire, EndCommit, os, Alive
<1>2. \A id \in Identity : \A t \in Terminators : Recalls(t, id, root)' <=> Recalls(t, id, root)
  BY <1>1 DEF Recalls, OfLaunch, Bound
<1>3. CASE ObserveProcesses(s) \/ EndCommit(s)
  <2>1. UNCHANGED mon
    BY <1>3 DEF ObserveProcesses, EndCommit
  <2>2. \A id \in Identity : ClientOf(id, root)' => ClientOf(id, root)
    BY <1>1, <1>2, <2>1 DEF ClientOf, Carries, OfLaunch, Bound
  <2>. QED BY <1>1, <2>1, <2>2, CopyFrame DEF Waiting
<1>4. CASE BeginCommit(s)
  <2>1. \A id \in Identity : /\ tracked'[id].chain = tracked[id].chain
                             /\ tracked[id].state = "terminating" => tracked'[id] = tracked[id]
    BY <1>4, SettledChain, CommitStates DEF BeginCommit, TypeInv, TypeOK
  <2>2. \A id \in Identity : Carries(id, root)' => Carries(id, root)
    BY <1>1, <2>1 DEF Carries, OfLaunch, Bound
  <2>3. pending' \subseteq pending /\ UNCHANGED <<restarts, claimed>>
    BY <1>4 DEF BeginCommit
  <2>. QED BY <1>2, <2>2, <2>3, CopyFrame DEF Waiting, ClientOf
<1>5. ASSUME NEW id \in Identity, StartTracking(s, id) PROVE OneOf(root)'
  <2>1. pending' \subseteq pending /\ UNCHANGED <<restarts, claimed>>
    BY <1>5 DEF StartTracking
  <2>2. \A j \in Identity \ {id} : tracked'[j] = tracked[j]
    BY <1>5 DEF StartTracking, TypeInv, TypeOK
  <2>3. \A j \in Identity \ {id} : ClientOf(j, root)' => ClientOf(j, root)
    BY <1>1, <1>2, <2>2 DEF ClientOf, Carries, OfLaunch, Bound
  <2>4. CASE OfLaunch(tracked'[id], root)
    <3>1. PICK i \in Matches(id, scan[s].now) : tracked'[id].chain = i.chain
      BY <1>5, <2>4 DEF StartTracking, OfLaunch, Bound, TypeInv, TypeOK
    <3>2. i \in pending /\ i \notin pending' /\ i.chain.root = root
      BY <1>5, <2>4, <3>1 DEF StartTracking, Matches, Eligible, OfLaunch
    <3>3. \A x \in Waiting : x.chain.root = root => x = i
      BY <3>2 DEF OneOf, Waiting
    <3>4. i \notin restarts /\ i \notin claimed
      BY <3>2, IntentIsNoRequest DEF TypeInv, TypeOK
    <3>5. \A x \in Waiting' : x.chain.root # root
      BY <2>1, <3>2, <3>3, <3>4 DEF Waiting
    <3>6. \A j \in Identity : ~ ClientOf(j, root)
      BY <3>2 DEF OneOf, Waiting
    <3>. QED BY <2>3, <3>5, <3>6, CopyRuns
  <2>5. CASE ~ OfLaunch(tracked'[id], root)
    <3>1. ClientOf(id, root)' => ClientOf(id, root)
      BY <1>2, <2>5 DEF ClientOf, Carries, OfLaunch, Bound
    <3>. QED BY <2>1, <2>3, <3>1, CopyFrame DEF Waiting
  <2>. QED BY <2>4, <2>5
<1>6. ASSUME NEW id \in Identity, Retire(s, id) PROVE OneOf(root)'
  <2>1. /\ tracked'[id] = Nothing
        /\ \A j \in Identity \ {id} : tracked'[j] = tracked[j]
    BY <1>6 DEF Retire, TypeInv, TypeOK
  <2>2. ~ Alive(id) \/ Terminators = {}
    BY <1>6 DEF Retire, IsFirst, ExitInv, TodoAreDead, NamesRead, Shown
  <2>3. ~ ClientOf(id, root)'
    BY <1>1, <2>1, <2>2 DEF ClientOf, Carries, Recalls, OfLaunch, Bound, Nothing
  <2>4. \A j \in Identity : ClientOf(j, root)' => ClientOf(j, root)
    BY <1>1, <1>2, <2>1, <2>3 DEF ClientOf, Carries, OfLaunch, Bound
  <2>5. UNCHANGED <<pending, claimed>>
    BY <1>6 DEF Retire
  <2>6. CASE Schedules(id, scan[s].now) /\ tracked[id].chain.root = root
    <3>. DEFINE new == Relaunch(tracked[id].chain, scan[s].now)
    <3>1. Carries(id, root)
      BY <2>6, ScheduledIsOpen DEF Carries, OfLaunch
    <3>2. \A j \in Identity : ~ ClientOf(j, root)'
      BY <2>3, <2>4, <3>1 DEF OneOf, ClientOf
    <3>3. \A x \in Waiting : x.chain.root # root
      BY <3>1 DEF OneOf, ClientOf
    <3>4. restarts' \subseteq restarts \cup {new}
      BY <1>6, <2>6, WithRestartAdds DEF Retire
    <3>5. tracked[id].chain \in Chain
      BY <2>6, ScheduledIsOpen DEF Bound, TypeInv, TypeOK, Entry
    <3>6. new.chain.root = root
      BY <2>6, <3>5, RelaunchRoot
    <3>7. new \notin claimed'
      BY <2>5, <3>3, <3>6 DEF Waiting
    <3>8. \A x \in Waiting' : x.chain.root = root => x = new
      BY <2>5, <3>3, <3>4 DEF Waiting
    <3>. QED BY <3>2, <3>7, <3>8, CopyWaits
  <2>7. CASE Schedules(id, scan[s].now) /\ tracked[id].chain.root # root
    <3>. DEFINE new == Relaunch(tracked[id].chain, scan[s].now)
    <3>1. restarts' \subseteq restarts \cup {new}
      BY <1>6, <2>7, WithRestartAdds DEF Retire
    <3>2. tracked[id].chain \in Chain
      BY <2>7, ScheduledIsOpen DEF Bound, TypeInv, TypeOK, Entry
    <3>3. new.chain.root # root
      BY <2>7, <3>2, RelaunchRoot
    <3>. QED BY <2>4, <2>5, <3>1, <3>3, CopyFrame DEF Waiting
  <2>8. CASE ~ Schedules(id, scan[s].now)
    <3>1. restarts' = restarts
      BY <1>6, <2>8 DEF Retire
    <3>. QED BY <2>4, <2>5, <3>1, CopyFrame DEF Waiting
  <2>. QED BY <2>6, <2>7, <2>8
<1> QED
  BY <1>3, <1>4, <1>5, <1>6 DEF Scan

LEMMA TerminateCopy ==
    ASSUME TypeInv, NEW t \in Terminators, Terminate(t), NEW root \in Nat, OneOf(root)
    PROVE  OneOf(root)'
<1>. USE DEF mon, aux
<1>1. /\ UNCHANGED <<os, pending, restarts, claimed>>
      /\ \A id : Alive(id)' <=> Alive(id)
  BY DEF Terminate, BeginTerminate, RequestTermination, TerminateDone, TerminateTimedOut,
         TerminateDenied, os, Alive
<1> SUFFICES \A id \in Identity : ClientOf(id, root)' => ClientOf(id, root)
  BY <1>1, CopyFrame DEF Waiting
<1>2. \A u \in Terminators \ {t} : term'[u] = term[u]
  BY DEF Terminate, BeginTerminate, RequestTermination, TerminateDone, TerminateTimedOut,
         TerminateDenied, TypeInv, TypeOK
<1>3. \A id \in Identity : \A u \in Terminators \ {t} : Recalls(u, id, root)' => Recalls(u, id, root)
  BY <1>1, <1>2 DEF Recalls, OfLaunch, Bound
<1>4. ASSUME NEW p \in Pids, BeginTerminate(t, p), NEW id \in Identity, ClientOf(id, root)'
      PROVE  ClientOf(id, root)
  <2>1. UNCHANGED tracked
    BY <1>4 DEF BeginTerminate
  <2>2. Recalls(t, id, root)' => Carries(id, root)
    BY <1>1, <1>4 DEF BeginTerminate, Recalls, Carries, OfLaunch, Bound, TypeInv, TypeOK
  <2>. QED BY <1>1, <1>3, <1>4, <2>1, <2>2 DEF ClientOf, Carries, OfLaunch, Bound
<1>5. ASSUME RequestTermination(t), NEW id \in Identity, ClientOf(id, root)'
      PROVE  ClientOf(id, root)
  <2>1. ~ Recalls(t, id, root)'
    BY <1>5 DEF RequestTermination, Recalls, TypeInv, TypeOK
  <2>2. CASE id = term[t].id
    <3>1. [term[t].entry EXCEPT !.state = "terminating"].state = "terminating"
      BY SettledStays DEF TypeInv, TypeOK
    <3>2. tracked'[id].state = "terminating" /\ tracked'[id].chain = term[t].entry.chain
      BY <1>5, <2>2, <3>1, SettledChain DEF RequestTermination, TypeInv, TypeOK
    <3>3. Carries(id, root)' => Recalls(t, id, root)
      BY <1>1, <1>5, <2>2, <3>2 DEF RequestTermination, Carries, Recalls, OfLaunch, Bound
    <3>. QED BY <1>3, <1>5, <2>1, <3>3 DEF ClientOf
  <2>3. CASE id # term[t].id
    <3>1. tracked'[id] = tracked[id]
      BY <1>5, <2>3 DEF RequestTermination, TypeInv, TypeOK
    <3>. QED BY <1>1, <1>3, <1>5, <2>1, <3>1 DEF ClientOf, Carries, OfLaunch, Bound
  <2>. QED BY <2>2, <2>3
<1>6. ASSUME TerminateDone(t) \/ TerminateTimedOut(t) \/ TerminateDenied(t),
             NEW id \in Identity, ClientOf(id, root)'
      PROVE  ClientOf(id, root)
  <2>1. ~ Recalls(t, id, root)'
    BY <1>6 DEF TerminateDone, TerminateTimedOut, TerminateDenied, Recalls, IdleTerm, TypeInv, TypeOK
  <2>2. \/ tracked'[id] = tracked[id]
        \/ tracked'[id] = Nothing
        \/ tracked'[id].chain = tracked[id].chain /\ Alive(id)
    <3>1. CASE TerminateDone(t)
      BY <3>1 DEF TerminateDone, TypeInv, TypeOK
    <3>2. CASE TerminateTimedOut(t)
      BY <3>2 DEF TerminateTimedOut
    <3>3. CASE TerminateDenied(t)
      BY <3>3, SettledChain DEF TerminateDenied, TypeInv, TypeOK
    <3>. QED BY <1>6, <3>1, <3>2, <3>3
  <2>3. Carries(id, root)' => Carries(id, root)
    BY <1>1, <2>2 DEF Carries, OfLaunch, Bound, Nothing
  <2>. QED BY <1>3, <1>6, <2>1, <2>3 DEF ClientOf
<1> QED
  BY <1>4, <1>5, <1>6 DEF Terminate

LEMMA CopyStep ==
    ASSUME HiddenBirths = FALSE, HiddenNames = FALSE \/ Terminators = {},
           TypeInv, ExitInv, RootInv, CopyInv, [Next]_vars
    PROVE  CopyInv'
<1> SUFFICES ASSUME NEW root \in Nat PROVE OneOf(root)'
  BY DEF CopyInv
<1>1. OneOf(root)
  BY DEF CopyInv
<1>2. CASE UNCHANGED vars
  <2>1. \A id : Alive(id)' <=> Alive(id)
    BY <1>2 DEF vars, os, Alive
  <2>2. \A id \in Identity : ClientOf(id, root)' => ClientOf(id, root)
    BY <1>2, <2>1 DEF vars, mon, ClientOf, Carries, Recalls, OfLaunch, Bound
  <2>. QED BY <1>1, <1>2, <2>2, CopyFrame DEF vars, mon, Waiting
<1> QED
  BY <1>1, <1>2, EnvironmentCopy, ServiceCopy, ScanCopy, TerminateCopy DEF Next

LEMMA InitCopy == Init => CopyInv
BY DEF Init, CopyInv, OneOf, Waiting, ClientOf, Carries, Recalls, OfLaunch, Bound, Nothing, IdleTerm

\* Two places are one.
LEMMA OnePlace ==
    ASSUME NEW root, OneOf(root), NEW g \in Holders(root), NEW h \in Holders(root)
    PROVE  g = h
<1> DEFINE queued == {x \in Waiting : x.chain.root = root}
           held == {id \in Tracked : /\ tracked[id].state # "terminating"
                                     /\ Bound(tracked[id]) /\ tracked[id].chain.root = root}
<1>1. Holders(root) = ({"queue"} \X queued) \cup ({"tracked"} \X held)
  BY DEF Holders, Waiting
<1>2. \A id \in held : id \in Identity /\ ClientOf(id, root)
  BY DEF Tracked, ClientOf, Carries, OfLaunch
<1>3. \A x, y \in queued : x = y
  BY DEF OneOf
<1>4. \A i, j \in held : i = j
  BY <1>2 DEF OneOf
<1>5. ~ \E x \in queued, id \in held : TRUE
  BY <1>2 DEF OneOf
<1> HIDE DEF queued, held
<1> QED
  BY <1>1, <1>3, <1>4, <1>5

\* When creation times can be read, and names as well unless nobody closes a client: whatever is
\* launched, bound, closed, relaunched and deleted, in whatever order, a launch the user asked
\* for is in at most one place, so that it neither runs twice nor waits to be relaunched while it
\* runs (process_monitor.py, scan and _schedule_restart_if_eligible; the records terminate_known_process reads and writes back).
THEOREM OneLaunchOneCopy ==
    ASSUME HiddenBirths = FALSE, HiddenNames = FALSE \/ Terminators = {}
    PROVE  Spec => []OneCopyPerLaunch
<1> DEFINE Inv == TypeInv /\ ExitInv /\ RootInv /\ CopyInv
<1>1. Init => Inv
  BY InitType, InitExit, InitRoot, InitCopy
<1>2. Inv /\ [Next]_vars => Inv'
  BY TypeStep, ExitStep, RootStep, CopyStep
<1>3. Inv => OneCopyPerLaunch
  <2> SUFFICES ASSUME Inv, NEW root \in 0 .. launches PROVE Cardinality(Holders(root)) <= 1
    BY DEF OneCopyPerLaunch
  <2>1. OneOf(root)
    BY DEF CopyInv
  <2>2. \A g, h \in Holders(root) : g = h
    BY <2>1, OnePlace
  <2>3. CASE Holders(root) = {}
    BY <2>3, FS_EmptySet
  <2>4. ASSUME NEW h \in Holders(root) PROVE Cardinality(Holders(root)) <= 1
    <3>1. Holders(root) = {h}
      BY <2>2, <2>4
    <3>. QED BY <3>1, FS_Singleton
  <2>. QED BY <2>3, <2>4
<1> HIDE DEF Inv
<1> QED
  BY <1>1, <1>2, <1>3, PTL DEF Spec

=============================================================================
