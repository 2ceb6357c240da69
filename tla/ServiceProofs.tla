----------------------------- MODULE ServiceProofs -----------------------------
(***************************************************************************)
(* Proofs about the services that threads use for long: the OAuth login,   *)
(* the sign-in through a browser and the emergency stop, for any number of *)
(* logins, threads, accounts, macros, runs and holders of the mutex.       *)
(***************************************************************************)
EXTENDS MCServices, FoldProofs

(***************************************************************************)
(* The holder of the mutex.                                                *)
(***************************************************************************)

HolderPlaces == {"unborn", "opens", "tries", "looks", "polls", "holds", "gives", "frees", "ended"}
SwitchRecord == [pc : {"idle", "waits", "disables", "signals", "joins", "forgets"}, seen : 0..MaxHolders]
Owning == {"holds", "gives", "frees"}

\* Only the holder that is remembered lives, the mutex is with it from the wait that granted it
\* to the end of its thread, and it lets go when it is told to.
OneHolder ==
    /\ \A h \in Holders : HolderLives(h) => h = thread
    /\ mutex \in Holders => mutex = thread /\ holder[thread] \in Owning
    /\ thread # 0 /\ holder[thread] = "holds" => mutex = thread /\ claimed /\ on
    /\ on => thread # 0 /\ holder[thread] \in Owning
    /\ (thread # 0 /\ holder[thread] \in {"gives", "frees"} /\ (on \/ mutex = thread)) => release

\* One call is in progress.  It knows the holder, and forgets it after it has ended.
OneCall ==
    /\ \A u, v \in Switchers : switch[u].pc # "idle" /\ switch[v].pc # "idle" => u = v
    /\ thread # 0 /\ release => \E u \in Switchers : switch[u].pc \in {"joins", "forgets"}
    /\ \A u \in Switchers :
         /\ switch[u].pc # "disables"
         /\ switch[u].pc \in {"signals", "joins", "forgets"} => switch[u].seen = thread
         /\ switch[u].pc \in {"joins", "forgets"} => release
         /\ switch[u].pc = "forgets" => ~ HolderLives(thread)

LockInv == MultiTypeOK /\ (calm => OneHolder /\ OneCall)

\* What a step of the lock leaves of its promise.
LockKept == LockInv' /\ (calm => [Lock!Next]_(Lock!lockVars))

-----------------------------------------------------------------------------

LEMMA HolderNumbers ==
    /\ 0 \notin Holders /\ 0 \in 0..MaxHolders /\ Holders \subseteq 0..MaxHolders
    /\ NoOwner \notin Holders /\ Client \notin Holders /\ NoOwner # Client
    /\ \A n \in 0..MaxHolders : n # 0 => n \in Holders
BY MultiAssumption DEF Holders, NoOwner, Client

LEMMA LockStart == MultiInit => LockInv /\ Lock!Init
<1> SUFFICES ASSUME MultiInit PROVE LockInv /\ Lock!Init
  OBVIOUS
<1>. USE HolderNumbers
<1>1. MultiTypeOK
  BY DEF MultiInit, MultiTypeOK, NoHandles, NoSwitch
<1>2. OneHolder /\ OneCall
  BY DEF MultiInit, OneHolder, OneCall, HolderLives, NoSwitch
<1>3. Lock!Init
  BY DEF MultiInit, Lock!Init, AstroOwns
<1>. QED BY <1>1, <1>2, <1>3 DEF LockInv

\* The steps of the clients: the first one takes a mutex that is free.
LEMMA ClientStep ==
    ASSUME LockInv, ClientStartsFirst \/ LastClientExits
    PROVE  LockKept
<1>. USE HolderNumbers
<1>1. MultiTypeOK'
  BY DEF LockInv, MultiTypeOK, ClientStartsFirst, LastClientExits
<1>2. ASSUME calm PROVE OneHolder' /\ OneCall'
  <2>1. UNCHANGED <<calm, holder, thread, release, ready, claimed, on, handle, switch>>
    BY DEF ClientStartsFirst, LastClientExits
  <2>2. mutex \notin Holders /\ mutex' \notin Holders
    BY DEF ClientStartsFirst, LastClientExits
  <2>3. thread # 0 => mutex # thread /\ mutex' # thread
    BY <2>2 DEF LockInv, MultiTypeOK
  <2>4. OneHolder'
    BY <1>2, <2>1, <2>2, <2>3 DEF LockInv, OneHolder, HolderLives
  <2>5. OneCall'
    BY <1>2, <2>1 DEF LockInv, OneCall, HolderLives
  <2>. QED BY <2>4, <2>5
<1>3. Lock!Next
  BY DEF Lock!Next, Lock!ClientTakes, Lock!ClientLeaves, AstroOwns, ClientStartsFirst, LastClientExits
<1>4. calm' = calm
  BY DEF ClientStartsFirst, LastClientExits
<1>. QED BY <1>1, <1>2, <1>3, <1>4 DEF LockInv, LockKept

\* A call goes to another place.
LEMMA SwitchMoves ==
    ASSUME MultiTypeOK, NEW u \in Switchers,
           NEW pc \in {"idle", "waits", "disables", "signals", "joins", "forgets"}, SwitchTo(u, pc)
    PROVE  /\ switch' \in [Switchers -> SwitchRecord]
           /\ switch'[u].pc = pc /\ switch'[u].seen = switch[u].seen
           /\ \A v \in Switchers \ {u} : switch'[v] = switch[v]
BY DEF MultiTypeOK, SwitchTo, SwitchRecord

\* A holder goes to another place.
LEMMA HolderMoves ==
    ASSUME MultiTypeOK, NEW h \in Holders, NEW pc \in HolderPlaces, HolderTo(h, pc)
    PROVE  /\ holder' \in [Holders -> HolderPlaces] /\ holder'[h] = pc
           /\ \A g \in Holders \ {h} : holder'[g] = holder[g]
BY DEF MultiTypeOK, HolderTo, HolderPlaces

LEMMA EnableStep ==
    ASSUME LockInv, NEW u \in Switchers, Enable(u)
    PROVE  LockKept
<1>. USE HolderNumbers
<1>1. PICK h \in Holders : holder[h] = "unborn" /\ HolderTo(h, "opens") /\ thread' = h
  BY DEF Enable
<1>2. /\ holder' \in [Holders -> HolderPlaces] /\ holder'[h] = "opens"
      /\ \A g \in Holders \ {h} : holder'[g] = holder[g]
  BY <1>1, HolderMoves DEF LockInv, HolderPlaces
<1>3. /\ switch' \in [Switchers -> SwitchRecord]
      /\ switch'[u].pc = "waits"
      /\ \A v \in Switchers \ {u} : switch'[v] = switch[v]
  BY SwitchMoves DEF LockInv, Enable
<1>4. /\ release' = FALSE /\ ready' = FALSE /\ on' = FALSE /\ claimed' = FALSE
      /\ handle' = NoHandles /\ UNCHANGED <<calm, mutex>>
  BY DEF Enable
<1>5. MultiTypeOK'
  <2>1. NoHandles \in [{"mutex", "event"} -> 0..MaxHolders]
    BY DEF NoHandles
  <2>. QED BY <1>1, <1>2, <1>3, <1>4, <2>1 DEF LockInv, MultiTypeOK, HolderPlaces, SwitchRecord
<1>6. ASSUME calm PROVE OneHolder' /\ OneCall' /\ [Lock!Next]_(Lock!lockVars)
  <2>1. \A g \in Holders : ~ HolderLives(g)
    BY <1>6 DEF LockInv, OneHolder, Enable, NoHolder
  <2>2. mutex \notin Holders
    BY <1>6, <2>1 DEF LockInv, OneHolder, HolderLives, Owning
  <2>3. OneHolder'
    BY <1>1, <1>2, <1>4, <2>1, <2>2 DEF OneHolder, HolderLives, Owning
  <2>4. \A v \in Switchers : switch[v].pc = "idle"
    BY <1>6 DEF Enable, MayCall
  <2>5. OneCall'
    BY <1>3, <1>4, <2>4 DEF OneCall
  <2>6. ~ (thread # 0 /\ release)
    BY <1>6, <2>4 DEF LockInv, OneCall
  <2>7. [Lock!Next]_(Lock!lockVars)
    BY <1>1, <1>4, <2>6 DEF Lock!Next, Lock!TurnOn, Lock!lockVars, AstroOwns
  <2>. QED BY <2>3, <2>5, <2>7
<1>. QED BY <1>4, <1>5, <1>6 DEF LockInv, LockKept

\* The calls that only wait, and the one that turns the support off up to the join.
LEMMA CallStep ==
    ASSUME LockInv, NEW u \in Switchers, EnableReturns(u) \/ Disable(u) \/ JoinHolder(u)
    PROVE  LockKept
<1>. USE HolderNumbers
<1>1. UNCHANGED <<calm, lockState>>
  BY DEF EnableReturns, Disable, JoinHolder
<1>2. /\ switch' \in [Switchers -> SwitchRecord]
      /\ \A v \in Switchers \ {u} : switch'[v] = switch[v]
  <2>1. CASE Disable(u)
    BY <2>1 DEF LockInv, MultiTypeOK, Disable, SwitchRecord
  <2>. QED BY <2>1, SwitchMoves DEF LockInv, EnableReturns, JoinHolder
<1>3. MultiTypeOK'
  BY <1>1, <1>2 DEF LockInv, MultiTypeOK, lockState, SwitchRecord
<1>4. [Lock!Next]_(Lock!lockVars)
  BY <1>1 DEF Lock!lockVars, lockState, AstroOwns
<1>5. ASSUME calm PROVE OneHolder' /\ OneCall'
  <2>1. OneHolder'
    BY <1>1, <1>5 DEF LockInv, OneHolder, lockState, HolderLives
  <2>2. CASE EnableReturns(u)
    <3>1. switch[u].pc = "waits" /\ switch'[u].pc = "idle"
      BY <1>5, <2>2, SwitchMoves DEF LockInv, EnableReturns
    <3>. QED BY <1>1, <1>2, <1>5, <2>1, <3>1 DEF LockInv, OneCall, lockState, HolderLives
  <2>3. CASE Disable(u)
    <3>1. switch'[u].pc = "signals" /\ switch'[u].seen = thread
      BY <2>3 DEF LockInv, MultiTypeOK, Disable
    <3>2. \A v \in Switchers : switch[v].pc = "idle"
      BY <1>5, <2>3 DEF LockInv, OneCall, Disable, MayCall
    <3>. QED BY <1>1, <1>2, <1>5, <2>1, <3>1, <3>2 DEF LockInv, OneCall, lockState
  <2>4. CASE JoinHolder(u)
    <3>1. switch[u].pc = "joins" /\ switch'[u].pc = "forgets" /\ switch'[u].seen = switch[u].seen
      BY <2>4, SwitchMoves DEF LockInv, JoinHolder
    <3>2. ~ HolderLives(thread)
      BY <1>5, <2>4, <3>1 DEF LockInv, OneCall, JoinHolder, Joined
    <3>. QED BY <1>1, <1>2, <1>5, <2>1, <3>1, <3>2 DEF LockInv, OneCall, lockState, HolderLives
  <2>. QED BY <2>1, <2>2, <2>3, <2>4
<1>. QED BY <1>1, <1>3, <1>4, <1>5 DEF LockInv, LockKept

LEMMA SignalStep ==
    ASSUME LockInv, NEW u \in Switchers, SignalRelease(u)
    PROVE  LockKept
<1>. USE HolderNumbers
<1>1. /\ switch' \in [Switchers -> SwitchRecord]
      /\ switch'[u].pc = "joins" /\ switch'[u].seen = switch[u].seen
      /\ \A v \in Switchers \ {u} : switch'[v] = switch[v]
  BY SwitchMoves DEF LockInv, SignalRelease
<1>2. /\ release' = TRUE /\ switch[u].pc = "signals"
      /\ UNCHANGED <<calm, mutex, holder, thread, ready, claimed, on, handle>>
  BY DEF SignalRelease
<1>3. MultiTypeOK'
  BY <1>1, <1>2 DEF LockInv, MultiTypeOK, SwitchRecord
<1>4. ASSUME calm PROVE OneHolder' /\ OneCall' /\ [Lock!Next]_(Lock!lockVars)
  <2>1. OneHolder'
    BY <1>2, <1>4 DEF LockInv, OneHolder, HolderLives
  <2>2. OneCall'
    BY <1>1, <1>2, <1>4 DEF LockInv, OneCall, HolderLives
  <2>3. [Lock!Next]_(Lock!lockVars)
    BY <1>2 DEF Lock!Next, Lock!TurnOff, Lock!lockVars, AstroOwns
  <2>. QED BY <2>1, <2>2, <2>3
<1>. QED BY <1>2, <1>3, <1>4 DEF LockInv, LockKept

\* The holder has ended, so the mutex is not with it any more.
LEMMA ForgetStep ==
    ASSUME LockInv, NEW u \in Switchers, ForgetHolder(u)
    PROVE  LockKept
<1>. USE HolderNumbers
<1>1. /\ switch' \in [Switchers -> SwitchRecord] /\ switch'[u].pc = "idle"
      /\ \A v \in Switchers \ {u} : switch'[v] = switch[v]
  BY DEF LockInv, MultiTypeOK, ForgetHolder, NoSwitch, SwitchRecord
<1>2. /\ thread' = 0 /\ on' = FALSE /\ claimed' = FALSE /\ switch[u].pc = "forgets"
      /\ handle' \in [{"mutex", "event"} -> 0..MaxHolders]
      /\ UNCHANGED <<calm, mutex, holder, release, ready>>
  BY DEF ForgetHolder, NoHandles
<1>3. MultiTypeOK'
  BY <1>1, <1>2 DEF LockInv, MultiTypeOK, SwitchRecord
<1>4. ASSUME calm PROVE OneHolder' /\ OneCall' /\ [Lock!Next]_(Lock!lockVars)
  <2>1. \A h \in Holders : ~ HolderLives(h)
    BY <1>2, <1>4 DEF LockInv, OneHolder, OneCall
  <2>2. mutex \notin Holders
    BY <1>4, <2>1 DEF LockInv, OneHolder, HolderLives, Owning
  <2>3. OneHolder'
    BY <1>2, <2>1, <2>2 DEF OneHolder, HolderLives
  <2>4. OneCall'
    BY <1>1, <1>2, <1>4 DEF LockInv, OneCall
  <2>5. release
    BY <1>2, <1>4 DEF LockInv, OneCall
  <2>6. [Lock!Next]_(Lock!lockVars)
    BY <1>2, <2>2, <2>5 DEF Lock!Next, Lock!Closed, Lock!lockVars, AstroOwns
  <2>. QED BY <2>3, <2>4, <2>6
<1>. QED BY <1>2, <1>3, <1>4 DEF LockInv, LockKept

-----------------------------------------------------------------------------
\* The thread of a holder.

\* In a calm behaviour the holder that takes a step is the one that is remembered.
LEMMA StepOfTheOne ==
    ASSUME LockInv, calm, NEW h \in Holders, holder[h] \notin {"unborn", "ended"}
    PROVE  thread = h /\ h # 0 /\ OneHolder /\ OneCall /\ \A u \in Switchers : switch[u].pc # "forgets"
BY HolderNumbers DEF LockInv, OneHolder, OneCall, HolderLives

\* A step of the holder that leaves the mutex and the flags.
LEMMA QuietStep ==
    ASSUME LockInv, NEW h \in Holders, holder[h] \notin {"unborn", "ended"},
           NEW pc \in HolderPlaces, HolderTo(h, pc),
           UNCHANGED <<calm, mutex, thread, release, claimed, on, switch>>,
           ready' \in BOOLEAN, handle' \in [{"mutex", "event"} -> 0..MaxHolders],
           calm => \/ holder[h] \notin Owning /\ pc \notin {"unborn"} \cup Owning
                   \/ holder[h] \notin Owning /\ pc = "gives"
                   \/ holder[h] = "holds" /\ (pc = "gives" => release) /\ pc \in {"holds", "gives"}
    PROVE  LockKept
<1>. USE HolderNumbers
<1>1. /\ holder' \in [Holders -> HolderPlaces] /\ holder'[h] = pc
      /\ \A g \in Holders \ {h} : holder'[g] = holder[g]
  BY HolderMoves DEF LockInv
<1>2. MultiTypeOK'
  BY <1>1 DEF LockInv, MultiTypeOK, HolderPlaces
<1>3. ASSUME calm PROVE OneHolder' /\ OneCall'
  <2>1. thread = h /\ OneHolder /\ OneCall /\ \A u \in Switchers : switch[u].pc # "forgets"
    BY <1>3, StepOfTheOne
  <2>2. OneHolder'
    BY <1>1, <1>3, <2>1 DEF OneHolder, HolderLives, Owning
  <2>3. OneCall'
    BY <2>1 DEF OneCall
  <2>. QED BY <2>2, <2>3
<1>4. [Lock!Next]_(Lock!lockVars)
  BY DEF Lock!lockVars, AstroOwns
<1>. QED BY <1>2, <1>3, <1>4 DEF LockInv, LockKept

\* The wait hands over a mutex nobody has.
LEMMA GrantedStep ==
    ASSUME LockInv, NEW h \in Holders, holder[h] \in {"tries", "polls"},
           Granted, MarkMutexOwned(h), HolderTo(h, "holds"),
           UNCHANGED <<calm, thread, release, handle, switch>>, ready' \in BOOLEAN
    PROVE  LockKept
<1>. USE HolderNumbers
<1>1. /\ holder' \in [Holders -> HolderPlaces] /\ holder'[h] = "holds"
      /\ \A g \in Holders \ {h} : holder'[g] = holder[g]
  BY HolderMoves DEF LockInv, HolderPlaces
<1>2. mutex = NoOwner /\ mutex' = h /\ claimed' = TRUE /\ on' = TRUE
  BY DEF Granted, MarkMutexOwned
<1>3. MultiTypeOK'
  BY <1>1, <1>2 DEF LockInv, MultiTypeOK, HolderPlaces
<1>4. ASSUME calm PROVE OneHolder' /\ OneCall' /\ [Lock!Next]_(Lock!lockVars)
  <2>1. thread = h /\ h # 0 /\ OneHolder /\ OneCall /\ \A u \in Switchers : switch[u].pc # "forgets"
    BY <1>4, StepOfTheOne
  <2>2. OneHolder'
    BY <1>1, <1>2, <2>1 DEF OneHolder, HolderLives, Owning
  <2>3. OneCall'
    BY <2>1 DEF OneCall
  <2>4. [Lock!Next]_(Lock!lockVars)
    BY <1>2, <2>1 DEF Lock!Next, Lock!Take, Lock!lockVars, AstroOwns
  <2>. QED BY <2>2, <2>3, <2>4
<1>. QED BY <1>3, <1>4 DEF LockInv, LockKept

LEMMA OpenObjectsStep ==
    ASSUME LockInv, NEW h \in Holders, OpenObjects(h)
    PROVE  LockKept
<1>1. ready' \in BOOLEAN /\ handle' \in [{"mutex", "event"} -> 0..MaxHolders]
  BY HolderNumbers DEF LockInv, MultiTypeOK, OpenObjects, HandlesOpened
<1>2. PICK pc \in {"ended", "tries"} : HolderTo(h, pc)
  BY DEF OpenObjects
<1>. QED BY <1>1, <1>2, QuietStep DEF OpenObjects, HolderAt, HolderPlaces, Owning

LEMMA TryMutexStep ==
    ASSUME LockInv, NEW h \in Holders, TryMutex(h)
    PROVE  LockKept
<1>1. ready' \in BOOLEAN /\ handle' \in [{"mutex", "event"} -> 0..MaxHolders] /\ holder[h] = "tries"
  BY DEF LockInv, MultiTypeOK, TryMutex, HolderAt
<1>2. CASE Granted /\ MarkMutexOwned(h) /\ HolderTo(h, "holds")
  BY <1>1, <1>2, GrantedStep DEF TryMutex
<1>3. CASE UNCHANGED <<mutex, claimed, on>> /\ HolderTo(h, IF on THEN "holds" ELSE "looks")
  <2>1. calm => ~ on
    BY <1>1, StepOfTheOne DEF OneHolder, Owning
  <2>2. PICK pc \in {"holds", "looks"} : HolderTo(h, pc) /\ (calm => pc = "looks")
    BY <1>3, <2>1
  <2>. QED BY <1>1, <1>3, <2>2, QuietStep DEF TryMutex, HolderPlaces, Owning
<1>4. CASE UNCHANGED <<mutex, claimed, on>> /\ HolderTo(h, "ended")
  BY <1>1, <1>4, QuietStep DEF TryMutex, HolderPlaces, Owning
<1>. QED BY <1>2, <1>3, <1>4 DEF TryMutex

LEMMA LookAtReleaseStep ==
    ASSUME LockInv, NEW h \in Holders, LookAtRelease(h)
    PROVE  LockKept
<1>1. ready' \in BOOLEAN /\ handle' \in [{"mutex", "event"} -> 0..MaxHolders] /\ holder[h] = "looks"
  BY DEF LockInv, MultiTypeOK, LookAtRelease, HolderAt
<1>2. PICK pc \in {"gives", "polls"} : HolderTo(h, pc)
  BY DEF LookAtRelease
<1>. QED BY <1>1, <1>2, QuietStep DEF LookAtRelease, HolderPlaces, Owning

LEMMA PollMutexStep ==
    ASSUME LockInv, NEW h \in Holders, PollMutex(h)
    PROVE  LockKept
<1>1. ready' \in BOOLEAN /\ handle' \in [{"mutex", "event"} -> 0..MaxHolders] /\ holder[h] = "polls"
  BY DEF LockInv, MultiTypeOK, PollMutex, HolderAt
<1>2. CASE Granted /\ MarkMutexOwned(h) /\ HolderTo(h, "holds")
  BY <1>1, <1>2, GrantedStep DEF PollMutex
<1>3. CASE UNCHANGED <<mutex, claimed, on>> /\ \E pc \in {"looks", "gives"} : HolderTo(h, pc)
  BY <1>1, <1>3, QuietStep DEF PollMutex, HolderPlaces, Owning
<1>. QED BY <1>2, <1>3 DEF PollMutex

LEMMA HoldMutexStep ==
    ASSUME LockInv, NEW h \in Holders, HoldMutex(h)
    PROVE  LockKept
<1>1. /\ ready' \in BOOLEAN /\ handle' \in [{"mutex", "event"} -> 0..MaxHolders] /\ holder[h] = "holds"
      /\ UNCHANGED <<calm, mutex, thread, release, ready, claimed, on, switch>>
  BY HolderNumbers DEF LockInv, MultiTypeOK, HoldMutex, HolderAt
<1>2. CASE release /\ HolderTo(h, "gives")
  BY <1>1, <1>2, QuietStep DEF HolderPlaces
<1>3. CASE UNCHANGED holder
  <2>1. HolderTo(h, "holds")
    BY <1>1, <1>3 DEF LockInv, MultiTypeOK, HolderTo
  <2>. QED BY <1>1, <2>1, QuietStep DEF HolderPlaces
<1>. QED BY <1>2, <1>3 DEF HoldMutex, Told

\* Giving the mutex back, with the handles or at the end of the thread, follows the request.
LEMMA LetGoStep ==
    ASSUME LockInv, NEW h \in Holders,
           \/ holder[h] = "gives" /\ HolderTo(h, "frees") /\ on' = on
           \/ holder[h] = "frees" /\ HolderTo(h, "ended") /\ on' = FALSE /\ mutex' # h,
           \/ mutex' = mutex
           \/ mutex' = NoOwner /\ (calm => mutex = h),
           UNCHANGED <<calm, thread, release, ready, switch>>, claimed' \in BOOLEAN,
           handle' \in [{"mutex", "event"} -> 0..MaxHolders]
    PROVE  LockKept
<1>. USE HolderNumbers
<1>1. PICK pc \in {"frees", "ended"} : HolderTo(h, pc) /\ (pc = "ended" => on' = FALSE /\ mutex' # h)
  OBVIOUS
<1>2. /\ holder' \in [Holders -> HolderPlaces] /\ holder'[h] = pc
      /\ \A g \in Holders \ {h} : holder'[g] = holder[g]
  BY <1>1, HolderMoves DEF LockInv, HolderPlaces
<1>3. MultiTypeOK'
  BY <1>2 DEF LockInv, MultiTypeOK, HolderPlaces
<1>4. ASSUME calm PROVE OneHolder' /\ OneCall' /\ [Lock!Next]_(Lock!lockVars)
  <2>1. thread = h /\ h # 0 /\ OneHolder /\ OneCall /\ \A u \in Switchers : switch[u].pc # "forgets"
    BY <1>4, StepOfTheOne
  <2>2. OneHolder'
    BY <1>1, <1>2, <1>4, <2>1 DEF OneHolder, HolderLives, Owning
  <2>3. OneCall'
    BY <2>1 DEF OneCall
  <2>4. mutex = h => release
    BY <2>1 DEF OneHolder
  <2>5. [Lock!Next]_(Lock!lockVars)
    BY <1>4, <2>1, <2>4 DEF Lock!Next, Lock!GiveBack, Lock!lockVars, AstroOwns
  <2>. QED BY <2>2, <2>3, <2>5
<1>. QED BY <1>3, <1>4 DEF LockInv, LockKept

LEMMA ReleaseObjectsStep ==
    ASSUME LockInv, NEW h \in Holders, ReleaseObjects(h)
    PROVE  LockKept
<1>. USE HolderNumbers
<1>1. mutex' = mutex \/ mutex' = NoOwner
  BY DEF ReleaseObjects
<1>2. (calm /\ mutex' # mutex) => mutex = h
  <2>1. calm => (mutex \in Holders => mutex = h)
    BY StepOfTheOne DEF ReleaseObjects, HolderAt, OneHolder
  <2>2. mutex # h /\ mutex' # mutex => mutex = handle["mutex"] /\ mutex # NoOwner
    BY <1>1 DEF ReleaseObjects
  <2>3. handle["mutex"] \in 0..MaxHolders
    BY DEF LockInv, MultiTypeOK
  <2>4. NoOwner = 0
    BY DEF NoOwner
  <2>. QED BY <2>1, <2>2, <2>3, <2>4
<1>3. claimed' \in BOOLEAN /\ handle' \in [{"mutex", "event"} -> 0..MaxHolders]
  BY DEF ReleaseObjects, NoHandles
<1>. QED BY <1>1, <1>2, <1>3, LetGoStep DEF ReleaseObjects, HolderAt

LEMMA HolderEndsStep ==
    ASSUME LockInv, NEW h \in Holders, HolderEnds(h)
    PROVE  LockKept
<1>1. /\ \/ mutex' = mutex
         \/ mutex' = NoOwner /\ mutex = h
      /\ mutex' # h
  BY HolderNumbers DEF HolderEnds
<1>. QED BY <1>1, LetGoStep DEF HolderEnds, HolderAt, LockInv, MultiTypeOK

-----------------------------------------------------------------------------

LEMMA LockStep == LockInv /\ [MultiNext]_multiVars => LockKept
<1> SUFFICES ASSUME LockInv, [MultiNext]_multiVars PROVE LockKept
  OBVIOUS
<1>1. CASE UNCHANGED multiVars
  BY <1>1 DEF multiVars, lockState, LockInv, LockKept, MultiTypeOK, OneHolder, OneCall, HolderLives,
     Lock!lockVars, AstroOwns
<1>2. CASE ClientStartsFirst \/ LastClientExits
  BY <1>2, ClientStep
<1>3. CASE \E u \in Switchers : Enable(u) \/ Disable(u) \/ SwitchStep(u)
  BY <1>3, EnableStep, CallStep, SignalStep, ForgetStep DEF SwitchStep
<1>4. CASE \E h \in Holders : HolderStep(h)
  BY <1>4, OpenObjectsStep, TryMutexStep, LookAtReleaseStep, PollMutexStep, HoldMutexStep,
     ReleaseObjectsStep, HolderEndsStep DEF HolderStep
<1>. QED BY <1>1, <1>2, <1>3, <1>4 DEF MultiNext

LEMMA LockInvariant == MultiSpec => []LockInv
<1>1. LockInv /\ [MultiNext]_multiVars => LockInv'
  BY LockStep DEF LockKept
<1>. QED BY <1>1, LockStart, PTL DEF MultiSpec

\* The mutex, the holders, the calls and the handles are of their types, however calls overlap
\* (multi_instance.py).
THEOREM LockTypes == MultiSpec => []MultiTypeOK
<1>1. LockInv => MultiTypeOK
  BY DEF LockInv
<1>. QED BY <1>1, LockInvariant, PTL

\* For any number of bridge threads and holders: while calls do not overlap, the holder threads
\* with their shared events take the mutex from nobody, let go of it only when told to, and have
\* given it back when the call that turns the support off returns (multi_instance.py,
\* _hold_until_released, enable_multi_instance, disable_multi_instance).
THEOREM HoldersImplementTheLock == MultiSpec => ImplementsLock
<1>1. LockInv /\ [MultiNext]_multiVars => [calm => Lock!Next]_(Lock!lockVars)
  BY LockStep DEF LockKept
<1>. QED BY <1>1, LockStart, LockInvariant, PTL DEF MultiSpec, ImplementsLock

\* For any number of bridge threads and holders: a launch that goes ahead because _enabled is
\* set finds the mutex with the holder that is remembered, unless the support is being turned
\* off or calls overlap (multi_instance.py, is_enabled and _mark_mutex_owned).
THEOREM EnabledMeansOwned == MultiSpec => []EnabledIsOwned
<1>1. LockInv => EnabledIsOwned
  BY DEF LockInv, OneHolder, EnabledIsOwned, Owning
<1>. QED BY <1>1, LockInvariant, PTL

-----------------------------------------------------------------------------
(* The OAuth login.                                                         *)
(*                                                                          *)
(* A login that is over stays what it is: whoever was told what became of   *)
(* it was told the truth, unless its grant could still be saved.            *)

CallShape == [pc : {"idle", "asked", "saves", "answered"}, login : Logins \cup {NoLogin},
              reply : Status \cup {"raised"}]

LoginsOK == /\ login \in [Logins -> Status]
            /\ receiver \in [Logins -> {"closed", "listening", "code", "error"}]
            /\ late \subseteq Logins /\ shut \in BOOLEAN
GrantsOK == linked \subseteq Logins /\ remembered \subseteq Logins
DialogOK == /\ dialog \in [login : Logins \cup {NoLogin}, shown : Status, cancelling : BOOLEAN]
            /\ timer \in Logins \cup {NoLogin}
            /\ told \in [Logins -> {"nothing", "connected", "not added"}]
RepliesOK == pollCall \in CallShape /\ cancelCall \in CallShape

Over == {"completed", "expired", "failed", "cancelled", "dropped"}

\* Whatever is named somewhere has been started.
Started(l) == l \in Logins /\ login[l] # "none"
NamedIsStarted ==
    /\ dialog.login # NoLogin => Started(dialog.login)
    /\ timer # NoLogin => Started(timer)
    /\ pollCall.pc # "idle" => Started(pollCall.login)
    /\ cancelCall.pc # "idle" => Started(cancelCall.login) /\ cancelCall.pc # "saves"

OAuthTypes == LoginsOK /\ GrantsOK /\ DialogOK /\ RepliesOK /\ NamedIsStarted

\* A grant belongs to a login that was completed, and it is saved once.
GrantsFit ==
    /\ \A l \in linked : login[l] = "completed"
    /\ pollCall.pc = "saves" => login[pollCall.login] = "completed" /\ pollCall.login \notin linked

\* An answer that nothing was added is about a login that is over and has no grant.
AnswersFit ==
    /\ (pollCall.pc = "answered" /\ pollCall.reply \notin {"waiting", "completed"}) =>
          login[pollCall.login] \in Over /\ pollCall.login \notin linked
    /\ (cancelCall.pc = "answered" /\ cancelCall.reply \notin {"raised", "completed"}) =>
          login[cancelCall.login] \in Over \ {"completed"}

ToldOfTheOver == \A l \in Logins : told[l] = "not added" => login[l] \in Over

OAuthInv == GrantsFit /\ AnswersFit /\ ToldOfTheOver /\ NothingAddedIsTrue

LEMMA InitOAuth == OAuthInit => OAuthTypes /\ OAuthInv /\ OneReceiver
<1> SUFFICES ASSUME OAuthInit PROVE OAuthTypes /\ OAuthInv /\ OneReceiver
  OBVIOUS
<1>1. NoCall \in CallShape /\ NoCall.pc = "idle" /\ NoDialog.login = NoLogin
  BY DEF NoCall, NoDialog, CallShape, Status
<1>2. OAuthTypes
  BY <1>1 DEF OAuthInit, OAuthTypes, LoginsOK, GrantsOK, DialogOK, RepliesOK, NamedIsStarted, NoDialog,
              Status
<1>3. OAuthInv /\ OneReceiver
  BY <1>1 DEF OAuthInit, OAuthInv, GrantsFit, AnswersFit, ToldOfTheOver, NothingAddedIsTrue, OneReceiver,
              Active
<1> QED
  BY <1>2, <1>3

\* The calls as they move on.
LEMMA CallShapes ==
    /\ NoCall \in CallShape /\ NoCall.pc = "idle"
    /\ \A l \in Logins : [pc |-> "asked", login |-> l, reply |-> "none"] \in CallShape
BY DEF NoCall, CallShape, Status

\* The coordinator: what ends a login, or leaves it as it is, is kept.
LEMMA FinishTypes ==
    ASSUME LoginsOK, NEW l \in Logins, NEW status \in Status \ {"none"}, Finish(l, status), UNCHANGED <<late, shut>>
    PROVE  /\ LoginsOK'
           /\ \A k \in Logins : Started(k) => Started(k)'
BY DEF LoginsOK, Finish, Started

LEMMA StartedStays ==
    ASSUME NamedIsStarted, \A k \in Logins : Started(k) => Started(k)', UNCHANGED dialogVars,
           pollCall'.pc # "idle" => Started(pollCall'.login),
           cancelCall'.pc # "idle" => Started(cancelCall'.login) /\ cancelCall'.pc # "saves"
    PROVE  NamedIsStarted'
BY DEF NamedIsStarted, Started, dialogVars

LEMMA OAuthTypeStep == OAuthTypes /\ [OAuthNext]_oauthVars => OAuthTypes'
<1> SUFFICES ASSUME OAuthTypes, [OAuthNext]_oauthVars PROVE OAuthTypes'
  OBVIOUS
<1> USE DEF OAuthTypes
<1>1. CASE StartOAuthLogin
  <2>1. PICK l \in Logins :
          /\ login' = [login EXCEPT ![l] = "waiting"]
          /\ receiver' = [receiver EXCEPT ![l] = "listening"]
          /\ dialog' = [login |-> l, shown |-> "waiting", cancelling |-> FALSE]
          /\ BeginPolling(l)
    BY <1>1 DEF StartOAuthLogin
  <2>2. LoginsOK' /\ GrantsOK'
    BY <1>1, <2>1 DEF LoginsOK, GrantsOK, StartOAuthLogin, Status
  <2>3. DialogOK' /\ RepliesOK'
    BY <1>1, <2>1, CallShapes DEF DialogOK, RepliesOK, StartOAuthLogin, BeginPolling, Status
  <2>4. \A k \in Logins : Started(k) \/ k = l => Started(k)'
    BY <2>1 DEF LoginsOK, Started
  <2>5. NamedIsStarted'
    BY <1>1, <2>1, <2>4 DEF NamedIsStarted, StartOAuthLogin, BeginPolling, Started
  <2>. QED BY <2>2, <2>3, <2>5
<1>2. CASE DropDialog
  BY <1>2, CallShapes DEF DropDialog, coordinatorVars, LoginsOK, GrantsOK, DialogOK, RepliesOK,
                          NamedIsStarted, Started, NoDialog, Status
<1>3. CASE ShutCoordinator
  <2>1. LoginsOK' /\ \A k \in Logins : Started(k) => Started(k)'
    BY <1>3 DEF ShutCoordinator, LoginsOK, Started, Status
  <2>2. UNCHANGED dialogVars /\ UNCHANGED <<linked, remembered, pollCall, cancelCall>>
    BY <1>3 DEF ShutCoordinator
  <2>3. NamedIsStarted'
    BY <2>1, <2>2, StartedStays DEF NamedIsStarted, Started
  <2>. QED BY <2>1, <2>2, <2>3 DEF GrantsOK, DialogOK, RepliesOK, dialogVars
<1>4. CASE CancelClicked
  <2>1. /\ dialog' = [dialog EXCEPT !.cancelling = TRUE]
        /\ dialog.login \in Logins /\ Started(dialog.login)
    BY <1>4 DEF CancelClicked, Waits, DialogOK, NamedIsStarted
  <2>2. DialogOK' /\ RepliesOK'
    BY <1>4, <2>1, CallShapes DEF CancelClicked, DialogOK, RepliesOK
  <2>3. NamedIsStarted'
    BY <1>4, <2>1 DEF CancelClicked, NamedIsStarted, Started, coordinatorVars, DialogOK
  <2>. QED BY <1>4, <2>2, <2>3 DEF CancelClicked, LoginsOK, GrantsOK, coordinatorVars
<1>5. ASSUME NEW l \in Logins, Callback(l) \/ TimeIsOver(l) PROVE OAuthTypes'
  BY <1>5 DEF Callback, TimeIsOver, dialogVars, LoginsOK, GrantsOK, DialogOK, RepliesOK, NamedIsStarted,
              Started
<1>6. CASE TimerFires
  BY <1>6, CallShapes DEF TimerFires, dialogVars, coordinatorVars, LoginsOK, GrantsOK, DialogOK, RepliesOK,
                          NamedIsStarted, Started
<1>7. CASE PollLogin
  <2>. PICK l : l = pollCall.login
    OBVIOUS
  <2>1. l \in Logins /\ Started(l) /\ pollCall.pc = "asked" /\ login[l] \in Status
    BY <1>7 DEF PollLogin, NamedIsStarted, Started, LoginsOK
  <2>2. PICK pc \in {"saves", "answered"}, r \in Status \cup {"raised"} : PollReplies(pc, r)
    BY <1>7, <2>1 DEF PollLogin, ExchangeCode, Terminal, Status
  <2>3. /\ pollCall' \in CallShape /\ pollCall'.login = l
        /\ UNCHANGED <<late, shut, linked, remembered, cancelCall>> /\ UNCHANGED dialogVars
    BY <1>7, <2>2 DEF PollLogin, PollReplies, RepliesOK, CallShape
  <2>4. UNCHANGED <<login, receiver>> \/ \E status \in Over : Finish(l, status)
    BY <1>7 DEF PollLogin, ExchangeCode, Over
  <2>5. LoginsOK' /\ \A k \in Logins : Started(k) => Started(k)'
    BY <2>1, <2>3, <2>4, FinishTypes DEF LoginsOK, Over, Status, Started
  <2>6. NamedIsStarted'
    BY <2>1, <2>3, <2>5, StartedStays DEF NamedIsStarted, Started
  <2>. QED BY <2>3, <2>5, <2>6 DEF GrantsOK, DialogOK, RepliesOK, dialogVars
<1>8. CASE SaveGrant
  <2>1. Started(pollCall.login)
    BY <1>8 DEF SaveGrant, NamedIsStarted
  <2>2. pollCall' \in CallShape /\ pollCall'.login = pollCall.login
    <3>1. PICK r \in Status \cup {"raised"} : PollReplies("answered", r)
      BY <1>8 DEF SaveGrant, Status
    <3>. QED BY <3>1 DEF PollReplies, RepliesOK, CallShape
  <2>3. UNCHANGED coordinatorVars /\ UNCHANGED dialogVars /\ cancelCall' = cancelCall
    BY <1>8 DEF SaveGrant
  <2>4. LoginsOK' /\ \A k \in Logins : Started(k) => Started(k)'
    BY <2>3 DEF LoginsOK, coordinatorVars, Started
  <2>5. NamedIsStarted'
    BY <2>1, <2>2, <2>3, <2>4, StartedStays DEF NamedIsStarted, Started
  <2>6. GrantsOK'
    BY <1>8, <2>1 DEF SaveGrant, GrantsOK, Started
  <2>. QED BY <2>2, <2>3, <2>4, <2>5, <2>6 DEF DialogOK, RepliesOK, dialogVars
<1>9. CASE PollAnswered
  <2>. DEFINE r == pollCall.reply
  <2>1. Started(pollCall.login) /\ r \in Status \cup {"raised"} /\ pollCall' = NoCall
    BY <1>9 DEF PollAnswered, NamedIsStarted, RepliesOK, CallShape
  <2>2. \/ UNCHANGED dialogVars
        \/ dialog' = NoDialog /\ timer' = NoLogin /\ Tells(pollCall.login, "connected")
        \/ /\ dialog' = [dialog EXCEPT !.shown = IF r = "raised" THEN "failed" ELSE r]
           /\ timer' = NoLogin /\ Tells(pollCall.login, "not added")
    BY <1>9 DEF PollAnswered
  <2>3. UNCHANGED coordinatorVars /\ UNCHANGED <<linked, remembered, cancelCall>>
    BY <1>9 DEF PollAnswered
  <2>4. (IF r = "raised" THEN "failed" ELSE r) \in Status
    BY <2>1 DEF Status
  <2>5. DialogOK' /\ (dialog'.login \in {NoLogin, dialog.login}) /\ (timer' \in {NoLogin, timer})
    <3> HIDE DEF r
    <3>1. CASE UNCHANGED dialogVars
      BY <3>1 DEF DialogOK, dialogVars
    <3>2. CASE dialog' = NoDialog /\ timer' = NoLogin /\ Tells(pollCall.login, "connected")
      BY <2>1, <3>2 DEF DialogOK, NoDialog, Tells, Started, Status
    <3>3. CASE /\ dialog' = [dialog EXCEPT !.shown = IF r = "raised" THEN "failed" ELSE r]
               /\ timer' = NoLogin /\ Tells(pollCall.login, "not added")
      BY <2>1, <2>4, <3>3 DEF DialogOK, Tells, Started
    <3>. QED BY <2>2, <3>1, <3>2, <3>3
  <2>6. NamedIsStarted'
    BY <2>1, <2>3, <2>5, CallShapes DEF NamedIsStarted, coordinatorVars, Started
  <2>. QED BY <2>1, <2>3, <2>5, <2>6, CallShapes DEF LoginsOK, GrantsOK, RepliesOK, coordinatorVars
<1>10. CASE CancelLogin
  <2>. PICK l : l = cancelCall.login
    OBVIOUS
  <2>1. l \in Logins /\ Started(l) /\ cancelCall.pc = "asked" /\ login[l] \in Status
    BY <1>10 DEF CancelLogin, NamedIsStarted, Started, LoginsOK
  <2>2. PICK r \in Status \cup {"raised"} : cancelCall' = [cancelCall EXCEPT !.pc = "answered", !.reply = r]
    BY <1>10, <2>1 DEF CancelLogin, CancelAnswer, Terminal, Status
  <2>3. /\ cancelCall' \in CallShape /\ cancelCall'.login = l /\ cancelCall'.pc = "answered"
        /\ UNCHANGED <<late, shut, linked, pollCall>> /\ UNCHANGED dialogVars
        /\ remembered' \subseteq remembered
    BY <1>10, <2>2 DEF CancelLogin, RepliesOK, CallShape
  <2>4. UNCHANGED <<login, receiver>> \/ \E status \in Over : Finish(l, status)
    BY <1>10 DEF CancelLogin, Over
  <2>5. LoginsOK' /\ \A k \in Logins : Started(k) => Started(k)'
    BY <2>1, <2>3, <2>4, FinishTypes DEF LoginsOK, Over, Status, Started
  <2>6. NamedIsStarted'
    BY <2>1, <2>3, <2>5, StartedStays DEF NamedIsStarted, Started
  <2>. QED BY <2>3, <2>5, <2>6 DEF GrantsOK, DialogOK, RepliesOK, dialogVars
<1>11. CASE CancelAnswered
  <2>. PICK l : l = cancelCall.login
    OBVIOUS
  <2>1. Started(l) /\ cancelCall' = NoCall
    BY <1>11 DEF CancelAnswered, NamedIsStarted
  <2>2. UNCHANGED coordinatorVars /\ UNCHANGED <<linked, remembered>>
    BY <1>11 DEF CancelAnswered
  <2>3. CASE UNCHANGED <<dialog, timer, pollCall, told>>
    BY <2>1, <2>2, <2>3, CallShapes DEF LoginsOK, GrantsOK, DialogOK, RepliesOK, NamedIsStarted, Started,
                                        coordinatorVars
  <2>4. CASE /\ dialog' = [dialog EXCEPT !.cancelling = FALSE] /\ BeginPolling(l)
             /\ dialog.login = l /\ told' = told
    <3>1. DialogOK' /\ RepliesOK'
      BY <2>1, <2>4, CallShapes DEF DialogOK, RepliesOK, BeginPolling, Started
    <3>2. NamedIsStarted'
      BY <2>1, <2>2, <2>4, CallShapes DEF NamedIsStarted, BeginPolling, Started, coordinatorVars, DialogOK
    <3>. QED BY <2>2, <3>1, <3>2 DEF LoginsOK, GrantsOK, coordinatorVars
  <2>5. CASE /\ dialog' = NoDialog /\ timer' = NoLogin /\ pollCall' = pollCall
             /\ \E what \in {"connected", "not added"} : Tells(l, what)
    <3>0. told' \in [Logins -> {"nothing", "connected", "not added"}]
      BY <2>1, <2>5 DEF DialogOK, Tells, Started
    <3>1. DialogOK' /\ RepliesOK'
      BY <2>1, <2>5, <3>0, CallShapes DEF DialogOK, RepliesOK, NoDialog, Status
    <3>2. NamedIsStarted'
      BY <2>1, <2>2, <2>5, CallShapes DEF NamedIsStarted, Started, coordinatorVars, NoDialog
    <3>. QED BY <2>2, <3>1, <3>2 DEF LoginsOK, GrantsOK, coordinatorVars
  <2>. QED BY <1>11, <2>3, <2>4, <2>5 DEF CancelAnswered
<1>12. CASE UNCHANGED oauthVars
  BY <1>12 DEF oauthVars, coordinatorVars, dialogVars, LoginsOK, GrantsOK, DialogOK, RepliesOK,
               NamedIsStarted, Started
<1> QED
  BY <1>1, <1>2, <1>3, <1>4, <1>5, <1>6, <1>7, <1>8, <1>9, <1>10, <1>11, <1>12 DEF OAuthNext

\* A login goes on in one direction.
LEMMA LoginStep ==
    ASSUME OAuthTypes, [OAuthNext]_oauthVars, NEW l \in Logins
    PROVE  /\ login'[l] \in {"none", "waiting"} \cup Over
           /\ login[l] \in Over => login'[l] = login[l]
<1> USE DEF OAuthTypes, LoginsOK, Over, Status
<1>1. CASE StartOAuthLogin
  BY <1>1 DEF StartOAuthLogin
<1>2. CASE ShutCoordinator
  BY <1>2 DEF ShutCoordinator
<1>3. CASE PollLogin
  BY <1>3 DEF PollLogin, ExchangeCode, Finish
<1>4. CASE CancelLogin
  BY <1>4 DEF CancelLogin, Finish
<1>5. CASE login' = login
  BY <1>5
<1>6. CASE UNCHANGED oauthVars \/ \E k \in Logins : Callback(k) \/ TimeIsOver(k)
  BY <1>5, <1>6 DEF oauthVars, coordinatorVars, Callback, TimeIsOver
<1>7. CASE DropDialog \/ CancelClicked \/ TimerFires \/ SaveGrant \/ PollAnswered \/ CancelAnswered
  BY <1>5, <1>7 DEF coordinatorVars, DropDialog, CancelClicked, TimerFires, SaveGrant, PollAnswered,
                    CancelAnswered
<1> QED
  BY <1>1, <1>2, <1>3, <1>4, <1>6, <1>7 DEF OAuthNext

\* A step that leaves the grants and the calls alone, or asks for another call.
LEMMA OAuthFrame ==
    ASSUME OAuthTypes, OAuthInv, [OAuthNext]_oauthVars, UNCHANGED <<linked, told>>,
           pollCall' = pollCall \/ pollCall'.pc \in {"idle", "asked"},
           cancelCall' = cancelCall \/ cancelCall'.pc \in {"idle", "asked"}
    PROVE  OAuthInv'
<1>1. \A l \in Logins : login[l] \in Over => login'[l] = login[l]
  BY LoginStep
<1>2. /\ linked \subseteq Logins
      /\ pollCall.pc # "idle" => pollCall.login \in Logins
      /\ cancelCall.pc # "idle" => cancelCall.login \in Logins
  BY DEF OAuthTypes, GrantsOK, NamedIsStarted, Started
<1>3. GrantsFit' /\ AnswersFit'
  BY <1>1, <1>2 DEF OAuthInv, GrantsFit, AnswersFit, Over
<1>4. ToldOfTheOver' /\ NothingAddedIsTrue'
  BY <1>1 DEF OAuthInv, ToldOfTheOver, NothingAddedIsTrue
<1> QED
  BY <1>3, <1>4 DEF OAuthInv

LEMMA OAuthStep == OAuthTypes /\ OAuthInv /\ [OAuthNext]_oauthVars => OAuthInv'
<1> SUFFICES ASSUME OAuthTypes, OAuthInv, [OAuthNext]_oauthVars PROVE OAuthInv'
  OBVIOUS
<1>0. \A l \in Logins : login[l] \in Over => login'[l] = login[l]
  BY LoginStep
<1>00. /\ linked \subseteq Logins /\ told \in [Logins -> {"nothing", "connected", "not added"}]
       /\ pollCall.pc # "idle" => pollCall.login \in Logins
       /\ cancelCall.pc # "idle" => cancelCall.login \in Logins
  BY DEF OAuthTypes, GrantsOK, DialogOK, NamedIsStarted, Started
<1>1. CASE StartOAuthLogin
  BY <1>1, OAuthFrame DEF StartOAuthLogin, BeginPolling
<1>2. CASE DropDialog \/ ShutCoordinator
  BY <1>2, OAuthFrame DEF DropDialog, ShutCoordinator, dialogVars
<1>3. CASE CancelClicked
  BY <1>3, OAuthFrame DEF CancelClicked
<1>4. ASSUME NEW l \in Logins, Callback(l) \/ TimeIsOver(l) PROVE OAuthInv'
  BY <1>4, OAuthFrame DEF Callback, TimeIsOver, dialogVars
<1>5. CASE TimerFires
  BY <1>5, OAuthFrame DEF TimerFires, dialogVars
<1>6. CASE PollLogin
  <2>. PICK l : l = pollCall.login
    OBVIOUS
  <2>1. /\ l \in Logins /\ pollCall.pc = "asked" /\ login[l] \in Status \ {"none"}
        /\ UNCHANGED <<linked, told, cancelCall>>
    BY <1>6, <1>00 DEF PollLogin, OAuthTypes, NamedIsStarted, Started, LoginsOK, dialogVars
  <2>2. /\ pollCall'.login = l
        /\ \/ pollCall'.pc = "answered" /\ pollCall'.reply \in {"waiting", "completed"}
           \/ pollCall'.pc = "answered" /\ login'[l] \in Over \ {"completed"}
           \/ pollCall'.pc = "saves" /\ login'[l] = "completed" /\ login[l] = "waiting"
    <3>1. /\ \A pc, r : PollReplies(pc, r) => /\ pollCall'.login = l /\ pollCall'.pc = pc
                                            /\ pollCall'.reply = r
          /\ \A status : Finish(l, status) => login'[l] = status
      BY <2>1 DEF PollReplies, Finish, OAuthTypes, RepliesOK, CallShape, LoginsOK
    <3>2. CASE PollReplies("answered", Terminal(l)) /\ UNCHANGED <<login, receiver>>
      <4>1. Terminal(l) \in {"waiting", "completed"} \/ login[l] \in Over \ {"completed"}
        BY <2>1 DEF Terminal, Over, Status
      <4>. QED BY <3>1, <3>2, <4>1
    <3>3. CASE PollReplies("answered", "waiting")
      BY <3>1, <3>3
    <3>4. CASE \E r \in {"expired", "cancelled"} : Finish(l, r) /\ PollReplies("answered", r)
      BY <3>1, <3>4 DEF Over
    <3>5. CASE login[l] = "waiting" /\ ExchangeCode(l)
      BY <3>1, <3>5 DEF ExchangeCode, Over
    <3>. QED BY <1>6, <3>2, <3>3, <3>4, <3>5 DEF PollLogin
  <2>3. login'[l] \in Over \ {"completed"} => l \notin linked
    BY <1>0, <2>1 DEF OAuthInv, GrantsFit, Over
  <2>4. GrantsFit' /\ AnswersFit'
    BY <1>0, <1>00, <2>1, <2>2, <2>3 DEF OAuthInv, GrantsFit, AnswersFit, Over
  <2>5. ToldOfTheOver' /\ NothingAddedIsTrue'
    BY <1>0, <2>1, <2>2 DEF OAuthInv, ToldOfTheOver, NothingAddedIsTrue, Over
  <2>. QED BY <2>4, <2>5 DEF OAuthInv
<1>7. CASE SaveGrant
  <2>. PICK l : l = pollCall.login
    OBVIOUS
  <2>1. /\ l \in Logins /\ pollCall.pc = "saves" /\ login[l] = "completed" /\ l \notin linked
        /\ told[l] # "not added" /\ UNCHANGED <<login, told, cancelCall>>
    BY <1>7, <1>00 DEF SaveGrant, OAuthInv, GrantsFit, NothingAddedIsTrue, coordinatorVars, dialogVars
  <2>2. /\ pollCall'.login = l /\ pollCall'.pc = "answered"
        /\ \/ pollCall'.reply = "completed" /\ linked' = linked \cup {l}
           \/ linked' = linked
    BY <1>7 DEF SaveGrant, PollReplies, OAuthTypes, RepliesOK, CallShape
  <2>3. GrantsFit' /\ AnswersFit'
    BY <1>00, <2>1, <2>2 DEF OAuthInv, GrantsFit, AnswersFit, Over
  <2>4. ToldOfTheOver' /\ NothingAddedIsTrue'
    BY <2>1, <2>2 DEF OAuthInv, ToldOfTheOver, NothingAddedIsTrue
  <2>. QED BY <2>3, <2>4 DEF OAuthInv
<1>8. CASE PollAnswered
  <2>. PICK l : l = pollCall.login
    OBVIOUS
  <2>1. /\ l \in Logins /\ pollCall.pc = "answered" /\ pollCall' = NoCall
        /\ UNCHANGED <<login, linked, cancelCall>>
    BY <1>8, <1>00 DEF PollAnswered, coordinatorVars
  <2>2. \/ told' = told
        \/ told' = [told EXCEPT ![l] = "connected"]
        \/ /\ told' = [told EXCEPT ![l] = "not added"]
           /\ pollCall.reply \notin {"waiting", "completed"}
    BY <1>8 DEF PollAnswered, Tells, dialogVars
  <2>3. GrantsFit' /\ AnswersFit'
    BY <2>1, CallShapes DEF OAuthInv, GrantsFit, AnswersFit
  <2>4. ToldOfTheOver' /\ NothingAddedIsTrue'
    BY <1>00, <2>1, <2>2, CallShapes DEF OAuthInv, AnswersFit, ToldOfTheOver, NothingAddedIsTrue
  <2>. QED BY <2>3, <2>4 DEF OAuthInv
<1>9. CASE CancelLogin
  <2>. PICK l : l = cancelCall.login
    OBVIOUS
  <2>1. /\ l \in Logins /\ cancelCall.pc = "asked" /\ login[l] \in Status \ {"none"}
        /\ UNCHANGED <<linked, told, pollCall>>
    BY <1>9, <1>00 DEF CancelLogin, OAuthTypes, NamedIsStarted, Started, LoginsOK, dialogVars
  <2>2. /\ cancelCall'.login = l
        /\ cancelCall'.reply \in {"raised", "completed"} \/ login'[l] \in Over \ {"completed"}
    <3>1. PICK r : cancelCall' = [cancelCall EXCEPT !.pc = "answered", !.reply = r]
                   /\ (r = "raised" \/ (r = CancelAnswer(l) /\
                        IF login[l] = "waiting" THEN Finish(l, "cancelled") ELSE UNCHANGED <<login, receiver>>))
      BY <1>9 DEF CancelLogin
    <3>2. cancelCall'.login = l /\ cancelCall'.reply = r
      BY <3>1 DEF OAuthTypes, RepliesOK, CallShape
    <3>3. CASE r = CancelAnswer(l) /\ login[l] = "waiting"
      BY <2>1, <3>1, <3>2, <3>3 DEF CancelAnswer, Finish, Over, OAuthTypes, LoginsOK
    <3>4. CASE r = CancelAnswer(l) /\ login[l] # "waiting"
      BY <2>1, <3>1, <3>2, <3>4 DEF CancelAnswer, Terminal, Over, Status
    <3>. QED BY <3>1, <3>2, <3>3, <3>4
  <2>3. GrantsFit' /\ AnswersFit'
    BY <1>0, <1>00, <2>1, <2>2 DEF OAuthInv, GrantsFit, AnswersFit, Over
  <2>4. ToldOfTheOver' /\ NothingAddedIsTrue'
    BY <1>0, <2>1 DEF OAuthInv, ToldOfTheOver, NothingAddedIsTrue
  <2>. QED BY <2>3, <2>4 DEF OAuthInv
<1>10. CASE CancelAnswered
  <2>. PICK l : l = cancelCall.login
    OBVIOUS
  <2>1. /\ l \in Logins /\ cancelCall.pc = "answered" /\ cancelCall' = NoCall
        /\ UNCHANGED <<login, linked>>
    BY <1>10, <1>00 DEF CancelAnswered, coordinatorVars
  <2>2. pollCall' = pollCall \/ pollCall'.pc = "asked"
    <3>1. \A k : BeginPolling(k) => pollCall' = pollCall \/ pollCall'.pc = "asked"
      BY DEF BeginPolling
    <3>. QED BY <1>10, <3>1 DEF CancelAnswered
  <2>3. \/ told' = told
        \/ told' = [told EXCEPT ![l] = "connected"]
        \/ /\ told' = [told EXCEPT ![l] = "not added"]
           /\ cancelCall.reply \notin {"raised", "completed"}
    BY <1>10 DEF CancelAnswered, Tells
  <2>4. GrantsFit' /\ AnswersFit'
    BY <2>1, <2>2, CallShapes DEF OAuthInv, GrantsFit, AnswersFit
  <2>5. ToldOfTheOver' /\ NothingAddedIsTrue'
    BY <1>00, <2>1, <2>2, <2>3 DEF OAuthInv, GrantsFit, AnswersFit, ToldOfTheOver, NothingAddedIsTrue
  <2>. QED BY <2>4, <2>5 DEF OAuthInv
<1>11. CASE UNCHANGED oauthVars
  BY <1>11, OAuthFrame DEF oauthVars, dialogVars
<1> QED
  BY <1>1, <1>2, <1>3, <1>4, <1>5, <1>6, <1>7, <1>8, <1>9, <1>10, <1>11 DEF OAuthNext

LEMMA ReceiverStep == OAuthTypes /\ OneReceiver /\ [OAuthNext]_oauthVars => OneReceiver'
<1> SUFFICES ASSUME OAuthTypes, OneReceiver, [OAuthNext]_oauthVars PROVE OneReceiver'
  OBVIOUS
<1> USE DEF OAuthTypes, LoginsOK, OneReceiver, Active
<1>1. CASE StartOAuthLogin
  BY <1>1 DEF StartOAuthLogin, MayStartLogin
<1>2. CASE ShutCoordinator
  BY <1>2 DEF ShutCoordinator
<1>3. ASSUME NEW l \in Logins, Callback(l) PROVE OneReceiver'
  BY <1>3 DEF Callback
<1>4. CASE UNCHANGED <<login, receiver>>
  BY <1>4
<1>5. ASSUME NEW l \in Logins, NEW status \in Over, Finish(l, status) PROVE OneReceiver'
  BY <1>5 DEF Finish, Over
<1>6. CASE PollLogin
  <2>1. pollCall.login \in Logins
    BY <1>6 DEF PollLogin, NamedIsStarted, Started
  <2>. QED BY <1>4, <1>5, <1>6, <2>1 DEF PollLogin, ExchangeCode, Over
<1>7. CASE CancelLogin
  <2>1. cancelCall.login \in Logins
    BY <1>7 DEF CancelLogin, NamedIsStarted, Started
  <2>. QED BY <1>4, <1>5, <1>7, <2>1 DEF CancelLogin, Over
<1>8. CASE UNCHANGED oauthVars \/ \E k \in Logins : TimeIsOver(k)
  BY <1>4, <1>8 DEF oauthVars, coordinatorVars, TimeIsOver
<1>9. CASE DropDialog \/ CancelClicked \/ TimerFires \/ SaveGrant \/ PollAnswered \/ CancelAnswered
  BY <1>4, <1>9 DEF coordinatorVars, DropDialog, CancelClicked, TimerFires, SaveGrant, PollAnswered,
                    CancelAnswered
<1> QED
  BY <1>1, <1>2, <1>3, <1>6, <1>7, <1>8, <1>9 DEF OAuthNext

OAuthWorks == OAuthTypes /\ OAuthInv /\ OneReceiver

LEMMA OAuthWorksStep == OAuthWorks /\ [OAuthNext]_oauthVars => OAuthWorks'
BY OAuthTypeStep, OAuthStep, ReceiverStep DEF OAuthWorks

\* Every variable of the OAuth login has its shape.
THEOREM LoginTypes == OAuthSpec => []OAuthTypeOK
<1>1. OAuthWorks => OAuthTypeOK
  BY DEF OAuthWorks, OAuthTypes, LoginsOK, GrantsOK, DialogOK, RepliesOK, CallShape, OAuthTypeOK
<1>2. OAuthInit => OAuthWorks
  BY InitOAuth DEF OAuthWorks
<1> QED
  BY <1>1, <1>2, OAuthWorksStep, PTL DEF OAuthSpec

\* The user is told that no account was added only if the grant is not saved and never will be by
\* this login, for any number of logins, while a poll that completes a login and its cancellation are
\* under way together, and whichever of them fails (app.js; application_service.py, poll_oauth_login
\* and cancel_oauth_login; roblox/oauth.py).
THEOREM AnswersAreTrue == OAuthSpec => []NothingAddedIsTrue
<1>1. OAuthWorks => NothingAddedIsTrue
  BY DEF OAuthWorks, OAuthInv
<1>2. OAuthInit => OAuthWorks
  BY InitOAuth DEF OAuthWorks
<1> QED
  BY <1>1, <1>2, OAuthWorksStep, PTL DEF OAuthSpec

-----------------------------------------------------------------------------
(* The sign-in through a browser.                                           *)
(*                                                                          *)
(* The thread of a sign-in changes its result no earlier than its browser   *)
(* has gone, so the check of the results keeps a second browser away.       *)

Open == {"starting", "connects", "edge", "view"}

BrowserWaits ==
    /\ \A s, u \in SignIns : (result[s] = "waiting" /\ result[u] = "waiting") => s = u
    /\ \A s \in SignIns : browser[s] \in Open => result[s] = "waiting"
    /\ viewPolls <=> \E s \in SignIns : browser[s] = "view"

SignInInv == SignInTypeOK /\ BrowserWaits

LEMMA InitSignIn == SignInInit => SignInInv
BY DEF SignInInit, SignInInv, SignInTypeOK, BrowserWaits, Open

LEMMA SignInStep == SignInInv /\ [SignInNext]_signInVars => SignInInv'
<1> SUFFICES ASSUME SignInInv, [SignInNext]_signInVars PROVE SignInInv'
  OBVIOUS
<1> USE DEF SignInInv, SignInTypeOK, BrowserWaits, Open, BrowserTo, Says
<1>1. ASSUME NEW s \in SignIns, BeginSignIn(s) PROVE SignInInv'
  BY <1>1 DEF BeginSignIn, NoneWaits
<1>2. ASSUME NEW s \in SignIns, StartEdge(s) PROVE SignInInv'
  BY <1>2 DEF StartEdge
<1>3. ASSUME NEW s \in SignIns, StartView(s) PROVE SignInInv'
  <2>1. CASE BrowserTo(s, "view") /\ viewPolls' = TRUE /\ UNCHANGED result
    BY <1>3, <2>1 DEF StartView
  <2>2. CASE Says(s, "failed") /\ BrowserTo(s, "ended") /\ UNCHANGED viewPolls
    <3>1. SignInTypeOK'
      BY <1>3, <2>2 DEF StartView
    <3>2. BrowserWaits'
      BY <1>3, <2>2 DEF StartView
    <3>. QED BY <3>1, <3>2
  <2>. QED BY <1>3, <2>1, <2>2 DEF StartView
<1>4. ASSUME NEW s \in SignIns, ReachesDevTools(s) \/ NoDevTools(s) PROVE SignInInv'
  BY <1>4 DEF ReachesDevTools, NoDevTools
<1>5. ASSUME NEW s \in SignIns, EdgeCloses(s) PROVE SignInInv'
  BY <1>5 DEF EdgeCloses, Reports
<1>6. ASSUME NEW s \in SignIns, ViewCloses(s) PROVE SignInInv'
  <2>1. SignInTypeOK'
    <3>1. caught' \in {caught, caught \cup {s}} /\ viewPolls' = FALSE
      BY <1>6 DEF ViewCloses, Reports
    <3>2. caught' \subseteq SignIns
      BY <3>1
    <3>3. browser' = [browser EXCEPT ![s] = "reports"] /\ UNCHANGED <<result, prefilled, added, silent>>
      BY <1>6 DEF ViewCloses, Reports
    <3>. QED BY <3>1, <3>2, <3>3
  <2>2. \A u \in SignIns : browser[u] = "view" => u = s
    BY <1>6 DEF ViewCloses
  <2>3. BrowserWaits'
    BY <1>6, <2>2 DEF ViewCloses, Reports
  <2>. QED BY <2>1, <2>3
<1>7. ASSUME NEW s \in SignIns, OnCaptured(s) PROVE SignInInv'
  BY <1>7 DEF OnCaptured
<1>8. ASSUME NEW s \in SignIns, OnFinished(s) PROVE SignInInv'
  BY <1>8 DEF OnFinished
<1>9. CASE UNCHANGED signInVars
  BY <1>9 DEF signInVars
<1> QED
  BY <1>1, <1>2, <1>3, <1>4, <1>5, <1>6, <1>7, <1>8, <1>9 DEF SignInNext, BrowserStep

LEMMA AtMostOne ==
    ASSUME NEW S, \A x, y \in S : x = y
    PROVE  Cardinality(S) <= 1
<1>1. CASE S = {}
  BY <1>1, FS_EmptySet
<1>2. ASSUME NEW x \in S PROVE Cardinality(S) <= 1
  <2>1. S = {x}
    BY <1>2
  <2>. QED BY <2>1, FS_Singleton
<1> QED
  BY <1>1, <1>2

LEMMA BrowserIsOne == SignInInv => OneBrowser
<1> SUFFICES ASSUME SignInInv PROVE OneBrowser
  OBVIOUS
<1>1. \A s, u \in {v \in SignIns : browser[v] \in Open} : s = u
  BY DEF SignInInv, BrowserWaits
<1>2. Cardinality({v \in SignIns : browser[v] \in Open}) <= 1
  BY <1>1, AtMostOne
<1> QED
  BY <1>2 DEF OneBrowser, Open, SignInInv, BrowserWaits

\* One browser at a time, for any number of sign-ins, although nothing but the status of the results
\* keeps a second one away (application_service.py, _start_browser_login; roblox/browser_login.py).
THEOREM BrowsersAreOne == SignInSpec => []OneBrowser
BY InitSignIn, SignInStep, BrowserIsOne, PTL DEF SignInSpec

-----------------------------------------------------------------------------
(* The emergency stop.                                                      *)
(*                                                                          *)
(* It stops the runs that are listed, and the list is cut at the newest so  *)
(* many.  A run that is at work is among them: macros start only while none *)
(* is at work, so behind it there are at most the starts that had passed    *)
(* that check already, one for each other thread.                           *)

RunType == [state : {"none", "acting", "parked", "ended"}, account : Accounts \cup {Nobody},
            macro : Macros \cup {Nobody}, cancel : BOOLEAN, paused : BOOLEAN]
StartType == [account : Accounts \cup {Nobody}, macro : Macros \cup {Nobody}]
HaltType == [pc : {"idle", "macros", "rules", "returns"}, todo : SUBSET Run, before : SUBSET Run]

WorldOK  == client \subseteq Accounts /\ due \subseteq Accounts /\ covered \subseteq Accounts
MacrosOK == run \in [Run -> RunType] /\ runs \in 0 .. MaxRuns /\ start \in [Threads -> StartType]
MemoryOK == /\ armed \in BOOLEAN /\ byRule \subseteq Run
            /\ last \in [Accounts -> Macros \cup {Nobody}] /\ resume \in [Accounts -> Macros \cup {Nobody}]
TickOK   == /\ tick = [pc |-> tick.pc, todo |-> tick.todo]
            /\ tick.pc \in {"scan", "relaunch", "rules", "resumes"}
AskedOK  == /\ halt \in [Users -> HaltType] /\ stops \in 0 .. MaxStops /\ human \subseteq Run
            /\ quiet \in {"no", "stopping", "soon", "yes"} /\ watching \in BOOLEAN

FleetTypes == WorldOK /\ MacrosOK /\ MemoryOK /\ TickOK /\ AskedOK

\* The least of some numbers is one of them.
LEMMA MinIsIn ==
    ASSUME NEW S, S \subseteq Nat, S # {}
    PROVE  Min(S) \in S
<1>. DEFINE R == OpToRel(<, Nat)
<1>1. \E x \in S : \A y \in S : ~ (<<y, x>> \in R)
  BY NatLessThanWellFounded, WFMin
<1>2. \A x, y \in Nat : <<y, x>> \in R <=> y < x
  BY DEF OpToRel
<1> HIDE DEF R
<1>3. \E x \in S : \A y \in S : x =< y
  <2>1. PICK x \in S : \A y \in S : ~ (<<y, x>> \in R)
    BY <1>1
  <2>2. x \in Nat /\ \A y \in S : y \in Nat /\ ~ (y < x)
    BY <1>2, <2>1
  <2>3. \A y \in S : x =< y
    BY <2>2
  <2>. QED BY <2>3
<1> QED
  BY <1>3 DEF Min

\* How a run goes on once it is registered.
Later(old, new) ==
    \/ new = old
    \/ /\ old.state \in {"acting", "parked"} /\ new.state \in {"acting", "parked", "ended"}
       /\ old.cancel => new.cancel \/ new.state = "ended"

RunsMove == run' \in [Run -> RunType] /\ \A r \in Run : Later(run[r], run'[r])

\* What a step may do to the runs and to the starts.
MacrosMove ==
    \/ UNCHANGED <<runs, start>> /\ RunsMove
    \/ \E t \in Threads : Registered(t) \/ StartFails(t)
    \/ UNCHANGED <<run, runs>> /\ \E t \in Threads, a \in Accounts, m \in Macros \cup {Nobody} : Checked(t, a, m)

\* One run is told something.
LEMMA RunTold ==
    ASSUME MacrosOK, NEW r \in Run
    PROVE  /\ run' = Stopped(r) => RunsMove
           /\ r \in Live => /\ run' = [run EXCEPT ![r].paused = TRUE] => RunsMove
                            /\ run' = [run EXCEPT ![r].paused = FALSE] => RunsMove
           /\ run[r].state = "acting" /\ run' = [run EXCEPT ![r].state = "parked"] => RunsMove
           /\ run[r].state = "parked" /\ run' = [run EXCEPT ![r].state = "acting"] => RunsMove
           /\ run[r].state = "acting"
                /\ run' = [run EXCEPT ![r].state = "ended", ![r].cancel = FALSE, ![r].paused = FALSE] => RunsMove
           /\ run' = run => RunsMove
<1> USE DEF MacrosOK, RunType, RunsMove, Later, Live
<1>0. ASSUME NEW c \in RunType, run' = [run EXCEPT ![r] = c], Later(run[r], c) PROVE RunsMove
  BY <1>0
<1>1. run' = Stopped(r) => RunsMove
  <2>. SUFFICES ASSUME r \in Live, run' = Stopped(r) PROVE RunsMove
    BY DEF Stopped
  <2>. DEFINE c == [run[r] EXCEPT !.cancel = TRUE, !.paused = FALSE]
  <2>1. run' = [run EXCEPT ![r] = c]
    BY DEF Stopped
  <2>2. run[r] \in RunType /\ run[r].state \in {"acting", "parked"}
    OBVIOUS
  <2>3. c \in RunType /\ c.cancel = TRUE /\ c.state = run[r].state
    BY <2>2
  <2> HIDE DEF c
  <2>. QED BY <1>0, <2>1, <2>2, <2>3
<1>2. r \in Live => /\ run' = [run EXCEPT ![r].paused = TRUE] => RunsMove
                    /\ run' = [run EXCEPT ![r].paused = FALSE] => RunsMove
  <2>1. ASSUME NEW b \in BOOLEAN, r \in Live, run' = [run EXCEPT ![r].paused = b] PROVE RunsMove
    <3>. DEFINE c == [run[r] EXCEPT !.paused = b]
    <3>1. run' = [run EXCEPT ![r] = c]
      BY <2>1
    <3>2. run[r] \in RunType /\ run[r].state \in {"acting", "parked"}
      BY <2>1
    <3>3. c \in RunType /\ c.cancel = run[r].cancel /\ c.state = run[r].state
      BY <3>2
    <3> HIDE DEF c
    <3>. QED BY <1>0, <3>1, <3>2, <3>3
  <2>. QED BY <2>1
<1>3. /\ run[r].state = "acting" /\ run' = [run EXCEPT ![r].state = "parked"] => RunsMove
      /\ run[r].state = "parked" /\ run' = [run EXCEPT ![r].state = "acting"] => RunsMove
  OBVIOUS
<1>4. run[r].state = "acting"
        /\ run' = [run EXCEPT ![r].state = "ended", ![r].cancel = FALSE, ![r].paused = FALSE] => RunsMove
  <2>. DEFINE c == [run[r] EXCEPT !.state = "ended", !.cancel = FALSE, !.paused = FALSE]
  <2>. SUFFICES ASSUME run[r].state = "acting", run' = [run EXCEPT ![r] = c] PROVE RunsMove
    OBVIOUS
  <2>1. run[r] \in RunType
    OBVIOUS
  <2>2. c \in RunType /\ c.state = "ended"
    BY <2>1
  <2> HIDE DEF c
  <2>. QED BY <1>0, <2>1, <2>2
<1> QED
  BY <1>1, <1>2, <1>3, <1>4

LEMMA MacrosStep == FleetTypes /\ [Next]_<<watching, vars>> => MacrosMove
<1> SUFFICES ASSUME FleetTypes, [Next]_<<watching, vars>> PROVE MacrosMove
  OBVIOUS
<1> USE DEF FleetTypes
<1>1. CASE UNCHANGED macros
  BY <1>1 DEF macros, MacrosMove, RunsMove, MacrosOK, Later
<1>2. ASSUME UNCHANGED <<runs, start>>, RunsMove PROVE MacrosMove
  BY <1>2 DEF MacrosMove
<1>3. CASE Clients \/ SetRules \/ Groups \/ UNCHANGED vars
  BY <1>1, <1>3 DEF Clients, ClientSeen, ClientGone, SetRules, Groups, Regroup, vars
<1>4. ASSUME NEW r \in Run, Parks(r) \/ Wakes(r) \/ RunEnds(r) PROVE MacrosMove
  BY <1>2, <1>4, RunTold DEF Parks, Wakes, RunEnds
<1>5. CASE UserMacro
  <2>1. ASSUME NEW u \in Users, UserStarts(u) PROVE MacrosMove
    BY <2>1 DEF UserStarts, MacrosMove, Threads
  <2>2. ASSUME NEW u \in Users, NEW a \in Accounts, NEW m \in Macros, StartMacro(u, a, m) PROVE MacrosMove
    BY <2>2 DEF StartMacro, MacrosMove, Threads
  <2>3. ASSUME NEW r \in Run, StopMacro(r) \/ PauseMacro(r) \/ ResumeMacro(r) PROVE MacrosMove
    BY <1>2, <2>3, RunTold DEF StopMacro, PauseMacro, ResumeMacro
  <2>. QED BY <1>5, <2>1, <2>2, <2>3 DEF UserMacro
<1>6. ASSUME NEW u \in Users, Halt(u) PROVE MacrosMove
  <2>1. ASSUME NEW r \in Run, HaltMacro(u, r) PROVE MacrosMove
    BY <1>2, <2>1, RunTold DEF HaltMacro
  <2>2. CASE BeginHalt(u) \/ HaltResumes(u) \/ HaltRules(u) \/ HaltReturns(u)
    BY <1>1, <2>2 DEF BeginHalt, HaltResumes, HaltRules, HaltReturns
  <2>. QED BY <1>6, <2>1, <2>2 DEF Halt
<1>7. CASE Tick
  <2>1. CASE BeginTick \/ UpdateLedger \/ EndTick
    BY <1>1, <2>1 DEF BeginTick, UpdateLedger, EndTick
  <2>2. ASSUME NEW a \in Accounts, NEW accepted \in BOOLEAN, Relaunch(a, accepted) PROVE MacrosMove
    BY <1>1, <2>2 DEF Relaunch
  <2>3. ASSUME NEW load \in Loads, NEW marked \in SUBSET Known, EvaluateRules(load, marked) PROVE MacrosMove
    BY <1>1, <2>3 DEF EvaluateRules
  <2>4. ASSUME NEW r \in Run, RulePauses(r) \/ RuleResumes(r) PROVE MacrosMove
    BY <1>2, <2>4, RunTold DEF RulePauses, RuleResumes
  <2>5. ASSUME NEW r \in Run, RuleStops(r) PROVE MacrosMove
    BY <1>2, <2>5, RunTold DEF RuleStops
  <2>6. ASSUME NEW r \in Run, RuleStarts(r) PROVE MacrosMove
    <3>1. CASE UNCHANGED start
      BY <1>1, <2>6, <3>1 DEF RuleStarts, macros
    <3>2. CASE Checked(Watcher, run[r].account, run[r].macro)
      <4>1. run[r].account \in Accounts /\ run[r].macro \in Macros \cup {Nobody} /\ Watcher \in Threads
        BY <3>2 DEF Checked, WorldOK, MacrosOK, RunType, Threads
      <4>. QED BY <2>6, <3>2, <4>1 DEF RuleStarts, MacrosMove
    <3>. QED BY <2>6, <3>1, <3>2 DEF RuleStarts
  <2>7. CASE WatcherStarts
    BY <2>7 DEF WatcherStarts, MacrosMove, Threads
  <2>8. ASSUME NEW a \in Accounts, NEW m \in Macros, ResumeStarts(a, m) PROVE MacrosMove
    BY <2>8 DEF ResumeStarts, MacrosMove, Threads
  <2>9. ASSUME NEW a \in Accounts, NEW m \in Macros, ResumeWaits(a, m) PROVE MacrosMove
    BY <1>1, <2>9 DEF ResumeWaits
  <2>. QED BY <1>7, <2>1, <2>2, <2>3, <2>4, <2>5, <2>6, <2>7, <2>8, <2>9 DEF Tick
<1> QED
  BY <1>3, <1>4, <1>5, <1>6, <1>7 DEF Next

LEMMA MacrosType == FleetTypes /\ MacrosMove => MacrosOK'
<1> SUFFICES ASSUME FleetTypes, MacrosMove PROVE MacrosOK'
  OBVIOUS
<1> USE DEF FleetTypes, MacrosOK
<1>1. CASE UNCHANGED <<runs, start>> /\ RunsMove
  BY <1>1 DEF RunsMove
<1>2. ASSUME NEW t \in Threads, Registered(t) PROVE MacrosOK'
  <2>. DEFINE c == [NoRun EXCEPT !.state = "acting", !.account = start[t].account, !.macro = start[t].macro]
  <2>1. c \in RunType
    BY DEF RunType, NoRun, StartType
  <2>2. run' = [run EXCEPT ![runs + 1] = c] /\ runs' = runs + 1 /\ runs' \in 0 .. MaxRuns
    BY <1>2, FleetAssumption DEF Registered, FleetAssumption
  <2> HIDE DEF c
  <2>. QED BY <1>2, <2>1, <2>2 DEF Registered, NoStart, StartType
<1>3. ASSUME NEW t \in Threads, StartFails(t) PROVE MacrosOK'
  BY <1>3 DEF StartFails, NoStart, StartType
<1>4. ASSUME NEW t \in Threads, NEW a \in Accounts, NEW m \in Macros \cup {Nobody}, Checked(t, a, m),
             UNCHANGED <<run, runs>>
      PROVE  MacrosOK'
  BY <1>4 DEF Checked, StartType
<1> QED
  BY <1>1, <1>2, <1>3, <1>4 DEF MacrosMove

\* The runs at work are those registered last, except for the starts of other threads that had
\* passed the check of the capacity.
Starting == {t \in Threads : Mentioned(t)}
NewestWork ==
    /\ \A r \in Run : run[r].state # "none" => r <= runs
    /\ \A r \in Live : runs - r + Cardinality(Starting) < Cardinality(Threads)

LEMMA NewestStep ==
    ASSUME IsFiniteSet(Threads), FleetTypes, NewestWork, MacrosMove
    PROVE  NewestWork'
<1> USE DEF FleetTypes, MacrosOK, NewestWork
<1>0. /\ IsFiniteSet(Starting) /\ Cardinality(Starting) \in Nat /\ Cardinality(Threads) \in Nat
      /\ \A r \in Run : r \in Int /\ runs \in Int
  BY FS_CardinalityType, FS_Subset DEF Starting, Run
<1>1. CASE UNCHANGED <<runs, start>> /\ RunsMove
  <2>1. \A r \in Run : (run'[r].state # "none" => run[r].state # "none") /\ (r \in Live' => r \in Live)
    BY <1>1 DEF RunsMove, Later, Live
  <2>2. Starting' = Starting
    BY <1>1 DEF Starting, Mentioned
  <2>. QED BY <1>1, <2>1, <2>2 DEF Live
<1>2. ASSUME NEW t \in Threads, Registered(t) PROVE NewestWork'
  <2>1. /\ runs' = runs + 1 /\ runs + 1 \in Run /\ t \in Starting
        /\ \A r \in Run : r # runs + 1 => run'[r] = run[r]
    BY <1>2, FleetAssumption DEF Registered, FleetAssumption, Run, Starting
  <2>2. Starting' = Starting \ {t}
    BY <1>2 DEF Registered, Starting, Mentioned, NoStart
  <2>3. Cardinality(Starting') = Cardinality(Starting) - 1
    BY <1>0, <2>1, <2>2, FS_RemoveElement
  <2>4. Cardinality(Starting) <= Cardinality(Threads)
    BY FS_Subset DEF Starting
  <2>5. \A r \in Live' : r = runs + 1 \/ r \in Live
    BY <2>1 DEF Live
  <2>6. \A r \in Live' : runs' - r + Cardinality(Starting') < Cardinality(Threads)
    <3>. SUFFICES ASSUME NEW r \in Live' PROVE runs' - r + Cardinality(Starting') < Cardinality(Threads)
      OBVIOUS
    <3>1. CASE r = runs + 1
      BY <1>0, <2>1, <2>3, <2>4, <3>1
    <3>2. CASE r \in Live
      <4>1. r \in Int
        BY <1>0, <3>2 DEF Live
      <4>. QED BY <1>0, <2>1, <2>3, <3>2, <4>1
    <3>. QED BY <2>5, <3>1, <3>2
  <2>7. \A r \in Run : run'[r].state # "none" => r <= runs'
    BY <1>0, <2>1
  <2>. QED BY <2>6, <2>7
<1>3. ASSUME NEW t \in Threads, StartFails(t) PROVE NewestWork'
  <2>1. Starting' = Starting \ {t} /\ t \in Starting
    BY <1>3 DEF StartFails, Starting, Mentioned, NoStart
  <2>2. Cardinality(Starting') = Cardinality(Starting) - 1
    BY <1>0, <2>1, FS_RemoveElement
  <2>. QED BY <1>0, <1>3, <2>2 DEF StartFails, Live
<1>4. ASSUME NEW t \in Threads, NEW a \in Accounts, NEW m \in Macros \cup {Nobody}, Checked(t, a, m),
             UNCHANGED <<run, runs>>
      PROVE  NewestWork'
  BY <1>4 DEF Checked, Busy, Live
<1> QED
  BY <1>1, <1>2, <1>3, <1>4 DEF MacrosMove

IsTold(r) == run[r].cancel \/ run[r].state = "ended"

\* How far an emergency stop has come.
HaltsFit == \A u \in Users :
    /\ halt[u].pc # "idle" => \A r \in halt[u].before : run[r].state # "none"
    /\ halt[u].pc = "macros" => \A r \in halt[u].before \ halt[u].todo : IsTold(r)
    /\ halt[u].pc \in {"rules", "returns"} => \A r \in halt[u].before : IsTold(r)

LEMMA ToldStays ==
    ASSUME FleetTypes, NewestWork, MacrosMove, NEW r \in Run, run[r].state # "none"
    PROVE  run'[r].state # "none" /\ (IsTold(r) => IsTold(r)')
<1> USE DEF FleetTypes, MacrosOK, IsTold
<1>1. CASE RunsMove
  BY <1>1 DEF RunsMove, Later
<1>2. ASSUME NEW t \in Threads, Registered(t) PROVE run'[r] = run[r]
  BY <1>2 DEF Registered, NewestWork, Run
<1>3. CASE run' = run
  BY <1>3
<1> QED
  BY <1>1, <1>2, <1>3 DEF MacrosMove, StartFails

LEMMA HaltsKept ==
    ASSUME FleetTypes, NewestWork, MacrosMove, HaltsFit, UNCHANGED halt
    PROVE  HaltsFit'
<1>1. \A u \in Users : halt[u].before \subseteq Run
  BY DEF FleetTypes, AskedOK, HaltType
<1>2. \A r \in Run : run[r].state # "none" => run'[r].state # "none" /\ (IsTold(r) => IsTold(r)')
  BY ToldStays
<1> QED
  BY <1>1, <1>2 DEF HaltsFit

LEMMA HaltStep ==
    ASSUME IsFiniteSet(Threads), Cardinality(Threads) <= MaxListed,
           FleetTypes, NewestWork, MacrosMove, HaltsFit, NEW u \in Users, Halt(u)
    PROVE  HaltsFit'
<1>1. /\ halt \in [Users -> HaltType]
      /\ \A v \in Users : halt[v].before \subseteq Run
  BY DEF FleetTypes, AskedOK, HaltType
<1>2. \A r \in Run : run[r].state # "none" => run'[r].state # "none" /\ (IsTold(r) => IsTold(r)')
  BY ToldStays
\* The other stops have come as far as before.
<1>3. ASSUME NEW h, halt' = [halt EXCEPT ![u] = h],
             h.pc # "idle" => \A r \in h.before : run'[r].state # "none",
             h.pc = "macros" => \A r \in h.before \ h.todo : IsTold(r)',
             h.pc \in {"rules", "returns"} => \A r \in h.before : IsTold(r)'
      PROVE  HaltsFit'
  <2>1. \A v \in Users : v # u => halt'[v] = halt[v]
    BY <1>1, <1>3
  <2>2. halt'[u] = h
    BY <1>1, <1>3
  <2>. QED BY <1>1, <1>2, <1>3, <2>1, <2>2 DEF HaltsFit
<1>4. halt[u] \in HaltType
  BY <1>1
<1>5. CASE BeginHalt(u)
  <2>. DEFINE h == [pc |-> "macros", todo |-> ToStop, before |-> Live]
  <2>1. halt' = [halt EXCEPT ![u] = h] /\ run' = run
    BY <1>5 DEF BeginHalt, macros
  <2>2. Live \subseteq Listed
    <3>. SUFFICES ASSUME NEW r \in Live PROVE r \in Listed
      OBVIOUS
    <3>1. r \in Run /\ r <= runs /\ runs - r + Cardinality(Starting) < Cardinality(Threads)
      BY DEF NewestWork, Live
    <3>2. Cardinality(Starting) \in Nat /\ Cardinality(Threads) \in Nat
      BY FS_CardinalityType, FS_Subset DEF Starting
    <3>3. r \in Int /\ runs \in Int /\ MaxListed \in Int
      BY <3>1, FleetAssumption DEF FleetAssumption, FleetTypes, MacrosOK, Run
    <3>4. runs - r < MaxListed
      BY <3>1, <3>2, <3>3
    <3>. QED BY <3>1, <3>4 DEF Listed
  <2>3. \A r \in Live : run[r].state # "none" /\ r \in ToStop
    BY <2>2 DEF Live, ToStop
  <2>4. h.pc = "macros" /\ h.before = Live /\ h.todo = ToStop
    OBVIOUS
  <2> HIDE DEF h
  <2>. QED BY <1>3, <2>1, <2>3, <2>4
<1>6. ASSUME NEW r \in Run, HaltMacro(u, r) PROVE HaltsFit'
  <2>. DEFINE h == [halt[u] EXCEPT !.todo = @ \ {r}]
  <2>1. halt' = [halt EXCEPT ![u] = h] /\ run' = Stopped(r) /\ halt[u].pc = "macros"
    BY <1>6 DEF HaltMacro
  <2>2. h.pc = "macros" /\ h.before = halt[u].before /\ h.todo = halt[u].todo \ {r}
    BY <1>4, <2>1 DEF HaltType
  <2>3. run[r].state # "none" => IsTold(r)'
    <3>1. CASE r \in Live
      <4>1. run[r] \in RunType /\ run' = [run EXCEPT ![r] = [run[r] EXCEPT !.cancel = TRUE, !.paused = FALSE]]
        BY <2>1, <3>1 DEF Stopped, FleetTypes, MacrosOK
      <4>2. run'[r] = [run[r] EXCEPT !.cancel = TRUE, !.paused = FALSE]
        BY <4>1 DEF FleetTypes, MacrosOK
      <4>3. run'[r].cancel
        BY <4>1, <4>2 DEF RunType
      <4>. QED BY <4>3 DEF IsTold
    <3>2. CASE r \notin Live
      BY <2>1, <3>2 DEF Stopped, Live, IsTold, FleetTypes, MacrosOK, RunType
    <3>. QED BY <3>1, <3>2
  <2>4. /\ \A s \in halt[u].before : run[s].state # "none" /\ s \in Run
        /\ \A s \in halt[u].before \ halt[u].todo : IsTold(s)
    BY <1>1, <2>1 DEF HaltsFit
  <2> HIDE DEF h
  <2>5. \A s \in h.before \ h.todo : IsTold(s)'
    BY <1>2, <2>2, <2>3, <2>4
  <2>6. \A s \in h.before : run'[s].state # "none"
    BY <1>2, <2>2, <2>4
  <2>. QED BY <1>3, <2>1, <2>2, <2>5, <2>6
<1>7. ASSUME NEW pc, halt' = [halt EXCEPT ![u].pc = pc], run' = run,
             \/ pc = "rules" /\ halt[u].pc = "macros" /\ halt[u].todo = {}
             \/ pc = "returns" /\ halt[u].pc = "rules"
      PROVE  HaltsFit'
  <2>. DEFINE h == [halt[u] EXCEPT !.pc = pc]
  <2>1. h.pc = pc /\ h.before = halt[u].before
    BY <1>4 DEF HaltType
  <2>2. halt' = [halt EXCEPT ![u] = h]
    BY <1>7
  <2>3. \A r \in halt[u].before : IsTold(r) /\ run[r].state # "none"
    BY <1>7 DEF HaltsFit
  <2>4. \A r \in halt[u].before : IsTold(r)' /\ run'[r].state # "none"
    BY <1>7, <2>3 DEF IsTold
  <2> HIDE DEF h
  <2>. QED BY <1>3, <1>7, <2>1, <2>2, <2>4
<1>8. CASE HaltResumes(u) \/ HaltRules(u)
  BY <1>7, <1>8 DEF HaltResumes, HaltRules, macros
<1>9. CASE HaltReturns(u)
  <2>1. NoHalt.pc = "idle"
    BY DEF NoHalt
  <2>. QED BY <1>3, <1>9, <2>1 DEF HaltReturns
<1> QED
  BY <1>5, <1>6, <1>8, <1>9 DEF Halt

LEMMA HaltsStep ==
    ASSUME IsFiniteSet(Threads), Cardinality(Threads) <= MaxListed,
           FleetTypes, NewestWork, HaltsFit, [Next]_<<watching, vars>>
    PROVE  HaltsFit'
<1>0. MacrosMove
  BY MacrosStep
<1>1. CASE UNCHANGED halt
  BY <1>0, <1>1, HaltsKept
<1>2. CASE Clients \/ SetRules \/ Groups \/ UNCHANGED vars \/ \E r \in Run : Parks(r) \/ Wakes(r) \/ RunEnds(r)
  BY <1>1, <1>2 DEF Clients, ClientSeen, ClientGone, SetRules, Groups, Regroup, vars, asked, Parks, Wakes, RunEnds
<1>3. CASE UserMacro
  BY <1>1, <1>3 DEF UserMacro, UserStarts, StartMacro, StopMacro, PauseMacro, ResumeMacro
<1>4. CASE Tick
  BY <1>1, <1>4 DEF asked, Tick, BeginTick, Relaunch, EvaluateRules, RulePauses, RuleResumes, RuleStops,
                    RuleStarts, WatcherStarts, UpdateLedger, ResumeStarts, ResumeWaits, EndTick
<1>5. ASSUME NEW u \in Users, Halt(u) PROVE HaltsFit'
  BY <1>0, <1>5, HaltStep
<1> QED
  BY <1>2, <1>3, <1>4, <1>5 DEF Next

\* The rest of the state keeps its shape.
LEMMA FleetTypesInit == Init => FleetTypes /\ NewestWork /\ HaltsFit
<1> SUFFICES ASSUME Init PROVE FleetTypes /\ NewestWork /\ HaltsFit
  OBVIOUS
<1>1. NoRun \in RunType /\ NoRun.state = "none"
  BY DEF NoRun, RunType
<1>2. NoStart \in StartType
  BY DEF NoStart, StartType
<1>3. NoHalt \in HaltType /\ NoHalt.pc = "idle"
  BY DEF NoHalt, HaltType
<1>4. MacrosOK
  BY <1>1, <1>2, FleetAssumption DEF Init, MacrosOK, FleetAssumption
<1>5. WorldOK /\ MemoryOK
  BY DEF Init, WorldOK, MemoryOK
<1>6. TickOK
  BY DEF Init, TickOK, NoTick
<1>7. AskedOK
  BY <1>3, FleetAssumption DEF Init, AskedOK, FleetAssumption
<1>8. NewestWork
  BY <1>1 DEF Init, NewestWork, Live
<1>9. HaltsFit
  BY <1>3 DEF Init, HaltsFit
<1> QED
  BY <1>4, <1>5, <1>6, <1>7, <1>8, <1>9 DEF FleetTypes

LEMMA WorldKept == FleetTypes /\ [Next]_<<watching, vars>> => WorldOK'
<1> SUFFICES ASSUME FleetTypes, [Next]_<<watching, vars>> PROVE WorldOK'
  OBVIOUS
<1> USE DEF FleetTypes, WorldOK
<1>1. CASE UNCHANGED world
  BY <1>1 DEF world
<1>2. CASE Clients
  BY <1>2 DEF Clients, ClientSeen, ClientGone
<1>3. CASE SetRules \/ Groups \/ UNCHANGED vars \/ \E r \in Run : Parks(r) \/ Wakes(r) \/ RunEnds(r)
  BY <1>1, <1>3 DEF SetRules, Groups, Regroup, vars, Parks, Wakes, RunEnds
<1>4. CASE UserMacro
  BY <1>1, <1>4 DEF UserMacro, UserStarts, StartMacro, StopMacro, PauseMacro, ResumeMacro
<1>5. ASSUME NEW u \in Users, Halt(u) PROVE WorldOK'
  BY <1>1, <1>5 DEF Halt, BeginHalt, HaltMacro, HaltResumes, HaltRules, HaltReturns
<1>6. CASE BeginTick
  BY <1>6 DEF BeginTick
<1>7. CASE Tick /\ ~ BeginTick
  BY <1>1, <1>7 DEF Tick, Relaunch, EvaluateRules, RulePauses, RuleResumes, RuleStops,
                    RuleStarts, WatcherStarts, UpdateLedger, ResumeStarts, ResumeWaits, EndTick
<1> QED
  BY <1>2, <1>3, <1>4, <1>5, <1>6, <1>7 DEF Next

LEMMA MemoryKept == FleetTypes /\ [Next]_<<watching, vars>> => MemoryOK'
<1> SUFFICES ASSUME FleetTypes, [Next]_<<watching, vars>> PROVE MemoryOK'
  OBVIOUS
<1> USE DEF FleetTypes, MemoryOK
<1>1. CASE UNCHANGED memory
  BY <1>1 DEF memory
<1>2. CASE Clients \/ Groups \/ UNCHANGED vars \/ \E r \in Run : Parks(r) \/ Wakes(r) \/ RunEnds(r)
  BY <1>1, <1>2 DEF Clients, ClientSeen, ClientGone, Groups, Regroup, vars, Parks, Wakes, RunEnds
<1>3. CASE SetRules
  BY <1>3 DEF SetRules
<1>4. CASE UserMacro
  BY <1>1, <1>4 DEF UserMacro, UserStarts, StartMacro, StopMacro, PauseMacro, ResumeMacro
<1>5. ASSUME NEW u \in Users, Halt(u) PROVE MemoryOK'
  BY <1>1, <1>5 DEF Halt, BeginHalt, HaltMacro, HaltResumes, HaltRules, HaltReturns
<1>6. CASE Tick
  <2>1. CASE BeginTick \/ EndTick
    BY <1>1, <2>1 DEF BeginTick, EndTick
  <2>2. ASSUME NEW a \in Accounts, NEW accepted \in BOOLEAN, Relaunch(a, accepted) PROVE MemoryOK'
    BY <2>2 DEF Relaunch
  <2>3. ASSUME NEW load \in Loads, NEW marked \in SUBSET Known, EvaluateRules(load, marked) PROVE MemoryOK'
    BY <2>3 DEF EvaluateRules, StillByRule, Live
  <2>4. ASSUME NEW r \in Run, RulePauses(r) \/ RuleResumes(r) \/ RuleStops(r) PROVE MemoryOK'
    BY <2>4 DEF RulePauses, RuleResumes, RuleStops
  <2>5. ASSUME NEW r \in Run, RuleStarts(r) PROVE MemoryOK'
    BY <1>1, <2>5 DEF RuleStarts
  <2>6. CASE WatcherStarts
    BY <2>6 DEF WatcherStarts
  <2>7. CASE UpdateLedger
    <3>1. ASSUME NEW a \in Accounts, Remembered(a) # {} PROVE run[Min(Remembered(a))].macro \in Macros \cup {Nobody}
      <4>1. Remembered(a) \subseteq Run /\ Run \subseteq Nat
        BY DEF Remembered, Listed, Run
      <4>2. Min(Remembered(a)) \in Run
        BY <3>1, <4>1, MinIsIn
      <4>. QED BY <4>2 DEF MacrosOK, RunType
    <3>2. \A a \in Accounts : last[a] \in Macros \cup {Nobody}
      OBVIOUS
    <3>3. last' \in [Accounts -> Macros \cup {Nobody}]
      BY <2>7, <3>1, <3>2 DEF UpdateLedger
    <3>. QED BY <2>7, <3>3 DEF UpdateLedger
  <2>8. ASSUME NEW a \in Accounts, NEW m \in Macros, ResumeStarts(a, m) \/ ResumeWaits(a, m) PROVE MemoryOK'
    BY <1>1, <2>8 DEF ResumeStarts, ResumeWaits
  <2>. QED BY <1>6, <2>1, <2>2, <2>3, <2>4, <2>5, <2>6, <2>7, <2>8 DEF Tick
<1> QED
  BY <1>2, <1>3, <1>4, <1>5, <1>6 DEF Next

LEMMA TickKept == FleetTypes /\ [Next]_<<watching, vars>> => TickOK'
<1> SUFFICES ASSUME FleetTypes, [Next]_<<watching, vars>> PROVE TickOK'
  OBVIOUS
<1> USE DEF FleetTypes, TickOK
<1>1. CASE UNCHANGED tick
  BY <1>1
<1>2. CASE Clients \/ SetRules \/ Groups \/ UNCHANGED vars \/ \E r \in Run : Parks(r) \/ Wakes(r) \/ RunEnds(r)
  BY <1>1, <1>2 DEF Clients, ClientSeen, ClientGone, SetRules, Groups, Regroup, vars, Parks, Wakes, RunEnds
<1>3. CASE UserMacro
  BY <1>1, <1>3 DEF UserMacro, UserStarts, StartMacro, StopMacro, PauseMacro, ResumeMacro
<1>4. ASSUME NEW u \in Users, Halt(u) PROVE TickOK'
  BY <1>1, <1>4 DEF Halt, BeginHalt, HaltMacro, HaltResumes, HaltRules, HaltReturns
\* The set of what is left to do shrinks or grows, the place in the tick stays.
<1>5. ASSUME NEW todo, tick' = [tick EXCEPT !.todo = todo] PROVE TickOK'
  <2>. DEFINE pc == tick.pc
  <2>1. tick = [pc |-> pc, todo |-> tick.todo] /\ pc \in {"scan", "relaunch", "rules", "resumes"}
    OBVIOUS
  <2> HIDE DEF pc
  <2>2. tick' = [pc |-> pc, todo |-> todo]
    BY <1>5, <2>1
  <2>. QED BY <2>1, <2>2
<1>6. CASE Tick
  <2>1. CASE BeginTick \/ EndTick \/ UpdateLedger \/ WatcherStarts
    BY <2>1 DEF BeginTick, EndTick, UpdateLedger, WatcherStarts, NoTick
  <2>2. ASSUME NEW a \in Accounts, NEW accepted \in BOOLEAN, Relaunch(a, accepted) PROVE TickOK'
    BY <1>5, <2>2 DEF Relaunch
  <2>3. ASSUME NEW load \in Loads, NEW marked \in SUBSET Known, EvaluateRules(load, marked) PROVE TickOK'
    BY <2>3 DEF EvaluateRules
  <2>4. ASSUME NEW r \in Run, RulePauses(r) \/ RuleResumes(r) \/ RuleStops(r) \/ RuleStarts(r) PROVE TickOK'
    BY <1>5, <2>4 DEF RulePauses, RuleResumes, RuleStops, RuleStarts
  <2>5. ASSUME NEW a \in Accounts, NEW m \in Macros, ResumeStarts(a, m) \/ ResumeWaits(a, m) PROVE TickOK'
    BY <1>5, <2>5 DEF ResumeStarts, ResumeWaits
  <2>. QED BY <1>6, <2>1, <2>2, <2>3, <2>4, <2>5 DEF Tick
<1> QED
  BY <1>2, <1>3, <1>4, <1>6 DEF Next

LEMMA AskedKept == FleetTypes /\ [Next]_<<watching, vars>> => AskedOK'
<1> SUFFICES ASSUME FleetTypes, [Next]_<<watching, vars>> PROVE AskedOK'
  OBVIOUS
<1> USE DEF FleetTypes, AskedOK
<1>0. watching' = watching
  BY DEF Next
<1>1. CASE UNCHANGED asked
  BY <1>0, <1>1 DEF asked
<1>2. CASE Clients \/ Groups \/ UNCHANGED vars \/ \E r \in Run : Parks(r) \/ Wakes(r)
  BY <1>1, <1>2 DEF Clients, ClientSeen, ClientGone, Groups, Regroup, vars, Parks, Wakes
<1>3. ASSUME UNCHANGED <<halt, stops>>, human' \subseteq Run, quiet' \in {quiet, "no", "yes"} PROVE AskedOK'
  BY <1>0, <1>3
<1>4. CASE SetRules
  BY <1>3, <1>4 DEF SetRules, UserActs
<1>5. ASSUME NEW r \in Run, RunEnds(r) PROVE AskedOK'
  BY <1>3, <1>5 DEF RunEnds
<1>6. CASE UserMacro
  BY <1>3, <1>6 DEF UserMacro, UserStarts, StartMacro, StopMacro, PauseMacro, ResumeMacro, UserActs
<1>7. ASSUME NEW u \in Users, Halt(u) PROVE AskedOK'
  <2>1. ASSUME NEW h \in HaltType, halt' = [halt EXCEPT ![u] = h], stops' \in 0 .. MaxStops, human' \subseteq Run,
               quiet' \in {"no", "stopping", "soon", "yes"}
        PROVE  AskedOK'
    BY <1>0, <2>1
  <2>2. halt[u] \in HaltType
    BY <1>7
  <2>3. CASE BeginHalt(u)
    <3>1. [pc |-> "macros", todo |-> ToStop, before |-> Live] \in HaltType
      BY DEF HaltType, ToStop, Live
    <3>2. stops' \in 0 .. MaxStops
      BY <2>3, FleetAssumption DEF BeginHalt, FleetAssumption
    <3>. QED BY <2>1, <2>3, <3>1, <3>2 DEF BeginHalt
  <2>4. ASSUME NEW r \in Run, HaltMacro(u, r) PROVE AskedOK'
    <3>1. [halt[u] EXCEPT !.todo = @ \ {r}] \in HaltType
      BY <2>2 DEF HaltType
    <3>2. halt' = [halt EXCEPT ![u] = [halt[u] EXCEPT !.todo = @ \ {r}]]
      BY <2>4 DEF HaltMacro
    <3>. QED BY <2>1, <2>4, <3>1, <3>2 DEF HaltMacro
  <2>5. ASSUME NEW pc \in {"rules", "returns"}, halt' = [halt EXCEPT ![u].pc = pc], UNCHANGED <<stops, human, quiet>>
        PROVE  AskedOK'
    <3>1. [halt[u] EXCEPT !.pc = pc] \in HaltType
      BY <2>2 DEF HaltType
    <3>. QED BY <2>1, <2>5, <3>1
  <2>6. CASE HaltResumes(u) \/ HaltRules(u)
    BY <2>5, <2>6 DEF HaltResumes, HaltRules
  <2>7. CASE HaltReturns(u)
    BY <2>1, <2>7 DEF HaltReturns, NoHalt, HaltType
  <2>. QED BY <1>7, <2>3, <2>4, <2>6, <2>7 DEF Halt
<1>8. CASE BeginTick
  BY <1>3, <1>8 DEF BeginTick
<1>9. CASE Tick /\ ~ BeginTick
  BY <1>1, <1>9 DEF asked, Tick, Relaunch, EvaluateRules, RulePauses, RuleResumes, RuleStops,
                    RuleStarts, WatcherStarts, UpdateLedger, ResumeStarts, ResumeWaits, EndTick
<1> QED
  BY <1>2, <1>4, <1>5, <1>6, <1>7, <1>8, <1>9 DEF Next

LEMMA FleetTypesStep == FleetTypes /\ [Next]_<<watching, vars>> => FleetTypes'
<1> SUFFICES ASSUME FleetTypes, [Next]_<<watching, vars>> PROVE FleetTypes'
  OBVIOUS
<1>1. MacrosOK'
  BY MacrosStep, MacrosType
<1> QED
  BY <1>1, WorldKept, MemoryKept, TickKept, AskedKept DEF FleetTypes

LEMMA FleetTypesFit == FleetTypes => TypeOK
BY DEF FleetTypes, WorldOK, MacrosOK, MemoryOK, TickOK, AskedOK, TypeOK, RunType, StartType, HaltType

\* Every variable of the fleet automation has its shape.
THEOREM FleetTypesHold == Spec => []TypeOK
BY FleetTypesInit, FleetTypesStep, FleetTypesFit, PTL DEF Spec

FleetWorks == FleetTypes /\ NewestWork /\ HaltsFit

LEMMA FleetWorksStep ==
    ASSUME IsFiniteSet(Threads), Cardinality(Threads) <= MaxListed
    PROVE  FleetWorks /\ [Next]_<<watching, vars>> => FleetWorks'
BY MacrosStep, FleetTypesStep, NewestStep, HaltsStep DEF FleetWorks

\* When an emergency stop returns, every macro run that was at work when it was called has been told
\* to stop, for any number of runs, accounts and stops, although the stop goes through the newest runs
\* only (fleet_features.py, emergency_stop; application_service.py, stop_all_macros and list_runs).
\* The assumption says that no more threads start macros than the list shows runs (100): then a run
\* at work cannot be pushed off its end.  Dry runs, which start beside it, are not in the model.
THEOREM StopsReachAll ==
    ASSUME IsFiniteSet(Threads), Cardinality(Threads) <= MaxListed
    PROVE  Spec => []StopReachesAll
<1>1. Init => FleetWorks
  BY FleetTypesInit DEF FleetWorks
<1>2. FleetWorks => StopReachesAll
  BY DEF FleetWorks, HaltsFit, IsTold, StopReachesAll
<1>3. FleetWorks /\ [Next]_<<watching, vars>> => FleetWorks'
  BY FleetWorksStep
<1> QED
  BY <1>1, <1>2, <1>3, PTL DEF Spec

-----------------------------------------------------------------------------
(* The services side by side.                                               *)

Services == OAuthWorks /\ SignInInv /\ LockInv

LEMMA ServicesStep == Services /\ [ServiceNext]_serviceVars => Services'
<1> SUFFICES ASSUME Services, [ServiceNext]_serviceVars PROVE Services'
  OBVIOUS
<1>1. [OAuthNext]_oauthVars
  BY DEF ServiceNext, serviceVars
<1>2. [SignInNext]_signInVars
  BY DEF ServiceNext, serviceVars
<1>3. [MultiNext]_multiVars
  BY DEF ServiceNext, serviceVars
<1> QED
  BY <1>1, <1>2, <1>3, OAuthWorksStep, SignInStep, LockStep DEF Services, LockKept

LEMMA ServicesStart == ServiceInit => Services
BY InitOAuth, InitSignIn, LockStart DEF ServiceInit, Services, OAuthWorks

LEMMA ServicesWork == ServiceSpec => []Services
BY ServicesStart, ServicesStep, PTL DEF ServiceSpec

LEMMA FleetAmongOthers == [ServiceNext]_serviceVars => [Next]_<<watching, vars>>
BY DEF ServiceNext, serviceVars

\* Every variable of the services has its shape.
THEOREM ServiceTypes == ServiceSpec => []ServiceTypeOK
<1>1. ServiceSpec => []FleetTypes
  <2>1. ServiceInit => FleetTypes
    BY FleetTypesInit DEF ServiceInit
  <2>. QED BY <2>1, FleetAmongOthers, FleetTypesStep, PTL DEF ServiceSpec
<1>2. Services => OAuthTypeOK
  BY DEF Services, OAuthWorks, OAuthTypes, LoginsOK, GrantsOK, DialogOK, RepliesOK, CallShape, OAuthTypeOK
<1>3. FleetTypes /\ Services => ServiceTypeOK
  BY <1>2, FleetTypesFit DEF Services, SignInInv, LockInv, ServiceTypeOK
<1> QED
  BY <1>1, <1>3, ServicesWork, PTL

\* One OAuth login waits, with its receiver, and one browser is open, for any number of logins and
\* sign-ins (roblox/oauth.py, start; application_service.py, _start_browser_login;
\* roblox/browser_login.py).
THEOREM SignInsAreOne == ServiceSpec => []OneSignIn
<1>1. Services => OneSignIn
  BY BrowserIsOne DEF Services, OAuthWorks, OneSignIn
<1> QED
  BY <1>1, ServicesWork, PTL

=============================================================================
