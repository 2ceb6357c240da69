----------------------------- MODULE WorkerThreadProofs ------------------------
(***************************************************************************)
(* The threads the application starts itself, for any number of them.      *)
(* One queue of launches works at a time, and its status is true: a worker *)
(* that is still alive belongs to the latest batch or hears its own cancel *)
(* event.  The keyboard belongs to one macro run at a time: a key is down  *)
(* for the owner of the lock because only a run with a session presses     *)
(* one, and a session is the lock.  No generation of the watcher is lost:  *)
(* the duty to stop a thread is held by _watch_loop until                  *)
(* _stop_watcher_worker takes it, by that call until the event is set, and *)
(* by the event from then on.                                              *)
(***************************************************************************)
EXTENDS MCWorkerThreads, Integers, TLAPS

(***************************************************************************)
(* The batch launcher.                                                     *)
(***************************************************************************)

\* A worker that is alive is the latest one, or its batch is cancelled.
Heard(b) == AtWork(b) => b = active \/ b \in cancel

\* A batch that has not been started yet has no worker, no status and no event.
Unborn(b) == b > active => worker[b] = NoWorker /\ status[b] = NoStatus /\ b \notin cancel

Counted(b) == status[b].launched + status[b].failed

\* The accounts a worker took are counted, all of them at its end.
Counts(b) ==
    /\ worker[b].index = Counted(b) + IF worker[b].pc = "launching" THEN 1 ELSE 0
    /\ worker[b].pc \in {"ending", "done"} /\ b \notin cancel => Counted(b) = worker[b].total

\* Only a batch that has waves pauses between them.
HasWaves(b) == worker[b].pc \in {"pausing", "polling", "leaving"} => WaveSize > 0

OfBatch(b) == Heard(b) /\ Unborn(b) /\ Counts(b) /\ HasWaves(b)

QueueInv == BatchTypeOK /\ ShownIsTrue /\ \A b \in Batch : OfBatch(b)

WorkerRecord ==
    [pc : {"none", "take", "launching", "delay", "pausing", "polling", "leaving",
           "ending", "done"},
     total : 0 .. MaxQueue, index : Nat, polls : 0 .. MaxPolls]

StatusRecord ==
    [in_progress : BOOLEAN, launched : Nat, failed : Nat, wave : Nat, waiting : BOOLEAN]

-----------------------------------------------------------------------------
LEMMA Records ==
    /\ NoWorker \in WorkerRecord /\ NoWorker.pc = "none" /\ NoWorker.index = 0
    /\ NoStatus \in StatusRecord /\ ~ NoStatus.in_progress
    /\ NoStatus.launched = 0 /\ NoStatus.failed = 0
BY BatchAssumption DEF NoWorker, NoStatus, WorkerRecord, StatusRecord

\* A step of the worker of batch b, told by the new records of that batch: it is alive before
\* and alive or done after, counts as the code does, and leaves in_progress alone unless it
\* ends.  Every action of _run_batch is one.
LEMMA WorkerOnly ==
    ASSUME QueueInv, NEW b \in Batch, NEW w \in WorkerRecord, NEW s \in StatusRecord,
           worker' = [worker EXCEPT ![b] = w], status' = [status EXCEPT ![b] = s],
           UNCHANGED <<cancel, active>>,
           AtWork(b), w.pc # "none", w.total = worker[b].total,
           s.in_progress <=> (status[b].in_progress /\ w.pc # "done"),
           w.index = s.launched + s.failed + IF w.pc = "launching" THEN 1 ELSE 0,
           w.pc \in {"ending", "done"} /\ b \notin cancel => s.launched + s.failed = w.total,
           w.pc \in {"pausing", "polling", "leaving"} => WaveSize > 0
    PROVE  QueueInv'
<1>0. /\ worker \in [Batch -> WorkerRecord] /\ status \in [Batch -> StatusRecord]
      /\ active \in 0 .. MaxBatches
  BY DEF QueueInv, BatchTypeOK, WorkerRecord, StatusRecord
<1>1. BatchTypeOK'
  BY <1>0 DEF QueueInv, BatchTypeOK, WorkerRecord, StatusRecord
<1>2. /\ worker'[b] = w /\ status'[b] = s
      /\ \A c \in Batch \ {b} : worker'[c] = worker[c] /\ status'[c] = status[c]
  BY <1>0
<1>3. ~ (b > active)
  BY Records DEF QueueInv, OfBatch, Unborn, AtWork
<1>4. ShownIsTrue'
  <2>1. CASE active = b
    BY <1>2, <2>1 DEF QueueInv, ShownIsTrue, Shown, AtWork
  <2>2. CASE active # b
    <3>1. active > 0 => active \in Batch \ {b}
      BY <1>0, <2>2, BatchAssumption DEF Batch
    <3>. QED BY <1>2, <3>1 DEF QueueInv, ShownIsTrue, Shown, AtWork
  <2>. QED BY <2>1, <2>2
<1>5. ASSUME NEW c \in Batch PROVE OfBatch(c)'
  <2>1. OfBatch(c)
    BY DEF QueueInv
  <2>2. CASE c = b
    <3>1. Heard(c)'
      BY <2>1, <2>2 DEF OfBatch, Heard
    <3>2. Unborn(c)'
      BY <1>3, <2>2 DEF Unborn
    <3>3. Counts(c)'
      BY <1>2, <2>2 DEF Counts, Counted
    <3>4. HasWaves(c)'
      BY <1>2, <2>2 DEF HasWaves
    <3>. QED BY <3>1, <3>2, <3>3, <3>4 DEF OfBatch
  <2>3. CASE c # b
    BY <1>2, <2>1, <2>3 DEF OfBatch, HasWaves, Heard, Unborn, Counts, Counted, AtWork
  <2>. QED BY <2>2, <2>3
<1>. QED BY <1>1, <1>4, <1>5 DEF QueueInv

\* The types of one batch's records, for the steps below.
LEMMA Typed ==
    ASSUME QueueInv, NEW b \in Batch
    PROVE  /\ worker[b] \in WorkerRecord /\ status[b] \in StatusRecord /\ OfBatch(b)
           /\ worker \in [Batch -> WorkerRecord] /\ status \in [Batch -> StatusRecord]
           /\ status = [status EXCEPT ![b] = status[b]]
BY DEF QueueInv, BatchTypeOK, WorkerRecord, StatusRecord

-----------------------------------------------------------------------------
LEMMA QueueInit == BatchInit => QueueInv
<1> SUFFICES ASSUME BatchInit PROVE QueueInv
  OBVIOUS
<1>1. BatchTypeOK
  BY Records, BatchAssumption DEF BatchInit, BatchTypeOK, WorkerRecord, StatusRecord
<1>2. ShownIsTrue
  BY DEF BatchInit, ShownIsTrue
<1>3. ASSUME NEW b \in Batch PROVE OfBatch(b)
  BY Records DEF BatchInit, OfBatch, HasWaves, Heard, Unborn, Counts, Counted, AtWork
<1>. QED BY <1>1, <1>2, <1>3 DEF QueueInv

\* start_batch is refused while the latest batch is in progress: by ShownIsTrue its worker is
\* then gone or cancelled, which is what Heard asks of it when it is no longer the latest.
LEMMA StartStep ==
    ASSUME QueueInv, NEW n \in 1 .. MaxQueue, StartBatch(n)
    PROVE  QueueInv'
<1> DEFINE b == active + 1
           w == [NoWorker EXCEPT !.pc = "take", !.total = n]
           s == [NoStatus EXCEPT !.in_progress = TRUE, !.wave = IF WaveSize > 0 THEN 1 ELSE 0]
<1>0. /\ worker \in [Batch -> WorkerRecord] /\ status \in [Batch -> StatusRecord]
      /\ active \in 0 .. MaxBatches /\ b \in Batch /\ n \in 0 .. MaxQueue
  BY BatchAssumption
     DEF QueueInv, BatchTypeOK, WorkerRecord, StatusRecord, StartBatch, Batch
<1>1. /\ w \in WorkerRecord /\ w.pc = "take" /\ w.index = 0
      /\ s \in StatusRecord /\ s.in_progress /\ s.launched = 0 /\ s.failed = 0
  BY <1>0, Records DEF WorkerRecord, StatusRecord
<1>2. worker' = [worker EXCEPT ![b] = w] /\ status' = [status EXCEPT ![b] = s]
      /\ active' = b /\ cancel' = cancel
  BY DEF StartBatch
<1> HIDE DEF b, w, s
<1>3. /\ worker'[b] = w /\ status'[b] = s
      /\ \A c \in Batch \ {b} : worker'[c] = worker[c] /\ status'[c] = status[c]
  BY <1>0, <1>2
<1>4. b \notin cancel /\ b > active
  BY <1>0 DEF QueueInv, OfBatch, Unborn, b
<1>5. BatchTypeOK'
  BY <1>0, <1>1, <1>2 DEF QueueInv, BatchTypeOK, WorkerRecord, StatusRecord, Batch
<1>6. ShownIsTrue'
  BY <1>1, <1>2, <1>3, <1>4 DEF ShownIsTrue, Shown, AtWork
<1>7. ASSUME NEW c \in Batch PROVE OfBatch(c)'
  <2>1. OfBatch(c)
    BY DEF QueueInv
  <2>2. CASE c = b
    <3>1. Heard(c)'
      BY <1>2, <2>2 DEF Heard
    <3>2. Unborn(c)'
      BY <1>0, <1>2, <2>2 DEF Unborn, Batch
    <3>3. Counts(c)' /\ HasWaves(c)'
      BY <1>1, <1>3, <2>2 DEF Counts, Counted, HasWaves
    <3>. QED BY <3>1, <3>2, <3>3 DEF OfBatch
  <2>3. CASE c # b
    <3>1. worker'[c] = worker[c] /\ status'[c] = status[c]
      BY <1>3, <2>3
    <3>2. Heard(c)'
      <4>1. AtWork(c) => c \in cancel
        <5>1. CASE c = active
          <6>1. active > 0 /\ ~ Shown.in_progress
            BY <1>0, <5>1 DEF StartBatch, MayStart, Batch
          <6>. QED BY <5>1, <6>1 DEF QueueInv, ShownIsTrue
        <5>2. CASE c # active
          BY <2>1, <5>2 DEF OfBatch, Heard
        <5>. QED BY <5>1, <5>2
      <4>. QED BY <1>2, <3>1, <4>1 DEF Heard, AtWork
    <3>3. Unborn(c)'
      <4>1. c > b => c > active
        BY <1>0 DEF Batch, b
      <4>. QED BY <1>2, <2>1, <3>1, <4>1 DEF OfBatch, Unborn
    <3>4. Counts(c)' /\ HasWaves(c)'
      BY <1>2, <2>1, <3>1 DEF OfBatch, Counts, Counted, HasWaves
    <3>. QED BY <3>2, <3>3, <3>4 DEF OfBatch
  <2>. QED BY <2>2, <2>3
<1>. QED BY <1>5, <1>6, <1>7 DEF QueueInv

\* cancel_batch sets the event of the latest batch and shows at once that it is over.
LEMMA CancelStep ==
    ASSUME QueueInv, CancelBatch
    PROVE  QueueInv'
<1>0. /\ worker \in [Batch -> WorkerRecord] /\ status \in [Batch -> StatusRecord]
      /\ active \in 0 .. MaxBatches
  BY DEF QueueInv, BatchTypeOK, WorkerRecord, StatusRecord
<1>1. CASE active = 0
  <2>1. status' = status /\ cancel' = cancel /\ worker' = worker /\ active' = active
    BY <1>1 DEF CancelBatch
  <2>. QED
    BY <2>1 DEF QueueInv, BatchTypeOK, ShownIsTrue, Shown, OfBatch, HasWaves, Heard, Unborn, Counts,
                Counted, AtWork
<1>2. CASE active # 0
  <2> DEFINE s == [status[active] EXCEPT !.in_progress = FALSE]
  <2>1. active \in Batch
    BY <1>0, <1>2 DEF Batch
  <2>2. /\ s \in StatusRecord /\ ~ s.in_progress
        /\ s.launched = status[active].launched /\ s.failed = status[active].failed
    BY <1>0, <2>1 DEF StatusRecord
  <2>3. /\ status' = [status EXCEPT ![active] = s] /\ cancel' = cancel \cup {active}
        /\ worker' = worker /\ active' = active
    BY <1>0, <1>2, <2>1 DEF CancelBatch
  <2> HIDE DEF s
  <2>4. /\ status'[active] = s
        /\ \A c \in Batch \ {active} : status'[c] = status[c]
    BY <1>0, <2>1, <2>3
  <2>5. BatchTypeOK'
    BY <1>0, <2>1, <2>2, <2>3 DEF QueueInv, BatchTypeOK, WorkerRecord, StatusRecord
  <2>6. ShownIsTrue'
    BY <1>2, <2>2, <2>3, <2>4 DEF ShownIsTrue, Shown
  <2>7. ASSUME NEW c \in Batch PROVE OfBatch(c)'
    <3>1. OfBatch(c)
      BY DEF QueueInv
    <3>2. CASE c = active
      <4>1. ~ (c > active)
        BY <1>0, <3>2
      <4>. QED
        BY <2>2, <2>3, <2>4, <3>1, <3>2, <4>1
           DEF OfBatch, HasWaves, Heard, Unborn, Counts, Counted, AtWork
    <3>3. CASE c # active
      BY <2>3, <2>4, <3>1, <3>3 DEF OfBatch, HasWaves, Heard, Unborn, Counts, Counted, AtWork
    <3>. QED BY <3>2, <3>3
  <2>. QED BY <2>5, <2>6, <2>7 DEF QueueInv
<1>. QED BY <1>1, <1>2

-----------------------------------------------------------------------------
\* Steps of a worker that launch nothing: where it goes next, and whether the status says
\* that it waits or which wave it is in.
LEMMA PassingStep ==
    ASSUME QueueInv, NEW b \in Batch,
           \/ DelayEnds(b) \/ PollAgain(b) \/ PollEnds(b)
           \/ \E check \in BOOLEAN : PauseEnds(b, check)
    PROVE  QueueInv'
<1>0. /\ worker[b] \in WorkerRecord /\ status[b] \in StatusRecord /\ OfBatch(b)
      /\ worker \in [Batch -> WorkerRecord] /\ status = [status EXCEPT ![b] = status[b]]
  BY Typed
<1>1. worker[b].pc \in {"delay", "polling", "pausing"}
  BY DEF DelayEnds, PollAgain, PollEnds, PauseEnds
<1>2. ASSUME NEW p \in {"take", "polling", "leaving"}, NEW n \in 0 .. MaxPolls,
             worker' = [worker EXCEPT ![b] = [worker[b] EXCEPT !.pc = p, !.polls = n]],
             p # "take" => WaveSize > 0,
             UNCHANGED <<status, cancel, active>>
      PROVE  QueueInv'
  <2> DEFINE w == [worker[b] EXCEPT !.pc = p, !.polls = n]
  <2>1. /\ w \in WorkerRecord /\ w.pc = p
        /\ w.total = worker[b].total /\ w.index = worker[b].index
    BY <1>0 DEF WorkerRecord
  <2>2. status' = [status EXCEPT ![b] = status[b]]
    BY <1>0, <1>2
  <2>3. AtWork(b) /\ worker[b].index = status[b].launched + status[b].failed + 0
    BY <1>0, <1>1 DEF AtWork, OfBatch, Counts, Counted
  <2>4. status[b].in_progress <=> (status[b].in_progress /\ w.pc # "done")
    BY <1>0, <2>1 DEF StatusRecord
  <2> HIDE DEF w
  <2>. QED BY <1>0, <1>2, <2>1, <2>2, <2>3, <2>4, WorkerOnly DEF w
<1>3. worker[b].polls \in 0 .. MaxPolls /\ 0 \in 0 .. MaxPolls
  BY <1>0, BatchAssumption DEF WorkerRecord
<1>4. CASE DelayEnds(b) \/ PollEnds(b)
  <2>1. PICK p \in {"take", "leaving"} :
          worker' = [worker EXCEPT ![b].pc = p] /\ (p # "take" => WaveSize > 0)
    BY <1>0, <1>4 DEF DelayEnds, PollEnds, OfBatch, HasWaves
  <2>2. worker' = [worker EXCEPT ![b] = [worker[b] EXCEPT !.pc = p]]
    BY <1>0, <2>1
  <2>3. [worker[b] EXCEPT !.pc = p] = [worker[b] EXCEPT !.pc = p, !.polls = worker[b].polls]
    BY <1>0 DEF WorkerRecord
  <2>. QED BY <1>2, <1>3, <1>4, <2>1, <2>2, <2>3 DEF DelayEnds, PollEnds
<1>5. CASE PollAgain(b)
  <2>1. worker[b].polls + 1 \in 0 .. MaxPolls
    BY <1>3, <1>5, BatchAssumption DEF PollAgain, MayPoll
  <2> DEFINE n == worker[b].polls + 1
  <2>2. worker' = [worker EXCEPT ![b] = [worker[b] EXCEPT !.polls = n]]
    BY <1>0, <1>5 DEF PollAgain, MayPoll
  <2>3. [worker[b] EXCEPT !.polls = n] = [worker[b] EXCEPT !.pc = "polling", !.polls = n]
    BY <1>0, <1>5 DEF PollAgain, WorkerRecord
  <2>4. WaveSize > 0
    BY <1>0, <1>5 DEF PollAgain, OfBatch, HasWaves
  <2>. QED BY <1>2, <1>5, <2>1, <2>2, <2>3, <2>4 DEF PollAgain
<1>6. CASE \E check \in BOOLEAN : PauseEnds(b, check)
  <2>1. PICK p \in {"polling", "leaving"} :
          worker' = [worker EXCEPT ![b].pc = p, ![b].polls = 0] /\ WaveSize > 0
    BY <1>0, <1>6 DEF PauseEnds, OfBatch, HasWaves
  <2>2. worker' = [worker EXCEPT ![b] = [worker[b] EXCEPT !.pc = p, !.polls = 0]]
    BY <1>0, <2>1
  <2>. QED BY <1>2, <1>3, <1>6, <2>1, <2>2 DEF PauseEnds
<1>. QED BY <1>4, <1>5, <1>6

\* A worker takes the next account only when its own event is not set.
LEMMA TakeStep ==
    ASSUME QueueInv, NEW b \in Batch, TakeNext(b)
    PROVE  QueueInv'
<1> DEFINE p == IF Cancelled(b) THEN "ending" ELSE "launching"
           i == IF Cancelled(b) THEN worker[b].index ELSE worker[b].index + 1
           w == [worker[b] EXCEPT !.pc = p, !.index = i]
<1>0. /\ worker[b] \in WorkerRecord /\ status[b] \in StatusRecord /\ OfBatch(b)
      /\ worker \in [Batch -> WorkerRecord] /\ status = [status EXCEPT ![b] = status[b]]
  BY Typed
<1>1. worker' = [worker EXCEPT ![b] = w]
  BY <1>0 DEF TakeNext
<1>2. /\ w \in WorkerRecord /\ w.total = worker[b].total
      /\ w.pc = IF Cancelled(b) THEN "ending" ELSE "launching"
      /\ w.index = worker[b].index + IF Cancelled(b) THEN 0 ELSE 1
  <2>1. worker[b].index \in Nat
    BY <1>0 DEF WorkerRecord
  <2>2. /\ p \in {"ending", "launching"} /\ i \in Nat
        /\ i = worker[b].index + IF Cancelled(b) THEN 0 ELSE 1
    BY <2>1
  <2> HIDE DEF p, i
  <2>3. w \in WorkerRecord /\ w.total = worker[b].total /\ w.pc = p /\ w.index = i
    BY <1>0, <2>2 DEF WorkerRecord
  <2>. QED BY <2>2, <2>3 DEF p
<1> HIDE DEF p, i, w
<1>3. AtWork(b) /\ worker[b].index = status[b].launched + status[b].failed
  BY <1>0 DEF AtWork, TakeNext, OfBatch, Counts, Counted, StatusRecord
<1>4. /\ status[b].in_progress <=> (status[b].in_progress /\ w.pc # "done")
      /\ w.index = status[b].launched + status[b].failed
                     + IF w.pc = "launching" THEN 1 ELSE 0
  BY <1>0, <1>2, <1>3 DEF StatusRecord
<1>5. w.pc \notin {"none", "done"} /\ (w.pc = "ending" => b \in cancel)
  BY <1>2 DEF Cancelled
<1>6. status' = [status EXCEPT ![b] = status[b]] /\ UNCHANGED <<cancel, active>>
  BY <1>0 DEF TakeNext
<1>. QED BY <1>0, <1>1, <1>2, <1>3, <1>4, <1>5, <1>6, WorkerOnly

\* A launch that returned is counted, and the worker ends only after the last account.
LEMMA LaunchStep ==
    ASSUME QueueInv, NEW b \in Batch, NEW accepted \in BOOLEAN, LaunchReturns(b, accepted)
    PROVE  QueueInv'
<1>0. /\ worker[b] \in WorkerRecord /\ status[b] \in StatusRecord /\ OfBatch(b)
      /\ worker \in [Batch -> WorkerRecord] /\ status \in [Batch -> StatusRecord]
  BY Typed
<1>1. PICK p \in {"ending", "pausing", "delay"} :
        /\ p = AfterLaunch(b)
        /\ p = "ending" => worker[b].index = worker[b].total
        /\ p = "pausing" => WaveSize > 0
  BY DEF AfterLaunch, Boundary
<1> DEFINE good == IF accepted THEN status[b].launched + 1 ELSE status[b].launched
           bad == IF accepted THEN status[b].failed ELSE status[b].failed + 1
           waits == p = "pausing"
           w == [worker[b] EXCEPT !.pc = p]
           s == [status[b] EXCEPT !.launched = good, !.failed = bad, !.waiting = waits]
<1>2. worker' = [worker EXCEPT ![b] = w]
  BY <1>0, <1>1 DEF LaunchReturns
<1>3. status' = [status EXCEPT ![b] = s]
  BY <1>0, <1>1 DEF LaunchReturns, FailuresWithThis
<1>4. /\ w \in WorkerRecord /\ w.pc = p
      /\ w.total = worker[b].total /\ w.index = worker[b].index
  BY <1>0 DEF WorkerRecord
<1>5. /\ s \in StatusRecord /\ s.in_progress = status[b].in_progress
      /\ s.launched + s.failed = status[b].launched + status[b].failed + 1
  <2>1. status[b].launched \in Nat /\ status[b].failed \in Nat
    BY <1>0 DEF StatusRecord
  <2>2. /\ good \in Nat /\ bad \in Nat /\ waits \in BOOLEAN
        /\ good + bad = status[b].launched + status[b].failed + 1
    BY <2>1
  <2> HIDE DEF good, bad, waits
  <2>. QED BY <1>0, <2>2 DEF StatusRecord
<1> HIDE DEF good, bad, waits
<1> HIDE DEF w, s
<1>6. AtWork(b) /\ worker[b].index = status[b].launched + status[b].failed + 1
  BY <1>0 DEF AtWork, LaunchReturns, OfBatch, Counts, Counted
<1>7. /\ s.in_progress <=> (status[b].in_progress /\ w.pc # "done")
      /\ w.index = s.launched + s.failed + IF w.pc = "launching" THEN 1 ELSE 0
  BY <1>0, <1>4, <1>5, <1>6 DEF StatusRecord, WorkerRecord
<1>8. /\ w.pc # "none"
      /\ w.pc \in {"ending", "done"} => s.launched + s.failed = w.total
      /\ w.pc \in {"pausing", "polling", "leaving"} => WaveSize > 0
  BY <1>1, <1>4, <1>5, <1>6
<1>. QED BY <1>2, <1>3, <1>4, <1>5, <1>6, <1>7, <1>8, WorkerOnly DEF LaunchReturns

\* Between two waves only the wave's number and the waiting flag move.
LEMMA LeaveStep ==
    ASSUME QueueInv, NEW b \in Batch, LeaveWave(b)
    PROVE  QueueInv'
<1> DEFINE w == [worker[b] EXCEPT !.pc = "take"]
           s == [status[b] EXCEPT !.waiting = FALSE,
                                  !.wave = IF Cancelled(b) THEN @ ELSE WaveAfter(worker[b].index)]
<1>0. /\ worker[b] \in WorkerRecord /\ status[b] \in StatusRecord /\ OfBatch(b)
      /\ worker \in [Batch -> WorkerRecord] /\ status \in [Batch -> StatusRecord]
  BY Typed
<1>1. worker' = [worker EXCEPT ![b] = w] /\ status' = [status EXCEPT ![b] = s]
  BY <1>0 DEF LeaveWave
<1>2. /\ w \in WorkerRecord /\ w.pc = "take"
      /\ w.total = worker[b].total /\ w.index = worker[b].index
  BY <1>0 DEF WorkerRecord
<1>3. /\ s \in StatusRecord /\ s.in_progress = status[b].in_progress
      /\ s.launched = status[b].launched /\ s.failed = status[b].failed
  <2>1. WaveSize > 0 /\ worker[b].index \in Nat
    BY <1>0 DEF LeaveWave, OfBatch, HasWaves, WorkerRecord
  <2>2. WaveAfter(worker[b].index) \in Nat
    BY <2>1, BatchAssumption DEF WaveAfter
  <2>. QED BY <1>0, <2>2 DEF StatusRecord
<1> HIDE DEF w, s
<1>4. AtWork(b) /\ worker[b].index = status[b].launched + status[b].failed + 0
  BY <1>0 DEF AtWork, LeaveWave, OfBatch, Counts, Counted
<1>5. /\ s.in_progress <=> (status[b].in_progress /\ w.pc # "done")
      /\ w.index = s.launched + s.failed + IF w.pc = "launching" THEN 1 ELSE 0
  BY <1>0, <1>2, <1>3, <1>4 DEF StatusRecord
<1>. QED BY <1>1, <1>2, <1>3, <1>4, <1>5, WorkerOnly DEF LeaveWave

\* The worker ends: it shows its own batch as over, and no other.
LEMMA EndStep ==
    ASSUME QueueInv, NEW b \in Batch, EndBatch(b)
    PROVE  QueueInv'
<1> DEFINE w == [worker[b] EXCEPT !.pc = "done"]
           s == [status[b] EXCEPT !.in_progress = FALSE]
<1>0. /\ worker[b] \in WorkerRecord /\ status[b] \in StatusRecord /\ OfBatch(b)
      /\ worker \in [Batch -> WorkerRecord] /\ status \in [Batch -> StatusRecord]
  BY Typed
<1>1. worker' = [worker EXCEPT ![b] = w] /\ status' = [status EXCEPT ![b] = s]
  BY <1>0 DEF EndBatch, Ends
<1>2. /\ w \in WorkerRecord /\ w.pc = "done"
      /\ w.total = worker[b].total /\ w.index = worker[b].index
  BY <1>0 DEF WorkerRecord
<1>3. /\ s \in StatusRecord /\ ~ s.in_progress /\ s.in_progress \in BOOLEAN
      /\ s.launched = status[b].launched /\ s.failed = status[b].failed
  BY <1>0 DEF StatusRecord
<1> HIDE DEF w, s
<1>4. /\ AtWork(b) /\ worker[b].index = status[b].launched + status[b].failed + 0
      /\ b \notin cancel => status[b].launched + status[b].failed = worker[b].total
  BY <1>0 DEF AtWork, EndBatch, OfBatch, Counts, Counted
<1>5. /\ s.in_progress <=> (status[b].in_progress /\ w.pc # "done")
      /\ w.index = s.launched + s.failed + IF w.pc = "launching" THEN 1 ELSE 0
  BY <1>2, <1>3, <1>4
<1>. QED BY <1>1, <1>2, <1>3, <1>4, <1>5, WorkerOnly DEF EndBatch

-----------------------------------------------------------------------------
LEMMA QueueStep == QueueInv /\ [BatchNext]_batchVars => QueueInv'
<1> SUFFICES ASSUME QueueInv, [BatchNext]_batchVars PROVE QueueInv'
  OBVIOUS
<1>1. CASE UNCHANGED batchVars
  BY <1>1 DEF batchVars, QueueInv, BatchTypeOK, ShownIsTrue, Shown, OfBatch, HasWaves, Heard,
              Unborn, Counts, Counted, AtWork
<1>2. CASE \E n \in 1 .. MaxQueue : StartBatch(n)
  BY <1>2, StartStep
<1>3. CASE CancelBatch
  BY <1>3, CancelStep
<1>4. ASSUME NEW b \in Batch, WorkerStep(b) \/ PollEnds(b) PROVE QueueInv'
  BY <1>4, TakeStep, LaunchStep, PassingStep, LeaveStep, EndStep DEF WorkerStep
<1>. QED BY <1>1, <1>2, <1>3, <1>4 DEF BatchNext

\* A worker that takes an account is alive and not cancelled, so it is the latest one; the
\* index of a batch that is only started now was 0 before.
LEMMA OneTakes ==
    ASSUME QueueInv, [BatchNext]_batchVars, NEW b \in Batch,
           worker'[b].index # worker[b].index
    PROVE  b = active
<1>0. /\ OfBatch(b) /\ worker \in [Batch -> WorkerRecord] /\ active \in 0 .. MaxBatches
      /\ \A c \in Batch : worker[c] \in WorkerRecord
  BY DEF QueueInv, BatchTypeOK, WorkerRecord
<1>1. CASE TakeNext(b)
  <2>1. ~ Cancelled(b)
    BY <1>0, <1>1 DEF TakeNext, WorkerRecord
  <2>. QED BY <1>0, <1>1, <2>1 DEF TakeNext, Cancelled, OfBatch, Heard, AtWork
<1>2. CASE \E n \in 1 .. MaxQueue : StartBatch(n)
  <2>1. PICK n \in 1 .. MaxQueue : StartBatch(n)
    BY <1>2
  <2> DEFINE w == [NoWorker EXCEPT !.pc = "take", !.total = n]
  <2>2. w.index = 0 /\ worker' = [worker EXCEPT ![active + 1] = w]
    BY <2>1, Records DEF StartBatch, WorkerRecord
  <2> HIDE DEF w
  <2>3. CASE b = active + 1
    <3>1. worker[b] = NoWorker
      BY <1>0, <2>3 DEF OfBatch, Unborn
    <3>2. worker'[b] = w
      BY <1>0, <2>2, <2>3
    <3>. QED BY <2>2, <3>1, <3>2, Records
  <2>4. CASE b # active + 1
    BY <1>0, <2>2, <2>4
  <2>. QED BY <2>3, <2>4
<1>3. CASE UNCHANGED worker
  BY <1>3
<1>4. ASSUME NEW c \in Batch, TakeNext(c), c # b PROVE FALSE
  BY <1>0, <1>4 DEF TakeNext
<1>5. ASSUME NEW c \in Batch,
             \/ \E accepted \in BOOLEAN : LaunchReturns(c, accepted)
             \/ DelayEnds(c) \/ PollEnds(c) \/ LeaveWave(c) \/ EndBatch(c)
      PROVE  FALSE
  <2>1. \E p : worker' = [worker EXCEPT ![c].pc = p]
    BY <1>5 DEF LaunchReturns, DelayEnds, PollEnds, LeaveWave, EndBatch
  <2>. QED BY <1>0, <2>1 DEF WorkerRecord
<1>6. ASSUME NEW c \in Batch, PollAgain(c) PROVE FALSE
  BY <1>0, <1>6 DEF PollAgain, WorkerRecord
<1>7. ASSUME NEW c \in Batch, NEW check \in BOOLEAN, PauseEnds(c, check) PROVE FALSE
  <2>1. \E p : worker' = [worker EXCEPT ![c].pc = p, ![c].polls = 0]
    BY <1>7 DEF PauseEnds
  <2>. QED BY <1>0, <2>1 DEF WorkerRecord
<1>. QED
  BY <1>1, <1>2, <1>3, <1>4, <1>5, <1>6, <1>7 DEF BatchNext, WorkerStep, CancelBatch, batchVars

LEMMA QueueInvariant == BatchSpec => []QueueInv
BY QueueInit, QueueStep, PTL DEF BatchSpec

\* Every variable of the queue keeps its shape.
THEOREM BatchTypes == BatchSpec => []BatchTypeOK
<1>1. QueueInv => BatchTypeOK
  BY DEF QueueInv
<1>. QED BY <1>1, QueueInvariant, PTL

\* For any number of batches: get_status says that the latest batch is in progress exactly
\* while its worker is alive and it is not cancelled (batch_launcher.py, start_batch,
\* cancel_batch and the end of _run_batch).
THEOREM StatusIsTrue == BatchSpec => []ShownIsTrue
<1>1. QueueInv => ShownIsTrue
  BY DEF QueueInv
<1>. QED BY <1>1, QueueInvariant, PTL

\* For batches of any length: an account is counted once, and a batch that nobody cancelled
\* ends with all of its accounts counted (batch_launcher.py, _run_batch).
THEOREM EveryAccountCounted == BatchSpec => []CountsAgree
<1>1. QueueInv => CountsAgree
  BY DEF QueueInv, OfBatch, Counts, Counted, CountsAgree
<1>. QED BY <1>1, QueueInvariant, PTL

\* For any number of batches and workers: no worker but the latest takes a further account
\* (batch_launcher.py, the check of the event at the head of the loop of _run_batch).
THEOREM OnlyOneQueue == BatchSpec => OneQueue
<1>1. QueueInv /\ [BatchNext]_batchVars
        => [\A b \in Batch : worker'[b].index # worker[b].index => b = active]_batchVars
  BY OneTakes
<1>. QED BY <1>1, QueueInvariant, PTL DEF BatchSpec, OneQueue

-----------------------------------------------------------------------------
(* The waves.  Division is handled by three lemmas, and nowhere else. *)

LEMMA DivisionIs ==
    ASSUME NEW w \in Nat, w > 0, NEW q \in Int, NEW n \in Int, w * q <= n, n < w * q + w
    PROVE  n \div w = q
OBVIOUS

LEMMA NextWave ==
    ASSUME NEW w \in Nat, w > 0, NEW i \in Nat
    PROVE  (i + w) \div w = i \div w + 1
OBVIOUS

\* Within a wave the next account belongs to the wave of this one.
LEMMA SameWave ==
    ASSUME NEW w \in Nat, w > 0, NEW i \in Nat, i % w # 0
    PROVE  (i + w - 1) \div w = (i + w) \div w
<1> DEFINE q == i \div w
           r == i % w
<1>1. q \in Nat /\ r \in 0 .. (w - 1) /\ i = w * q + r
  OBVIOUS
<1>2. r > 0
  BY <1>1
<1> HIDE DEF q, r
<1>3. w * (q + 1) = w * q + w /\ w * q \in Nat
  BY <1>1
<1>4. w * (q + 1) <= i + w - 1 /\ i + w < w * (q + 1) + w
  BY <1>1, <1>2, <1>3
<1>5. (i + w - 1) \div w = q + 1 /\ (i + w) \div w = q + 1
  BY <1>1, <1>3, <1>4, DivisionIs
<1>. QED BY <1>5

\* The number that is shown is the wave of the account being launched, or else of the next.
Numbered(b) ==
    (WaveSize > 0 /\ b \notin cancel) =>
        /\ worker[b].pc = "launching" =>
             status[b].wave = (worker[b].index + WaveSize - 1) \div WaveSize
        /\ worker[b].pc \in {"take", "delay"} =>
             status[b].wave = (worker[b].index + WaveSize) \div WaveSize

WaveInv == QueueInv /\ \A b \in Batch : Numbered(b)

LEMMA WaveInit == BatchInit => WaveInv
BY QueueInit, Records DEF WaveInv, Numbered, BatchInit

\* Another batch than the one that moves keeps its number.
LEMMA OtherNumbered ==
    ASSUME WaveInv, NEW b \in Batch, NEW c, c # b, NEW w, NEW s,
           worker' = [worker EXCEPT ![c] = w], status' = [status EXCEPT ![c] = s],
           b \notin cancel' => b \notin cancel
    PROVE  Numbered(b)'
<1>1. worker'[b] = worker[b] /\ status'[b] = status[b] /\ Numbered(b)
  BY Typed DEF WaveInv
<1>. QED BY <1>1 DEF Numbered

LEMMA StartNumbers ==
    ASSUME WaveInv, NEW b \in Batch, NEW n \in 1 .. MaxQueue, StartBatch(n)
    PROVE  Numbered(b)'
<1> DEFINE w == [NoWorker EXCEPT !.pc = "take", !.total = n]
           s == [NoStatus EXCEPT !.in_progress = TRUE, !.wave = IF WaveSize > 0 THEN 1 ELSE 0]
<1>1. worker' = [worker EXCEPT ![active + 1] = w] /\ status' = [status EXCEPT ![active + 1] = s]
      /\ cancel' = cancel
  BY DEF StartBatch
<1>2. w.pc = "take" /\ w.index = 0 /\ s.wave = IF WaveSize > 0 THEN 1 ELSE 0
  BY DEF NoWorker, NoStatus
<1> HIDE DEF w, s
<1>3. CASE b # active + 1
  BY <1>1, <1>3, OtherNumbered
<1>4. CASE b = active + 1
  <2>1. worker'[b] = w /\ status'[b] = s
    BY <1>1, <1>4, Typed DEF WaveInv
  <2>2. WaveSize > 0 => (0 + WaveSize) \div WaveSize = 1
    BY BatchAssumption, DivisionIs
  <2>. QED BY <1>2, <2>1, <2>2 DEF Numbered
<1>. QED BY <1>3, <1>4

\* What the worker of a batch does to its own number.
LEMMA WorkerNumbers ==
    ASSUME WaveInv, NEW b \in Batch, WorkerStep(b) \/ PollEnds(b)
    PROVE  Numbered(b)'
<1>0. /\ worker[b] \in WorkerRecord /\ status[b] \in StatusRecord /\ Numbered(b)
      /\ worker \in [Batch -> WorkerRecord] /\ status \in [Batch -> StatusRecord]
  BY Typed DEF WaveInv
<1>1. worker[b].index \in Nat /\ WaveSize \in Nat
  BY <1>0, BatchAssumption DEF WorkerRecord
<1> DEFINE i == worker[b].index
<1>2. CASE TakeNext(b)
  <2>1. status'[b] = status[b] /\ cancel' = cancel /\ worker[b].pc = "take"
    BY <1>2 DEF TakeNext
  <2>2. b \notin cancel => worker'[b].pc = "launching" /\ worker'[b].index = i + 1
    BY <1>0, <1>2 DEF TakeNext, Cancelled, WorkerRecord
  <2>3. i + 1 + WaveSize - 1 = i + WaveSize
    BY <1>1
  <2>. QED BY <1>0, <2>1, <2>2, <2>3 DEF Numbered
<1>3. CASE \E accepted \in BOOLEAN : LaunchReturns(b, accepted)
  <2>1. /\ worker'[b].pc = AfterLaunch(b) /\ worker'[b].index = i
        /\ status'[b].wave = status[b].wave
        /\ cancel' = cancel /\ worker[b].pc = "launching"
    BY <1>0, <1>3 DEF LaunchReturns, WorkerRecord, StatusRecord
  <2>2. CASE AfterLaunch(b) = "delay" /\ WaveSize > 0 /\ b \notin cancel
    <3>1. i % WaveSize # 0
      BY <2>2 DEF AfterLaunch, Boundary
    <3>2. (i + WaveSize - 1) \div WaveSize = (i + WaveSize) \div WaveSize
      BY <1>1, <2>2, <3>1, SameWave
    <3>. QED BY <1>0, <2>1, <2>2, <3>2 DEF Numbered
  <2>3. AfterLaunch(b) \notin {"launching", "take"}
    BY DEF AfterLaunch
  <2>. QED BY <2>1, <2>2, <2>3 DEF Numbered
<1>4. CASE DelayEnds(b)
  BY <1>0, <1>4 DEF DelayEnds, Numbered, WorkerRecord
<1>5. CASE \/ \E check \in BOOLEAN : PauseEnds(b, check)
           \/ PollAgain(b) \/ PollEnds(b) \/ EndBatch(b)
  <2>1. CASE PollAgain(b)
    BY <1>0, <2>1 DEF PollAgain, Numbered, WorkerRecord
  <2>2. CASE \E check \in BOOLEAN : PauseEnds(b, check)
    <3>1. worker'[b].pc \in {"polling", "leaving"}
      BY <1>0, <2>2 DEF PauseEnds, WorkerRecord
    <3>. QED BY <3>1 DEF Numbered
  <2>3. CASE PollEnds(b) \/ EndBatch(b)
    <3>1. worker'[b].pc \in {"leaving", "done"}
      BY <1>0, <2>3 DEF PollEnds, EndBatch, WorkerRecord
    <3>. QED BY <3>1 DEF Numbered
  <2>. QED BY <1>5, <2>1, <2>2, <2>3
<1>6. CASE LeaveWave(b)
  <2>1. /\ worker'[b].pc = "take" /\ worker'[b].index = i /\ cancel' = cancel
        /\ b \notin cancel => status'[b].wave = i \div WaveSize + 1
    BY <1>0, <1>6 DEF LeaveWave, Cancelled, WaveAfter, WorkerRecord, StatusRecord
  <2>2. WaveSize > 0 => (i + WaveSize) \div WaveSize = i \div WaveSize + 1
    BY <1>1, NextWave
  <2>. QED BY <2>1, <2>2 DEF Numbered
<1>. QED BY <1>2, <1>3, <1>4, <1>5, <1>6 DEF WorkerStep

\* A worker changes its own records only.
LEMMA OwnRecords ==
    ASSUME WaveInv, NEW c \in Batch, WorkerStep(c) \/ PollEnds(c)
    PROVE  /\ \E w : worker' = [worker EXCEPT ![c] = w]
           /\ \E s : status' = [status EXCEPT ![c] = s]
           /\ cancel' = cancel
<1>0. /\ worker \in [Batch -> WorkerRecord] /\ status \in [Batch -> StatusRecord]
      /\ worker[c] \in WorkerRecord /\ status = [status EXCEPT ![c] = status[c]]
  BY Typed DEF WaveInv
<1>1. cancel' = cancel
  BY DEF WorkerStep, TakeNext, LaunchReturns, DelayEnds, PauseEnds, PollAgain, PollEnds,
         LeaveWave, EndBatch
<1>2. worker' = [worker EXCEPT ![c] = worker'[c]]
  BY <1>0 DEF WorkerStep, TakeNext, LaunchReturns, DelayEnds, PauseEnds, PollAgain, PollEnds,
              LeaveWave, EndBatch
<1>3. status' = [status EXCEPT ![c] = status'[c]]
  BY <1>0 DEF WorkerStep, TakeNext, LaunchReturns, DelayEnds, PauseEnds, PollAgain, PollEnds,
              LeaveWave, EndBatch, Ends
<1>. QED BY <1>1, <1>2, <1>3

LEMMA WaveStep == WaveInv /\ [BatchNext]_batchVars => WaveInv'
<1> SUFFICES ASSUME WaveInv, [BatchNext]_batchVars PROVE WaveInv'
  OBVIOUS
<1>1. QueueInv'
  BY QueueStep DEF WaveInv
<1>2. ASSUME NEW b \in Batch PROVE Numbered(b)'
  <2>1. CASE UNCHANGED batchVars
    BY <2>1 DEF batchVars, WaveInv, Numbered
  <2>2. CASE \E n \in 1 .. MaxQueue : StartBatch(n)
    BY <2>2, StartNumbers
  <2>3. CASE CancelBatch
    <3>1. status'[b].wave = status[b].wave /\ worker' = worker
      BY <2>3, Typed DEF WaveInv, CancelBatch, StatusRecord
    <3>2. b \notin cancel' => b \notin cancel
      BY <2>3 DEF CancelBatch
    <3>. QED BY <3>1, <3>2 DEF WaveInv, Numbered
  <2>4. ASSUME NEW c \in Batch, WorkerStep(c) \/ PollEnds(c) PROVE Numbered(b)'
    <3>1. CASE c = b
      BY <2>4, <3>1, WorkerNumbers
    <3>2. CASE c # b
      BY <2>4, <3>2, OwnRecords, OtherNumbered
    <3>. QED BY <3>1, <3>2
  <2>. QED BY <2>1, <2>2, <2>3, <2>4 DEF BatchNext
<1>. QED BY <1>1, <1>2 DEF WaveInv

LEMMA WaveInvariant == BatchSpec => []WaveInv
BY WaveInit, WaveStep, PTL DEF BatchSpec

\* For batches and waves of any size: the wave that get_status shows is the one that the
\* account being launched belongs to, unless the batch was cancelled (batch_launcher.py, the
\* boundary test of _run_batch and the number that _wait_for_wave leaves).
THEOREM WavesAreNumbered == BatchSpec => []WaveIsRight
<1>1. WaveInv => WaveIsRight
  BY DEF WaveInv, Numbered, WaveIsRight
<1>. QED BY <1>1, WaveInvariant, PTL

(***************************************************************************)
(* The macro engine.                                                       *)
(***************************************************************************)

KeyboardInv == EngineTypeOK /\ KeysAreOwners /\ SessionFits

\* The part of SessionFits that is about one run.
Fits(r) ==
    /\ owner = r <=> thread[r].session # NoClient
    /\ owner = r => /\ thread[r].session = thread[r].client
                    /\ thread[r].pc \in {"next", "parked", "pressing", "ending"}

Place == {"idle", "verify", "locking", "next", "parked", "pressing",
          "control", "repin", "ending", "finished"}

ThreadRecord ==
    [pc : Place, client : Clients \cup {NoClient}, session : Clients \cup {NoClient},
     key : Keys \cup {"none"}, cancel : BOOLEAN, paused : BOOLEAN, step : 0 .. MaxActions]

-----------------------------------------------------------------------------
\* The fields of a run that has not started, and of one that has finished.
LEMMA FreshRecord == Fresh \in ThreadRecord /\ Fresh.session = NoClient
BY EngineAssumption DEF Fresh, ThreadRecord, Place

\* A step of one thread that touches neither the lock nor a key keeps the invariant, when the
\* thread's session stays and a thread that has one stays where a session may be.  This is
\* what most of the actions of _execute_actions do.
LEMMA ThreadOnly ==
    ASSUME KeyboardInv, NEW r \in Runs, NEW t \in ThreadRecord,
           thread' = [thread EXCEPT ![r] = t],
           UNCHANGED <<owner, down>>, life' \in [Clients -> {"unborn", "open", "gone"}],
           t.session = thread[r].session,
           t.session # NoClient => /\ t.client = thread[r].client
                                   /\ t.pc \in {"next", "parked", "pressing", "ending"}
    PROVE  KeyboardInv'
<1>1. EngineTypeOK'
  BY DEF KeyboardInv, EngineTypeOK, ThreadRecord, Place
<1>2. KeysAreOwners'
  BY DEF KeyboardInv, KeysAreOwners
<1>3. SessionFits'
  <2> SUFFICES ASSUME NEW s \in Runs PROVE Fits(s)'
    BY DEF SessionFits, Fits
  <2>1. Fits(s)
    BY DEF KeyboardInv, SessionFits, Fits
  <2>2. CASE s = r
    <3>1. thread'[s] = t
      BY <2>2 DEF KeyboardInv, EngineTypeOK
    <3>. QED BY <2>1, <2>2, <3>1 DEF Fits
  <2>3. CASE s # r
    <3>1. thread'[s] = thread[s]
      BY <2>3 DEF KeyboardInv, EngineTypeOK
    <3>. QED BY <2>1, <3>1 DEF Fits
  <2>. QED BY <2>2, <2>3
<1>. QED BY <1>1, <1>2, <1>3 DEF KeyboardInv

\* end_run, with what its two callers do to the thread: afterwards the run holds neither the
\* lock nor a key, and the lock and the keys of any other run are as they were.
LEMMA EndRunLetsGo ==
    ASSUME KeyboardInv, NEW r \in Runs, NEW t \in ThreadRecord,
           EndRun(r), thread' = [thread EXCEPT ![r] = t],
           t.session = NoClient, UNCHANGED life
    PROVE  KeyboardInv'
<1>1. owner = r <=> thread[r].session # NoClient
  BY DEF KeyboardInv, SessionFits
<1>2. /\ owner' = IF owner = r THEN NoThread ELSE owner
      /\ down' = IF owner = r THEN KeysUp(r) ELSE down
  BY <1>1 DEF EndRun
<1>3. down' \in [Keys -> Runs \cup {NoThread}]
  BY <1>2 DEF KeyboardInv, EngineTypeOK, KeysUp
<1>4. EngineTypeOK'
  BY <1>2, <1>3 DEF KeyboardInv, EngineTypeOK, ThreadRecord, Place
<1>5. KeysAreOwners'
  BY <1>2 DEF KeyboardInv, KeysAreOwners, KeysUp, EngineTypeOK
<1>6. SessionFits'
  <2> SUFFICES ASSUME NEW s \in Runs PROVE Fits(s)'
    BY DEF SessionFits, Fits
  <2>1. Fits(s) /\ s # NoThread
    BY EngineAssumption DEF KeyboardInv, SessionFits, Fits
  <2>2. CASE s = r
    <3>1. thread'[s].session = NoClient
      BY <2>2 DEF KeyboardInv, EngineTypeOK
    <3>2. owner' # s
      BY <1>2, <2>1, <2>2
    <3>. QED BY <3>1, <3>2 DEF Fits
  <2>3. CASE s # r
    <3>1. thread'[s] = thread[s]
      BY <2>3 DEF KeyboardInv, EngineTypeOK
    <3>2. owner' = s <=> owner = s
      BY <1>2, <2>1, <2>3
    <3>. QED BY <2>1, <3>1, <3>2 DEF Fits
  <2>. QED BY <2>2, <2>3
<1>. QED BY <1>4, <1>5, <1>6 DEF KeyboardInv

-----------------------------------------------------------------------------
LEMMA KeyboardInit == EngineInit => KeyboardInv
<1> SUFFICES ASSUME EngineInit PROVE KeyboardInv
  OBVIOUS
<1>1. EngineTypeOK
  BY EngineAssumption DEF EngineInit, EngineTypeOK, Fresh
<1>2. KeysAreOwners
  BY DEF EngineInit, KeysAreOwners
<1>3. SessionFits
  BY EngineAssumption DEF EngineInit, SessionFits, Fresh
<1>. QED BY <1>1, <1>2, <1>3 DEF KeyboardInv

\* Clients come and go without a thread noticing.
LEMMA ClientStep ==
    ASSUME KeyboardInv, NEW c \in Clients, ClientOpens(c) \/ ClientCloses(c)
    PROVE  KeyboardInv'
BY DEF KeyboardInv, EngineTypeOK, KeysAreOwners, SessionFits, ClientOpens, ClientCloses

\* What other threads ask of a run.
LEMMA AskStep ==
    ASSUME KeyboardInv, NEW r \in Runs,
           (\E c \in Clients : Start(r, c)) \/ Stop(r) \/ Pause(r) \/ Resume(r)
    PROVE  KeyboardInv'
<1>0. thread[r] \in ThreadRecord /\ Fits(r)
  BY DEF KeyboardInv, EngineTypeOK, ThreadRecord, Place, SessionFits, Fits
<1>1. CASE \E c \in Clients : Start(r, c)
  <2>1. PICK c \in Clients : Start(r, c)
    BY <1>1
  <2> DEFINE t == [Fresh EXCEPT !.pc = "verify", !.client = c]
  <2>2. t \in ThreadRecord /\ t.session = NoClient
    BY FreshRecord DEF ThreadRecord, Place
  <2>3. thread' = [thread EXCEPT ![r] = t]
    BY <2>1 DEF Start
  <2>4. thread[r].session = NoClient
    BY <1>0, <2>1 DEF Fits, Start, At
  <2>. QED BY <2>1, <2>2, <2>3, <2>4, ThreadOnly DEF Start, KeyboardInv, EngineTypeOK
<1>2. CASE Stop(r)
  <2> DEFINE t == [thread[r] EXCEPT !.cancel = TRUE, !.paused = FALSE]
  <2>1. t \in ThreadRecord /\ t.session = thread[r].session
        /\ t.client = thread[r].client /\ t.pc = thread[r].pc
    BY <1>0 DEF ThreadRecord
  <2>2. thread' = [thread EXCEPT ![r] = t]
    BY <1>2 DEF Stop, KeyboardInv, EngineTypeOK
  <2>. QED BY <1>0, <1>2, <2>1, <2>2, ThreadOnly DEF Stop, Fits, KeyboardInv, EngineTypeOK
<1>3. CASE Pause(r) \/ Resume(r)
  <2>1. PICK b \in BOOLEAN : thread' = [thread EXCEPT ![r].paused = b]
    BY <1>3 DEF Pause, Resume
  <2> DEFINE t == [thread[r] EXCEPT !.paused = b]
  <2>2. t \in ThreadRecord /\ t.session = thread[r].session
        /\ t.client = thread[r].client /\ t.pc = thread[r].pc
    BY <1>0 DEF ThreadRecord
  <2>3. thread' = [thread EXCEPT ![r] = t]
    BY <2>1 DEF KeyboardInv, EngineTypeOK
  <2>. QED
    BY <1>0, <1>3, <2>2, <2>3, ThreadOnly DEF Pause, Resume, Fits, KeyboardInv, EngineTypeOK
<1>. QED BY <1>1, <1>2, <1>3

-----------------------------------------------------------------------------
\* A run whose own step only moves it, with its session and its client as they are.
LEMMA Moves ==
    ASSUME KeyboardInv, NEW r \in Runs, NEW p \in Place, Goes(r, p),
           UNCHANGED <<life, owner, down>>,
           thread[r].session # NoClient => p \in {"next", "parked", "pressing", "ending"}
    PROVE  KeyboardInv'
<1> DEFINE t == [thread[r] EXCEPT !.pc = p]
<1>1. thread[r] \in ThreadRecord
  BY DEF KeyboardInv, EngineTypeOK, ThreadRecord, Place
<1>2. t \in ThreadRecord /\ t.session = thread[r].session
      /\ t.client = thread[r].client /\ t.pc = p
  BY <1>1 DEF ThreadRecord
<1>3. thread' = [thread EXCEPT ![r] = t]
  BY DEF Goes, KeyboardInv, EngineTypeOK
<1>4. life' \in [Clients -> {"unborn", "open", "gone"}]
  BY DEF KeyboardInv, EngineTypeOK
<1>. QED BY <1>2, <1>3, <1>4, ThreadOnly

\* The steps of a run that move it and do nothing else.
LEMMA MoveStep ==
    ASSUME KeyboardInv, NEW r \in Runs,
           \/ Verify(r) \/ BeginRefused(r) \/ Halted(r) \/ Parks(r) \/ Wakes(r)
           \/ NoAction(r) \/ Repin(r)
    PROVE  KeyboardInv'
<1>1. Fits(r)
  BY DEF KeyboardInv, SessionFits, Fits
<1>2. CASE Verify(r)
  BY <1>1, <1>2, Moves DEF Verify, At, Fits, Place
<1>3. CASE BeginRefused(r)
  BY <1>1, <1>3, Moves DEF BeginRefused, At, Fits, Place
<1>4. CASE Halted(r)
  BY <1>1, <1>4, Moves DEF Halted, At, Fits, Place
<1>5. CASE Parks(r)
  BY <1>1, <1>5, Moves DEF Parks, At, Fits, Place
<1>6. CASE Wakes(r)
  BY <1>1, <1>6, Moves DEF Wakes, At, Fits, Place
<1>7. CASE NoAction(r)
  BY <1>1, <1>7, Moves DEF NoAction, Looked, At, Fits, Place
<1>8. CASE Repin(r)
  <2>1. PICK p \in {"ending", "next", "locking"} : Goes(r, p)
    BY <1>8 DEF Repin
  <2>2. thread[r].session = NoClient
    BY <1>1, <1>8 DEF Repin, At, Fits
  <2>. QED BY <1>8, <2>1, <2>2, Moves DEF Repin, Place
<1>. QED BY <1>2, <1>3, <1>4, <1>5, <1>6, <1>7, <1>8

-----------------------------------------------------------------------------
\* begin_run takes the lock only when nobody has it, so nobody else has a session.
LEMMA BeginRunStep ==
    ASSUME KeyboardInv, NEW r \in Runs, BeginRun(r)
    PROVE  KeyboardInv'
<1>1. thread[r] \in ThreadRecord /\ r # NoThread /\ thread[r].client # NoClient
  BY EngineAssumption DEF KeyboardInv, EngineTypeOK, ThreadRecord, Place, BeginRun, Verified
<1>2. CASE owner' = NoThread /\ Goes(r, "ending")
  BY <1>2, Moves DEF BeginRun, Place
<1>3. CASE /\ owner' = r
           /\ thread' = [thread EXCEPT ![r].pc = "next", ![r].session = thread[r].client]
  <2>1. EngineTypeOK'
    <3> DEFINE t == [thread[r] EXCEPT !.pc = "next", !.session = thread[r].client]
    <3>1. t \in ThreadRecord
      BY <1>1 DEF ThreadRecord, Place
    <3>2. thread' = [thread EXCEPT ![r] = t]
      BY <1>3 DEF KeyboardInv, EngineTypeOK
    <3>3. thread' \in [Runs -> ThreadRecord]
      BY <3>1, <3>2 DEF KeyboardInv, EngineTypeOK, ThreadRecord, Place
    <3>. QED BY <1>3, <3>3 DEF KeyboardInv, EngineTypeOK, BeginRun, ThreadRecord, Place
  <2>2. KeysAreOwners'
    BY DEF KeyboardInv, KeysAreOwners, BeginRun
  <2>3. SessionFits'
    <3> SUFFICES ASSUME NEW s \in Runs PROVE Fits(s)'
      BY DEF SessionFits, Fits
    <3>1. Fits(s) /\ owner # s
      BY EngineAssumption DEF KeyboardInv, SessionFits, Fits, BeginRun
    <3>2. CASE s = r
      <4>1. /\ thread'[s].pc = "next" /\ thread'[s].session = thread[r].client
            /\ thread'[s].client = thread[r].client
        BY <1>1, <1>3, <3>2 DEF KeyboardInv, EngineTypeOK
      <4>. QED BY <1>1, <1>3, <3>2, <4>1 DEF Fits
    <3>3. CASE s # r
      <4>1. thread'[s] = thread[s]
        BY <1>3, <3>3 DEF KeyboardInv, EngineTypeOK
      <4>. QED BY <1>3, <3>1, <3>3, <4>1 DEF Fits
    <3>. QED BY <3>2, <3>3
  <2>. QED BY <2>1, <2>2, <2>3 DEF KeyboardInv
<1>. QED BY <1>2, <1>3 DEF BeginRun

\* The lock is given back where a control action begins and where the run ends.
LEMMA EndRunStep ==
    ASSUME KeyboardInv, NEW r \in Runs, ControlBegins(r) \/ Finishes(r)
    PROVE  KeyboardInv'
<1>1. thread[r] \in ThreadRecord
  BY DEF KeyboardInv, EngineTypeOK, ThreadRecord, Place
<1>2. CASE ControlBegins(r)
  <2> DEFINE t == [thread[r] EXCEPT !.pc = "control", !.session = NoClient, !.step = @ + 1]
  <2>1. t \in ThreadRecord /\ t.session = NoClient
    <3>1. thread[r].step \in Nat /\ thread[r].step < MaxActions
      BY <1>1, <1>2, EngineAssumption DEF ThreadRecord, ControlBegins, May
    <3>2. thread[r].step + 1 \in 0 .. MaxActions
      BY <3>1, EngineAssumption
    <3>. QED BY <1>1, <3>2 DEF ThreadRecord, Place
  <2>2. thread' = [thread EXCEPT ![r] = t]
    BY <1>2 DEF ControlBegins, KeyboardInv, EngineTypeOK
  <2>. QED BY <1>2, <2>1, <2>2, EndRunLetsGo DEF ControlBegins, LetsGo
<1>3. CASE Finishes(r)
  <2> DEFINE t == [Fresh EXCEPT !.pc = "finished"]
  <2>1. t \in ThreadRecord /\ t.session = NoClient
    BY FreshRecord DEF ThreadRecord, Place
  <2>2. thread' = [thread EXCEPT ![r] = t]
    BY <1>3 DEF Finishes
  <2>. QED BY <1>3, <2>1, <2>2, EndRunLetsGo DEF Finishes
<1>. QED BY <1>2, <1>3

\* A control action finds the client the run must follow now, while the run has no session.
LEMMA ControlStep ==
    ASSUME KeyboardInv, NEW r \in Runs, ControlReturns(r)
    PROVE  KeyboardInv'
<1>1. thread[r] \in ThreadRecord /\ Fits(r)
  BY DEF KeyboardInv, EngineTypeOK, ThreadRecord, Place, SessionFits, Fits
<1>2. thread[r].session = NoClient
  BY <1>1 DEF ControlReturns, At, Fits
<1>3. CASE Goes(r, "next") \/ Goes(r, "ending")
  BY <1>2, <1>3, Moves DEF ControlReturns, Place
<1>4. ASSUME NEW c \in Clients,
             thread' = [thread EXCEPT ![r].pc = "repin", ![r].client = c]
      PROVE  KeyboardInv'
  <2> DEFINE t == [thread[r] EXCEPT !.pc = "repin", !.client = c]
  <2>1. t \in ThreadRecord /\ t.session = NoClient
    BY <1>1, <1>2 DEF ThreadRecord, Place
  <2>2. thread' = [thread EXCEPT ![r] = t]
    BY <1>4 DEF KeyboardInv, EngineTypeOK
  <2>. QED BY <1>2, <2>1, <2>2, ThreadOnly DEF ControlReturns, KeyboardInv, EngineTypeOK
<1>. QED BY <1>3, <1>4 DEF ControlReturns

-----------------------------------------------------------------------------
\* A run that presses or releases a key, or does something that leaves none down.  It has
\* the window of its session when it touches a key, and therefore the lock.
LEMMA KeyStep ==
    ASSUME KeyboardInv, NEW r \in Runs,
           \/ Passing(r)
           \/ \E k \in Keys : KeyDown(r, k) \/ KeyUp(r, k) \/ PressBegins(r, k)
           \/ PressEnds(r)
    PROVE  KeyboardInv'
<1>1. thread[r] \in ThreadRecord /\ Fits(r)
  BY DEF KeyboardInv, EngineTypeOK, ThreadRecord, Place, SessionFits, Fits
<1>2. thread[r].pc \in {"next", "pressing"} /\ thread[r].key \in Keys \cup {"none"}
  BY <1>1 DEF Passing, KeyDown, KeyUp, PressBegins, PressEnds, May, Looked, At, ThreadRecord
<1>3. CASE Refused(r)
  BY <1>3, Moves DEF Refused, Place
<1>4. ASSUME NEW p \in {"next", "pressing"}, NEW key \in Keys \cup {"none"},
             NEW n \in 0 .. MaxActions,
             thread' = [thread EXCEPT ![r] = [thread[r] EXCEPT !.pc = p, !.step = n, !.key = key]],
             life' = life, owner' = owner,
             \/ down' = down
             \/ \E k \in Keys \cup {"none"} :
                   down' = [down EXCEPT ![k] = r] \/ down' = [down EXCEPT ![k] = NoThread],
             down' # down => SessionFor(r)
      PROVE  KeyboardInv'
  <2> DEFINE t == [thread[r] EXCEPT !.pc = p, !.step = n, !.key = key]
  <2>1. t \in ThreadRecord
    BY <1>1, <1>4 DEF ThreadRecord, Place
  <2>2. t.pc = p /\ t.session = thread[r].session /\ t.client = thread[r].client
    BY <1>1 DEF ThreadRecord
  <2>3. EngineTypeOK'
    BY <2>1, <1>4 DEF KeyboardInv, EngineTypeOK, ThreadRecord, Place
  <2>4. KeysAreOwners'
    <3>1. down' # down => owner = r
      BY <1>1, <1>4 DEF SessionFor, Fits
    <3>. QED BY <1>4, <3>1 DEF KeyboardInv, KeysAreOwners, EngineTypeOK
  <2>5. SessionFits'
    <3> SUFFICES ASSUME NEW s \in Runs PROVE Fits(s)'
      BY DEF SessionFits, Fits
    <3>1. Fits(s)
      BY DEF KeyboardInv, SessionFits, Fits
    <3>2. CASE s = r
      <4>1. thread'[s] = t
        BY <1>4, <3>2 DEF KeyboardInv, EngineTypeOK
      <4>. QED BY <1>4, <2>2, <3>1, <3>2, <4>1 DEF Fits
    <3>3. CASE s # r
      <4>1. thread'[s] = thread[s]
        BY <1>4, <3>3 DEF KeyboardInv, EngineTypeOK
      <4>. QED BY <1>4, <3>1, <4>1 DEF Fits
    <3>. QED BY <3>2, <3>3
  <2>. QED BY <2>3, <2>4, <2>5 DEF KeyboardInv
<1>5. ASSUME May(r), NEW p \in {"next", "pressing"}, NEW key \in Keys \cup {"none"},
             Does(r, p, key), life' = life, owner' = owner,
             \/ down' = down
             \/ \E k \in Keys :
                   down' = [down EXCEPT ![k] = r] \/ down' = [down EXCEPT ![k] = NoThread],
             down' # down => SessionFor(r)
      PROVE  KeyboardInv'
  <2>1. thread[r].step \in Nat /\ thread[r].step < MaxActions
    BY <1>1, <1>5, EngineAssumption DEF ThreadRecord, May
  <2>2. thread[r].step + 1 \in 0 .. MaxActions
    BY <2>1, EngineAssumption
  <2>3. thread' = [thread EXCEPT ![r] =
                     [thread[r] EXCEPT !.pc = p, !.step = thread[r].step + 1, !.key = key]]
    BY <1>5 DEF Does, KeyboardInv, EngineTypeOK
  <2>. QED BY <1>4, <1>5, <2>2, <2>3
<1>6. CASE Passing(r)
  BY <1>5, <1>6 DEF Passing
<1>7. CASE \E k \in Keys : KeyDown(r, k) \/ KeyUp(r, k) \/ PressBegins(r, k)
  <2>1. PICK k \in Keys : KeyDown(r, k) \/ KeyUp(r, k) \/ PressBegins(r, k)
    BY <1>7
  <2>2. CASE KeyDown(r, k)
    BY <1>3, <1>5, <2>2 DEF KeyDown
  <2>3. CASE KeyUp(r, k)
    BY <1>3, <1>5, <2>3 DEF KeyUp
  <2>4. CASE PressBegins(r, k)
    BY <1>5, <2>4 DEF PressBegins
  <2>. QED BY <2>1, <2>2, <2>3, <2>4
<1>8. CASE PressEnds(r)
  <2>1. CASE Refused(r)
    BY <1>3, <2>1
  <2>2. CASE ~ Refused(r)
    <3>1. thread[r].step \in 0 .. MaxActions
      BY <1>1 DEF ThreadRecord
    <3>2. thread' = [thread EXCEPT ![r] =
                       [thread[r] EXCEPT !.pc = "next", !.step = thread[r].step, !.key = "none"]]
      <4> DEFINE u == [thread[r] EXCEPT !.pc = "next", !.key = "none"]
      <4>1. thread' = [thread EXCEPT ![r] = u]
        BY <1>8, <2>2 DEF PressEnds, KeyboardInv, EngineTypeOK
      <4>2. u = [thread[r] EXCEPT !.pc = "next", !.step = thread[r].step, !.key = "none"]
        BY <1>1 DEF ThreadRecord
      <4>. QED BY <4>1, <4>2
    <3>3. /\ SessionFor(r) /\ life' = life /\ owner' = owner
          /\ down' = [down EXCEPT ![thread[r].key] = NoThread]
      BY <1>8, <2>2 DEF PressEnds
    <3>. QED BY <1>2, <1>4, <3>1, <3>2, <3>3
  <2>. QED BY <2>1, <2>2
<1>. QED BY <1>6, <1>7, <1>8

-----------------------------------------------------------------------------
LEMMA KeyboardStep == KeyboardInv /\ [EngineNext]_engineVars => KeyboardInv'
<1> SUFFICES ASSUME KeyboardInv, [EngineNext]_engineVars PROVE KeyboardInv'
  OBVIOUS
<1>1. CASE UNCHANGED engineVars
  BY <1>1 DEF engineVars, KeyboardInv, EngineTypeOK, KeysAreOwners, SessionFits
<1>2. CASE \E c \in Clients : ClientOpens(c) \/ ClientCloses(c)
  BY <1>2, ClientStep
<1>3. ASSUME NEW r \in Runs,
             (\E c \in Clients : Start(r, c)) \/ Stop(r) \/ Pause(r) \/ Resume(r)
      PROVE  KeyboardInv'
  BY <1>3, AskStep
<1>4. ASSUME NEW r \in Runs, ThreadStep(r) PROVE KeyboardInv'
  BY <1>4, MoveStep, BeginRunStep, EndRunStep, ControlStep, KeyStep DEF ThreadStep, Acts
<1>. QED BY <1>1, <1>2, <1>3, <1>4 DEF EngineNext

\* The invariant holds in every state of every run of the specification.
LEMMA KeyboardInvariant == EngineSpec => []KeyboardInv
BY KeyboardInit, KeyboardStep, PTL DEF EngineSpec

\* Every variable of the engine keeps its shape.
THEOREM EngineTypes == EngineSpec => []EngineTypeOK
<1>1. KeyboardInv => EngineTypeOK
  BY DEF KeyboardInv
<1>. QED BY <1>1, KeyboardInvariant, PTL

\* For any number of runs, clients and keys: a key that is down belongs to the run that holds
\* the input lock (direct_input.py, begin_run and end_run).
THEOREM NoForeignKeys == EngineSpec => []KeysAreOwners
<1>1. KeyboardInv => KeysAreOwners
  BY DEF KeyboardInv
<1>. QED BY <1>1, KeyboardInvariant, PTL

\* For any number of runs: the lock and the session go together, for the client the run
\* follows, and never past a launch, a teleport, a restart or the end of the run (macros.py,
\* _run_control_action and the finally of _execute).
THEOREM SessionsFit == EngineSpec => []SessionFits
<1>1. KeyboardInv => SessionFits
  BY DEF KeyboardInv
<1>. QED BY <1>1, KeyboardInvariant, PTL

(***************************************************************************)
(* The watcher, and the threads together.                                  *)
(***************************************************************************)

WatchInv == LoopTypeOK /\ OneWatcher

ScannerRecord == [pc : {"none", "tick", "wait", "ended"}, stop : BOOLEAN]

CallerRecord ==
    [pc : {"idle", "start", "sync", "create", "detach", "stop", "restore"},
     loop : 0 .. MaxGenerations, then : {"return", "resync", "reload"}, count : 0 .. MaxCalls]

\* A call that has taken the loop and not yet told it to stop.
Owes(u, g) == Called(u, "stop") /\ caller[u].loop = g

Minded(g) == Alive(g) => g = current \/ scanner[g].stop \/ \E u \in Callers : Owes(u, g)

-----------------------------------------------------------------------------
LEMMA LoopInitial == LoopInit => WatchInv
<1> SUFFICES ASSUME LoopInit PROVE WatchInv
  OBVIOUS
<1>1. LoopTypeOK
  <2>1. 0 \in 0 .. MaxGenerations /\ 0 \in 0 .. MaxCalls /\ 0 \in 0 .. 0
    BY LoopAssumption
  <2>. QED BY <2>1 DEF LoopInit, LoopTypeOK, NoScanner
<1>2. OneWatcher
  BY DEF LoopInit, OneWatcher, Alive, NoScanner
<1>. QED BY <1>1, <1>2 DEF WatchInv

\* The types of the parts, for the steps below.
LEMMA LoopTyped ==
    ASSUME WatchInv
    PROVE  /\ scanner \in [Generation -> ScannerRecord] /\ caller \in [Callers -> CallerRecord]
           /\ enabled \in BOOLEAN /\ requested \in BOOLEAN /\ overlap \in BOOLEAN
           /\ current \in 0 .. started /\ started \in 0 .. MaxGenerations
           /\ started \in Nat /\ current \in Nat /\ MaxGenerations \in Nat
           /\ \A g \in Generation : Minded(g)
BY LoopAssumption
   DEF WatchInv, LoopTypeOK, OneWatcher, ScannerRecord, CallerRecord, Minded, Owes

\* What a call leaves in its caller's record.
LEMMA CallerRecords ==
    ASSUME WatchInv, NEW u \in Callers
    PROVE  /\ caller[u] \in CallerRecord /\ Returned(u) \in CallerRecord
           /\ \A p \in {"stop", "restore"}, g \in 0 .. MaxGenerations :
                 [caller[u] EXCEPT !.pc = p, !.loop = g] \in CallerRecord
<1>1. caller[u] \in CallerRecord /\ 0 \in 0 .. MaxGenerations
  BY LoopTyped
<1>2. Returned(u) \in CallerRecord
  BY <1>1 DEF Returned, CallerRecord
<1>3. \A p \in {"stop", "restore"}, g \in 0 .. MaxGenerations :
         [caller[u] EXCEPT !.pc = p, !.loop = g] \in CallerRecord
  BY <1>1 DEF CallerRecord
<1>. QED BY <1>1, <1>2, <1>3

\* A call that neither has the duty to stop a thread nor gets it moves on, with the threads
\* and _watch_loop as they are.
LEMMA CallMoves ==
    ASSUME WatchInv, NEW u \in Callers, NEW c \in CallerRecord,
           ~ Called(u, "stop"), caller' = [caller EXCEPT ![u] = c],
           UNCHANGED <<current, started, scanner>>,
           enabled' \in BOOLEAN, requested' \in BOOLEAN, overlap' \in BOOLEAN
    PROVE  WatchInv'
<1>1. LoopTypeOK'
  BY LoopTyped DEF LoopTypeOK, ScannerRecord, CallerRecord
<1>2. ASSUME NEW g \in Generation PROVE Minded(g)'
  <2>1. Minded(g)
    BY LoopTyped
  <2>2. ASSUME NEW v \in Callers, Owes(v, g) PROVE Owes(v, g)'
    <3>1. v # u
      BY <2>2 DEF Owes
    <3>2. caller'[v] = caller[v]
      BY <3>1, LoopTyped
    <3>. QED BY <2>2, <3>2 DEF Owes, Called
  <2>. QED BY <2>1, <2>2 DEF Minded, Alive
<1>. QED BY <1>1, <1>2 DEF WatchInv, OneWatcher, Minded, Owes

-----------------------------------------------------------------------------
\* The calls of bridge threads begin.
LEMMA EnterStep ==
    ASSUME WatchInv, NEW u \in Callers,
           \/ StartWatcher(u) \/ Close(u) \/ RestoreBackup(u)
           \/ \E on \in BOOLEAN : UpdateSettings(u, on)
    PROVE  WatchInv'
<1>1. PICK p \in {"start", "sync", "detach"}, t \in {"return", "resync", "reload"} :
        Entered(u, p, t)
  BY DEF StartWatcher, Close, RestoreBackup, UpdateSettings
<1> DEFINE c == [pc |-> p, loop |-> 0, then |-> t, count |-> caller[u].count + 1]
<1>2. caller' = [caller EXCEPT ![u] = c] /\ ~ Called(u, "stop")
  BY <1>1, LoopTyped DEF Entered, Called
<1>3. c \in CallerRecord
  <2>1. caller[u].count \in 0 .. MaxCalls /\ caller[u].count < MaxCalls
    BY <1>1, LoopTyped DEF Entered, CallerRecord
  <2>2. caller[u].count + 1 \in 0 .. MaxCalls
    BY <2>1, LoopAssumption
  <2>. QED BY <2>2, LoopTyped DEF CallerRecord
<1>4. overlap' \in BOOLEAN
  BY <1>1, LoopTyped DEF Entered
<1>5. enabled' \in BOOLEAN /\ requested' \in BOOLEAN /\ UNCHANGED <<current, started, scanner>>
  BY LoopTyped DEF StartWatcher, Close, RestoreBackup, UpdateSettings
<1> HIDE DEF c
<1>. QED BY <1>2, <1>3, <1>4, <1>5, CallMoves

\* Steps of a call that leave the loop alone.
LEMMA MoveOn ==
    ASSUME WatchInv, NEW u \in Callers,
           Sync(u) \/ CheckEnabled(u) \/ \E on \in BOOLEAN : Restored(u, on)
    PROVE  WatchInv'
<1>1. caller[u] \in CallerRecord /\ ~ Called(u, "stop")
  BY LoopTyped DEF Sync, CheckEnabled, Restored, Called
<1>2. Returned(u) \in CallerRecord
  BY CallerRecords
<1>3. \A p \in {"start", "create", "detach"} : [caller[u] EXCEPT !.pc = p] \in CallerRecord
  BY <1>1 DEF CallerRecord
<1>4. \A p \in {"sync", "idle"} : [caller[u] EXCEPT !.pc = p, !.then = "return"] \in CallerRecord
  BY <1>1 DEF CallerRecord
<1>5. \E c \in CallerRecord : caller' = [caller EXCEPT ![u] = c]
  <2>1. CASE Sync(u) \/ CheckEnabled(u)
    <3>1. \/ caller' = [caller EXCEPT ![u] = Returned(u)]
          \/ \E p \in {"start", "create", "detach"} : Calls(u, p)
      BY <2>1 DEF Sync, CheckEnabled
    <3>2. \A p : Calls(u, p) => caller' = [caller EXCEPT ![u] = [caller[u] EXCEPT !.pc = p]]
      BY LoopTyped DEF Calls
    <3>. QED BY <1>2, <1>3, <3>1, <3>2
  <2>2. CASE \E on \in BOOLEAN : Restored(u, on)
    <3>1. \E p \in {"sync", "idle"} :
             caller' = [caller EXCEPT ![u].pc = p, ![u].then = "return"]
      BY <2>2 DEF Restored
    <3>2. \E p \in {"sync", "idle"} :
             caller' = [caller EXCEPT ![u] = [caller[u] EXCEPT !.pc = p, !.then = "return"]]
      BY <3>1, LoopTyped
    <3>. QED BY <1>4, <3>2
  <2>. QED BY <2>1, <2>2
<1>6. enabled' \in BOOLEAN /\ requested' \in BOOLEAN /\ overlap' \in BOOLEAN
      /\ UNCHANGED <<current, started, scanner>>
  BY LoopTyped DEF Sync, CheckEnabled, Restored
<1>. QED BY <1>1, <1>5, <1>6, CallMoves

\* start_watcher makes a loop only when there is none to forget.
LEMMA CreateStep ==
    ASSUME WatchInv, NEW u \in Callers, Create(u)
    PROVE  WatchInv'
<1>1. caller[u] \in CallerRecord /\ ~ Called(u, "stop")
  BY LoopTyped DEF Create, Called
<1>2. Returned(u) \in CallerRecord
  BY CallerRecords
<1>3. CASE ~ LoopMissing
  BY <1>1, <1>2, <1>3, LoopTyped, CallMoves DEF Create
<1>4. CASE LoopMissing
  <2> DEFINE n == started + 1
             s == [NoScanner EXCEPT !.pc = "tick"]
  <2>1. n \in Generation /\ n \in 0 .. MaxGenerations
    BY <1>4, LoopTyped DEF Create, Generation
  <2>2. s \in ScannerRecord
    BY DEF NoScanner, ScannerRecord
  <2>3. /\ scanner' = [scanner EXCEPT ![n] = s] /\ current' = n /\ started' = n
        /\ caller' = [caller EXCEPT ![u] = Returned(u)]
        /\ enabled' = enabled /\ requested' = requested /\ overlap' = overlap
    BY <1>4 DEF Create
  <2> HIDE DEF s
  <2>4. current' \in 0 .. started' /\ started' \in 0 .. MaxGenerations
    BY <2>1, <2>3, LoopTyped
  <2>5. scanner' \in [Generation -> ScannerRecord] /\ caller' \in [Callers -> CallerRecord]
    BY <1>2, <2>1, <2>2, <2>3, LoopTyped
  <2>6. LoopTypeOK'
    BY <2>3, <2>4, <2>5, LoopTyped DEF LoopTypeOK, ScannerRecord, CallerRecord
  <2>7. ASSUME NEW g \in Generation PROVE Minded(g)'
    <3>1. CASE g = n
      BY <2>3, <3>1 DEF Minded
    <3>2. CASE g # n
      <4>1. Minded(g) /\ g # current /\ scanner'[g] = scanner[g]
        BY <1>4, <2>1, <2>3, <3>2, LoopTyped DEF LoopMissing, Generation
      <4>2. ASSUME NEW v \in Callers, Owes(v, g) PROVE Owes(v, g)'
        <5>1. v # u
          BY <1>1, <4>2 DEF Owes
        <5>2. caller'[v] = caller[v]
          BY <2>3, <5>1, LoopTyped
        <5>. QED BY <4>2, <5>2 DEF Owes, Called
      <4>. QED BY <4>1, <4>2 DEF Minded, Alive
    <3>. QED BY <3>1, <3>2
  <2>. QED BY <2>6, <2>7 DEF WatchInv, OneWatcher, Minded, Owes
<1>. QED BY <1>3, <1>4

\* _stop_watcher_worker takes the loop, and with it the duty to stop its thread.
LEMMA DetachStep ==
    ASSUME WatchInv, NEW u \in Callers, Detach(u)
    PROVE  WatchInv'
<1> DEFINE c == [caller[u] EXCEPT !.pc = "stop", !.loop = current]
<1>1. caller' = [caller EXCEPT ![u] = c] /\ current' = 0 /\ ~ Called(u, "stop")
      /\ UNCHANGED <<enabled, requested, started, scanner, overlap>>
  BY LoopTyped DEF Detach, Called
<1>2. c \in CallerRecord /\ c.pc = "stop" /\ c.loop = current
  <2>1. current \in 0 .. MaxGenerations
    BY LoopTyped
  <2>. QED BY <2>1, CallerRecords DEF CallerRecord
<1> HIDE DEF c
<1>3. LoopTypeOK'
  <2>1. caller' \in [Callers -> CallerRecord] /\ current' \in 0 .. started'
    BY <1>1, <1>2, LoopTyped
  <2>. QED BY <1>1, <2>1, LoopTyped DEF LoopTypeOK, ScannerRecord, CallerRecord
<1>4. ASSUME NEW g \in Generation PROVE Minded(g)'
  <2>1. Minded(g)
    BY LoopTyped
  <2>2. CASE g = current
    <3>1. Owes(u, g)'
      BY <1>1, <1>2, <2>2, LoopTyped DEF Owes, Called
    <3>. QED BY <3>1 DEF Minded
  <2>3. CASE g # current
    <3>1. ASSUME NEW v \in Callers, Owes(v, g) PROVE Owes(v, g)'
      <4>1. v # u
        BY <1>1, <3>1 DEF Owes
      <4>2. caller'[v] = caller[v]
        BY <1>1, <4>1, LoopTyped
      <4>. QED BY <3>1, <4>2 DEF Owes, Called
    <3>. QED BY <1>1, <2>1, <2>3, <3>1 DEF Minded, Alive
  <2>. QED BY <2>2, <2>3
<1>. QED BY <1>3, <1>4 DEF WatchInv, OneWatcher, Minded, Owes

\* MonitorPollingLoop.stop sets the event of the thread the call took.
LEMMA StopStep ==
    ASSUME WatchInv, NEW u \in Callers, StopLoop(u)
    PROVE  WatchInv'
<1> DEFINE o == caller[u].loop
<1>1. o \in 0 .. MaxGenerations /\ caller[u] \in CallerRecord
  BY LoopTyped DEF CallerRecord
<1>2. \E c \in CallerRecord : caller' = [caller EXCEPT ![u] = c]
  <2>1. Returned(u) \in CallerRecord
    BY CallerRecords
  <2>2. [caller[u] EXCEPT !.pc = "restore", !.loop = 0] \in CallerRecord
    <3>1. 0 \in 0 .. MaxGenerations
      BY LoopTyped
    <3>. QED BY <3>1, CallerRecords
  <2>3. \/ caller' = [caller EXCEPT ![u] = Returned(u)]
        \/ caller' = [caller EXCEPT ![u].pc = "restore", ![u].loop = 0]
    BY DEF StopLoop
  <2>4. \/ caller' = [caller EXCEPT ![u] = Returned(u)]
        \/ caller' = [caller EXCEPT ![u] = [caller[u] EXCEPT !.pc = "restore", !.loop = 0]]
    BY <2>3, LoopTyped
  <2>. QED BY <2>1, <2>2, <2>4
<1>3. /\ scanner' \in [Generation -> ScannerRecord]
      /\ \A g \in Generation : /\ scanner'[g].pc = scanner[g].pc
                               /\ scanner'[g].stop = (scanner[g].stop \/ g = o)
  <2>1. CASE o = 0
    BY <2>1, LoopTyped DEF StopLoop, StopSet, Generation, ScannerRecord
  <2>2. CASE o # 0
    <3>1. scanner' = [scanner EXCEPT ![o] = [scanner[o] EXCEPT !.stop = TRUE]]
      BY <2>2, LoopTyped DEF StopLoop, StopSet
    <3>. QED BY <1>1, <3>1, LoopTyped DEF Generation, ScannerRecord
  <2>. QED BY <2>1, <2>2
<1>4. UNCHANGED <<enabled, requested, current, started, overlap>>
  BY DEF StopLoop
<1>5. LoopTypeOK'
  BY <1>2, <1>3, <1>4, LoopTyped DEF LoopTypeOK, ScannerRecord, CallerRecord
<1>6. ASSUME NEW g \in Generation PROVE Minded(g)'
  <2>1. Minded(g)
    BY LoopTyped
  <2>2. CASE g = o
    BY <1>3, <2>2 DEF Minded
  <2>3. CASE g # o
    <3>1. ASSUME NEW v \in Callers, Owes(v, g) PROVE Owes(v, g)'
      <4>1. v # u
        BY <2>3, <3>1 DEF Owes
      <4>2. caller'[v] = caller[v]
        BY <1>2, <4>1, LoopTyped
      <4>. QED BY <3>1, <4>2 DEF Owes, Called
    <3>. QED BY <1>3, <1>4, <2>1, <3>1 DEF Minded, Alive
  <2>. QED BY <2>2, <2>3
<1>. QED BY <1>5, <1>6 DEF WatchInv, OneWatcher, Minded, Owes

\* A thread scans, waits, and ends; the event it was given stays.
LEMMA ScanStep ==
    ASSUME WatchInv, Scans
    PROVE  WatchInv'
<1>1. PICK g \in Generation, p \in {"tick", "wait", "ended"} :
        scanner' = [scanner EXCEPT ![g].pc = p] /\ Alive(g)
  BY DEF Scans, TickEnds, WaitEnds, Alive
<1>2. UNCHANGED <<enabled, requested, current, started, caller, overlap>>
  BY DEF Scans, TickEnds, WaitEnds
<1>3. /\ scanner' \in [Generation -> ScannerRecord]
      /\ \A h \in Generation : /\ scanner'[h].stop = scanner[h].stop
                               /\ Alive(h)' => Alive(h)
  <2>1. scanner' = [scanner EXCEPT ![g] = [scanner[g] EXCEPT !.pc = p]]
    BY <1>1, LoopTyped
  <2>. QED BY <1>1, <2>1, LoopTyped DEF ScannerRecord, Alive
<1>4. LoopTypeOK'
  BY <1>2, <1>3, LoopTyped DEF LoopTypeOK, ScannerRecord, CallerRecord
<1>5. ASSUME NEW h \in Generation PROVE Minded(h)'
  BY <1>2, <1>3, LoopTyped DEF Minded, Owes, Called
<1>. QED BY <1>4, <1>5 DEF WatchInv, OneWatcher, Minded, Owes

-----------------------------------------------------------------------------
LEMMA WatchStep == WatchInv /\ [LoopNext]_loopVars => WatchInv'
<1> SUFFICES ASSUME WatchInv, [LoopNext]_loopVars PROVE WatchInv'
  OBVIOUS
<1>1. CASE UNCHANGED loopVars
  BY <1>1 DEF loopVars, WatchInv, LoopTypeOK, OneWatcher, Alive, Called
<1>2. CASE LoopNext
  BY <1>2, EnterStep, MoveOn, CreateStep, DetachStep, StopStep, ScanStep
     DEF LoopNext, CallStep
<1>. QED BY <1>1, <1>2

LEMMA WatchInvariant == LoopSpec => []WatchInv
BY LoopInitial, WatchStep, PTL DEF LoopSpec

\* Every variable of the loop keeps its shape.
THEOREM LoopTypes == LoopSpec => []LoopTypeOK
<1>1. WatchInv => LoopTypeOK
  BY DEF WatchInv
<1>. QED BY <1>1, WatchInvariant, PTL

\* For any number of callers and generations: a thread that still scans is the current one,
\* is told to stop, or is just about to be (process_monitor.py, MonitorPollingLoop.start and
\* stop; application_service.py, start_watcher and _stop_watcher_worker).
THEOREM NoLostWatcher == LoopSpec => []OneWatcher
<1>1. WatchInv => OneWatcher
  BY DEF WatchInv
<1>. QED BY <1>1, WatchInvariant, PTL

-----------------------------------------------------------------------------
(* The watcher follows the settings: what a call that is alone relies on at each place. *)

Settled == current # 0 <=> requested /\ enabled

\* c is the record of a call.  One that stops the loop for good does not want it any more; a
\* restore stops it for a while and remembers whether it was requested.
Relies(c, isOn, wanted, loop) ==
    /\ c.pc = "start" => wanted /\ (loop # 0 => isOn)
    /\ c.pc = "create" => wanted /\ isOn
    /\ c.pc = "sync" => c.then = "return" /\ (loop # 0 => wanted)
    /\ c.pc \in {"detach", "stop", "restore"} =>
         /\ c.then = "return" => ~ (wanted /\ isOn)
         /\ c.then = "resync" => wanted
         /\ c.then = "reload" => ~ wanted
    /\ c.pc \in {"stop", "restore"} => loop = 0
    /\ c.pc = "restore" => c.then # "return"

Alone(u) == \A v \in Callers : v = u \/ Called(v, "idle")

FollowInv ==
    ~ overlap =>
        /\ \A u \in Callers : ~ Called(u, "idle") =>
             Alone(u) /\ Relies(caller[u], enabled, requested, current)
        /\ (\A u \in Callers : Called(u, "idle")) => Settled

LEMMA FollowInit == LoopInit => FollowInv
BY DEF LoopInit, FollowInv, Called, Settled

\* A call that is alone moves to c: what it relies on must hold there, or, if it returns, the
\* loop must be as the settings say.
LEMMA AloneMoves ==
    ASSUME WatchInv, NEW u \in Callers, NEW c, caller' = [caller EXCEPT ![u] = c],
           ~ overlap' => Alone(u),
           ~ overlap' /\ c.pc # "idle" => Relies(c, enabled', requested', current'),
           ~ overlap' /\ c.pc = "idle" => Settled'
    PROVE  FollowInv'
<1>1. caller'[u] = c /\ \A v \in Callers : v # u => caller'[v] = caller[v]
  BY LoopTyped
<1>2. Called(u, "idle")' <=> c.pc = "idle"
  BY <1>1 DEF Called
<1>3. ASSUME ~ overlap', NEW v \in Callers, v # u PROVE Called(v, "idle")'
  BY <1>1, <1>3 DEF Alone, Called
<1>4. ~ overlap' => Alone(u)'
  BY <1>3 DEF Alone
<1>. QED BY <1>1, <1>2, <1>3, <1>4 DEF FollowInv

\* A call begins, alone unless it overlaps.
LEMMA EnterFollows ==
    ASSUME WatchInv, FollowInv, NEW u \in Callers,
           \/ StartWatcher(u) \/ Close(u) \/ RestoreBackup(u)
           \/ \E on \in BOOLEAN : UpdateSettings(u, on)
    PROVE  FollowInv'
<1>1. PICK p \in {"start", "sync", "detach"}, t \in {"return", "resync", "reload"} :
        /\ Entered(u, p, t)
        /\ p = "start" => StartWatcher(u)
        /\ p = "sync" => t = "return" /\ \E on \in BOOLEAN : UpdateSettings(u, on)
        /\ p = "detach" => \/ Close(u) /\ t = "return"
                           \/ RestoreBackup(u) /\ t = IF requested THEN "resync" ELSE "reload"
  BY DEF StartWatcher, Close, RestoreBackup, UpdateSettings
<1> DEFINE c == [pc |-> p, loop |-> 0, then |-> t, count |-> caller[u].count + 1]
<1>2. caller' = [caller EXCEPT ![u] = c] /\ c.pc = p /\ c.then = t
  BY <1>1, LoopTyped DEF Entered
<1> HIDE DEF c
<1>3. ~ overlap' => (~ overlap /\ \A v \in Callers : Called(v, "idle"))
  BY <1>1 DEF Entered
<1>4. ~ overlap' => Settled
  BY <1>3 DEF FollowInv
<1>5. ASSUME ~ overlap' PROVE Relies(c, enabled', requested', current')
  <2>1. CASE p = "start"
    BY <1>1, <1>2, <1>4, <1>5, <2>1 DEF StartWatcher, Settled, Relies
  <2>2. CASE p = "sync"
    BY <1>1, <1>2, <1>4, <1>5, <2>2 DEF UpdateSettings, Settled, Relies
  <2>3. CASE p = "detach"
    BY <1>1, <1>2, <1>4, <1>5, <2>3 DEF Close, RestoreBackup, Settled, Relies
  <2>. QED BY <2>1, <2>2, <2>3
<1>6. ~ overlap' => Alone(u)
  BY <1>3 DEF Alone
<1>. QED BY <1>1, <1>2, <1>5, <1>6, AloneMoves

\* A call goes on: before each step it is where FollowInv says.
LEMMA CallFollows ==
    ASSUME WatchInv, FollowInv, NEW u \in Callers, CallStep(u)
    PROVE  FollowInv'
<1> DEFINE Now == Relies(caller[u], enabled, requested, current)
<1>0. caller[u] \in CallerRecord /\ caller \in [Callers -> CallerRecord]
  BY LoopTyped
<1>1. overlap' = overlap /\ ~ Called(u, "idle")
  BY <1>0 DEF CallStep, Restored, Sync, CheckEnabled, Create, Detach, StopLoop, Called
<1>2. ~ overlap' => Alone(u) /\ Now
  BY <1>1 DEF FollowInv
<1>3. Returned(u).pc = "idle"
  BY <1>0 DEF Returned, CallerRecord
<1>4. \A p : LET c == [caller[u] EXCEPT !.pc = p]
             IN  /\ Calls(u, p) => caller' = [caller EXCEPT ![u] = c]
                 /\ c.pc = p /\ c.then = caller[u].then
  BY <1>0 DEF Calls, CallerRecord
<1>5. CASE Sync(u)
  <2>1. CASE ~ requested
    <3>1. Now => Settled'
      BY <1>5, <2>1 DEF Sync, Called, Relies, Settled
    <3>2. caller' = [caller EXCEPT ![u] = Returned(u)]
      BY <1>5, <2>1 DEF Sync
    <3>. QED BY <1>2, <1>3, <3>1, <3>2, AloneMoves
  <2>2. CASE requested
    <3> DEFINE p == IF IsEnabled THEN "start" ELSE "detach"
               c == [caller[u] EXCEPT !.pc = p]
    <3>1. caller' = [caller EXCEPT ![u] = c] /\ c.pc = p /\ c.then = caller[u].then
      BY <1>4, <1>5, <2>2 DEF Sync
    <3>2. requested' /\ UNCHANGED <<enabled, current>> /\ caller[u].pc = "sync"
      BY <1>5, <2>2 DEF Sync, Called
    <3> HIDE DEF c
    <3>3. Now => Relies(c, enabled', requested', current')
      BY <2>2, <3>1, <3>2 DEF Relies, IsEnabled
    <3>. QED BY <1>2, <3>1, <3>3, AloneMoves
  <2>. QED BY <2>1, <2>2
<1>6. CASE CheckEnabled(u)
  <2>1. UNCHANGED <<enabled, requested, current>> /\ caller[u].pc = "start"
    BY <1>6 DEF CheckEnabled, Called
  <2>2. CASE enabled
    <3> DEFINE c == [caller[u] EXCEPT !.pc = "create"]
    <3>1. caller' = [caller EXCEPT ![u] = c] /\ c.pc = "create"
      BY <1>4, <1>6, <2>2 DEF CheckEnabled, IsEnabled
    <3> HIDE DEF c
    <3>2. Now => Relies(c, enabled', requested', current')
      BY <2>1, <2>2, <3>1 DEF Relies
    <3>. QED BY <1>2, <3>1, <3>2, AloneMoves
  <2>3. CASE ~ enabled
    <3>1. Now => Settled'
      BY <2>1, <2>3 DEF Relies, Settled
    <3>2. caller' = [caller EXCEPT ![u] = Returned(u)]
      BY <1>6, <2>3 DEF CheckEnabled, IsEnabled
    <3>. QED BY <1>2, <1>3, <3>1, <3>2, AloneMoves
  <2>. QED BY <2>2, <2>3
<1>7. CASE Create(u)
  <2>1. /\ caller' = [caller EXCEPT ![u] = Returned(u)]
        /\ UNCHANGED <<enabled, requested>> /\ caller[u].pc = "create" /\ current' # 0
    BY <1>7, LoopTyped DEF Create, Called, LoopMissing
  <2>2. Now => Settled'
    BY <2>1 DEF Relies, Settled
  <2>. QED BY <1>2, <1>3, <2>1, <2>2, AloneMoves
<1>8. CASE Detach(u)
  <2> DEFINE c == [caller[u] EXCEPT !.pc = "stop", !.loop = current]
  <2>1. /\ caller' = [caller EXCEPT ![u] = c] /\ c.pc = "stop" /\ c.then = caller[u].then
        /\ UNCHANGED <<enabled, requested>> /\ current' = 0 /\ caller[u].pc = "detach"
    BY <1>0, <1>8 DEF Detach, Called, CallerRecord
  <2> HIDE DEF c
  <2>2. Now => Relies(c, enabled', requested', current')
    BY <2>1 DEF Relies
  <2>. QED BY <1>2, <2>1, <2>2, AloneMoves
<1>9. CASE StopLoop(u)
  <2>1. UNCHANGED <<enabled, requested, current>> /\ caller[u].pc = "stop"
    BY <1>9 DEF StopLoop, Called
  <2>2. CASE caller[u].then = "return"
    <3>1. Now => Settled'
      BY <2>1, <2>2 DEF Relies, Settled
    <3>2. caller' = [caller EXCEPT ![u] = Returned(u)]
      BY <1>9, <2>2 DEF StopLoop
    <3>. QED BY <1>2, <1>3, <3>1, <3>2, AloneMoves
  <2>3. CASE caller[u].then # "return"
    <3> DEFINE c == [caller[u] EXCEPT !.pc = "restore", !.loop = 0]
    <3>1. caller' = [caller EXCEPT ![u] = c] /\ c.pc = "restore" /\ c.then = caller[u].then
      BY <1>0, <1>9, <2>3 DEF StopLoop, CallerRecord
    <3> HIDE DEF c
    <3>2. Now => Relies(c, enabled', requested', current')
      BY <2>1, <2>3, <3>1 DEF Relies
    <3>. QED BY <1>2, <3>1, <3>2, AloneMoves
  <2>. QED BY <2>2, <2>3
<1>10. CASE \E on \in BOOLEAN : Restored(u, on)
  <2> DEFINE p == IF caller[u].then = "resync" THEN "sync" ELSE "idle"
             c == [caller[u] EXCEPT !.pc = p, !.then = "return"]
  <2>1. /\ caller' = [caller EXCEPT ![u] = c] /\ c.pc = p /\ c.then = "return"
        /\ UNCHANGED <<requested, current>> /\ caller[u].pc = "restore"
    BY <1>0, <1>10 DEF Restored, Called, CallerRecord
  <2>2. caller[u].then \in {"return", "resync", "reload"}
    BY <1>0 DEF CallerRecord
  <2> HIDE DEF c
  <2>3. Now /\ c.pc # "idle" => Relies(c, enabled', requested', current')
    BY <2>1 DEF Relies
  <2>4. Now /\ c.pc = "idle" => Settled'
    BY <2>1, <2>2 DEF Relies, Settled
  <2>. QED BY <1>2, <2>1, <2>3, <2>4, AloneMoves
<1>. QED BY <1>5, <1>6, <1>7, <1>8, <1>9, <1>10 DEF CallStep

LEMMA FollowStep == WatchInv /\ FollowInv /\ [LoopNext]_loopVars => FollowInv'
<1> SUFFICES ASSUME WatchInv, FollowInv, [LoopNext]_loopVars PROVE FollowInv'
  OBVIOUS
<1>1. CASE UNCHANGED loopVars \/ Scans
  <2>1. UNCHANGED <<enabled, requested, current, caller, overlap>>
    BY <1>1 DEF loopVars, Scans, TickEnds, WaitEnds
  <2>. QED BY <2>1 DEF FollowInv, Called, Alone, Relies, Settled
<1>2. CASE LoopNext /\ ~ Scans
  BY <1>2, EnterFollows, CallFollows DEF LoopNext
<1>. QED BY <1>1, <1>2

\* For any number of callers: between calls that did not overlap the watcher is there exactly
\* if it is requested and enabled (application_service.py, start_watcher,
\* _sync_watcher_loop, update_settings, close and restore_backup).
THEOREM WatcherObeys == LoopSpec => []WatcherFollowsSettings
<1>1. FollowInv => WatcherFollowsSettings
  BY DEF FollowInv, WatcherFollowsSettings, Settled
<1>. QED BY <1>1, WatchInvariant, FollowInit, FollowStep, PTL DEF LoopSpec

-----------------------------------------------------------------------------
(* The three parts side by side *)

\* A behaviour of the three is one of each.
LEMMA ThreadsApart == ThreadSpec => BatchSpec /\ EngineSpec /\ LoopSpec
<1>1. ThreadInit => BatchInit /\ EngineInit /\ LoopInit
  BY DEF ThreadInit
<1>2. [ThreadNext]_threadVars =>
        [BatchNext]_batchVars /\ [EngineNext]_engineVars /\ [LoopNext]_loopVars
  BY DEF ThreadNext, threadVars
<1>. QED BY <1>1, <1>2, PTL DEF ThreadSpec, BatchSpec, EngineSpec, LoopSpec

\* Every variable of the three parts keeps its shape.
THEOREM ThreadTypes == ThreadSpec => []ThreadTypeOK
BY ThreadsApart, BatchTypes, EngineTypes, LoopTypes, PTL DEF ThreadTypeOK

\* For waves, batches, callers and generations of any number: the wave that is shown is that
\* of the account being launched, and the watcher obeys the settings.
THEOREM WorkersObey == ThreadSpec => []WorkersFollow
BY ThreadsApart, WavesAreNumbered, WatcherObeys, PTL DEF WorkersFollow
================================================================================
