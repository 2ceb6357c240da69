----------------------------- MODULE BatchLauncher -----------------------------
(***************************************************************************)
(* The queue that launches many accounts one after the other               *)
(* (roblox/batch_launcher.py).  Each batch has a worker thread and a       *)
(* _BatchRun of its own: its queue, its cancel event and its status.  A    *)
(* cancelled worker may still be inside a launch when the next batch       *)
(* starts, so several workers can be alive at once.                        *)
(***************************************************************************)
EXTENDS Naturals

CONSTANTS
    MaxQueue,    \* bound: accounts in a batch, which are all different
    MaxBatches,  \* bound: calls of start_batch that are accepted
    WaveSize,    \* accounts per wave, 0 for no waves
    MaxPolls     \* _MAX_WAVE_WAIT_SECONDS / _WAVE_POLL_SECONDS

ASSUME BatchAssumption ==
    /\ MaxQueue \in Nat /\ MaxBatches \in Nat /\ WaveSize \in Nat /\ MaxPolls \in Nat

Batch == 1 .. MaxBatches

VARIABLES
    worker,  \* worker[b]: where the thread of batch b is, and what it has done
    status,  \* status[b]: the status of batch b, which get_status shows while b is active
    cancel,  \* batches whose cancel event is set
    active   \* the latest batch, 0 before the first one (_active_run)

batchVars == <<worker, status, cancel, active>>

-----------------------------------------------------------------------------
NoWorker == [pc |-> "none", total |-> 0, index |-> 0, polls |-> 0]
NoStatus == [in_progress |-> FALSE, launched |-> 0, failed |-> 0, wave |-> 0, waiting |-> FALSE]

Shown == IF active = 0 THEN NoStatus ELSE status[active]

\* A worker listens to the event of its own batch.
SharedEvent(b) == active \in cancel
Cancelled(b) == b \in cancel

\* start_batch is refused while a batch is in progress.
MayStart == ~ Shown.in_progress

StartBatch(n) ==
    /\ MayStart
    /\ active < MaxBatches
    /\ active' = active + 1
    /\ worker' = [worker EXCEPT ![active + 1] = [NoWorker EXCEPT !.pc = "take", !.total = n]]
    /\ status' = [status EXCEPT ![active + 1] =
         [NoStatus EXCEPT !.in_progress = TRUE, !.wave = IF WaveSize > 0 THEN 1 ELSE 0]]
    /\ UNCHANGED cancel

CancelBatch ==
    /\ cancel' = cancel \cup ({active} \ {0})
    /\ status' = IF active = 0 THEN status ELSE [status EXCEPT ![active].in_progress = FALSE]
    /\ UNCHANGED <<worker, active>>

-----------------------------------------------------------------------------
(* _run_batch *)

Boundary(i) == WaveSize > 0 /\ i % WaveSize = 0

\* The next account, unless the batch is cancelled; the launch itself runs without the lock.
TakeNext(b) ==
    /\ worker[b].pc = "take"
    /\ worker' = [worker EXCEPT ![b].pc = IF Cancelled(b) THEN "ending" ELSE "launching",
                                ![b].index = IF Cancelled(b) THEN @ ELSE @ + 1]
    /\ UNCHANGED <<status, cancel, active>>

IgnoresThis(b) == status[b].failed
FailuresWithThis(b) == status[b].failed + 1

\* After the last account nothing; else the pause between waves, or a delay.
AfterLaunch(b) ==
    IF worker[b].index = worker[b].total THEN "ending"
    ELSE IF Boundary(worker[b].index) THEN "pausing" ELSE "delay"

\* launch_single_fn accepts, refuses or raises.
LaunchReturns(b, accepted) ==
    /\ worker[b].pc = "launching"
    /\ worker' = [worker EXCEPT ![b].pc = AfterLaunch(b)]
    /\ status' = [status EXCEPT ![b].launched = IF accepted THEN @ + 1 ELSE @,
                                ![b].failed = IF accepted THEN @ ELSE FailuresWithThis(b),
                                ![b].waiting = AfterLaunch(b) = "pausing"]
    /\ UNCHANGED <<cancel, active>>

\* The delay is over, or the batch was cancelled meanwhile.
DelayEnds(b) ==
    /\ worker[b].pc = "delay"
    /\ worker' = [worker EXCEPT ![b].pc = "take"]
    /\ UNCHANGED <<status, cancel, active>>

\* _wait_for_wave: the pause, and then the readiness check, if there is one.
PauseEnds(b, check) ==
    /\ worker[b].pc = "pausing"
    /\ worker' = [worker EXCEPT ![b].pc = IF check THEN "polling" ELSE "leaving", ![b].polls = 0]
    /\ UNCHANGED <<status, cancel, active>>

MayPoll(b) == worker[b].polls < MaxPolls /\ ~ Cancelled(b)

\* The machine is busy: asked again a second later.
PollAgain(b) ==
    /\ worker[b].pc = "polling"
    /\ MayPoll(b)
    /\ worker' = [worker EXCEPT ![b].polls = IF @ < MaxPolls THEN @ + 1 ELSE @]
    /\ UNCHANGED <<status, cancel, active>>

\* It allows the wave, or fails; or nobody asks it any more.
PollEnds(b) ==
    /\ worker[b].pc = "polling"
    /\ worker' = [worker EXCEPT ![b].pc = "leaving"]
    /\ UNCHANGED <<status, cancel, active>>

\* The number of the wave that account number i + 1 belongs to.
WaveAfter(i) == i \div WaveSize + 1

LeaveWave(b) ==
    /\ worker[b].pc = "leaving"
    /\ worker' = [worker EXCEPT ![b].pc = "take"]
    /\ status' = [status EXCEPT ![b].waiting = FALSE,
                                ![b].wave = IF Cancelled(b) THEN @ ELSE WaveAfter(worker[b].index)]
    /\ UNCHANGED <<cancel, active>>

\* The worker ends its own batch's status, whichever batch is shown by now.
EndsShown(b) == active
Ends(b) == b

EndBatch(b) ==
    /\ worker[b].pc = "ending"
    /\ worker' = [worker EXCEPT ![b].pc = "done"]
    /\ status' = [status EXCEPT ![Ends(b)].in_progress = FALSE]
    /\ UNCHANGED <<cancel, active>>

-----------------------------------------------------------------------------
BatchInit ==
    /\ worker = [b \in Batch |-> NoWorker]
    /\ status = [b \in Batch |-> NoStatus]
    /\ cancel = {} /\ active = 0

\* What the code does in a bounded time: waits are cut off, a launch returns.
WorkerStep(b) ==
    \/ TakeNext(b)
    \/ \E accepted \in BOOLEAN : LaunchReturns(b, accepted)
    \/ DelayEnds(b)
    \/ \E check \in BOOLEAN : PauseEnds(b, check)
    \/ PollAgain(b)
    \/ (PollEnds(b) /\ ~ MayPoll(b))
    \/ LeaveWave(b) \/ EndBatch(b)

BatchNext ==
    \/ \E n \in 1 .. MaxQueue : StartBatch(n)
    \/ CancelBatch
    \/ \E b \in Batch : WorkerStep(b) \/ PollEnds(b)

BatchSpec == BatchInit /\ [][BatchNext]_batchVars

BatchFairness == \A b \in Batch : WF_batchVars(WorkerStep(b))

-----------------------------------------------------------------------------
(* Properties *)

\* Every variable has the shape the code gives it.
BatchTypeOK ==
    /\ active \in 0 .. MaxBatches
    /\ cancel \subseteq Batch
    /\ worker \in [Batch ->
         [pc : {"none", "take", "launching", "delay", "pausing", "polling", "leaving",
                "ending", "done"},
          total : 0 .. MaxQueue, index : Nat, polls : 0 .. MaxPolls]]
    /\ status \in [Batch ->
         [in_progress : BOOLEAN, launched : Nat, failed : Nat, wave : Nat, waiting : BOOLEAN]]

AtWork(b) == worker[b].pc \notin {"none", "done"}

\* One queue launches at a time: only the latest batch takes a further account from its
\* queue, and the worker of a batch that was cancelled to make room for it never does.
OneQueue == [][\A b \in Batch : worker'[b].index # worker[b].index => b = active]_batchVars

\* What get_status shows of the latest batch is true, whatever older workers still do: it
\* is in progress exactly until its worker has ended or it is cancelled.
ShownIsTrue == active > 0 => (Shown.in_progress <=> AtWork(active) /\ active \notin cancel)

\* Every account a worker took is counted once, as launched or failed, and a batch that was
\* not cancelled ends only when all of its accounts are.
CountsAgree ==
    \A b \in Batch :
        LET counted == status[b].launched + status[b].failed
        IN  /\ worker[b].index = counted + IF worker[b].pc = "launching" THEN 1 ELSE 0
            /\ worker[b].pc = "done" /\ b \notin cancel => counted = worker[b].total

\* Account number i is launched in wave ceil(i / WaveSize), as the status says, and no wave
\* has more than WaveSize accounts.
WaveIsRight ==
    \A b \in Batch :
        (WaveSize > 0 /\ worker[b].pc = "launching" /\ b \notin cancel)
            => status[b].wave = (worker[b].index + WaveSize - 1) \div WaveSize

\* "A stuck probe must not strand a batch": every batch ends.
BatchesEnd == \A b \in Batch : AtWork(b) ~> ~ AtWork(b)

=============================================================================
