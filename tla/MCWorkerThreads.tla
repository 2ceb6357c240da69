---------------------------- MODULE MCWorkerThreads ----------------------------
(***************************************************************************)
(* The threads the application starts itself, for TLC: batch workers,      *)
(* macro runs and the watcher.  They share no variable, so one run checks  *)
(* them side by side: a behaviour takes the steps of one part only, while  *)
(* nothing has started yet in the others.                                  *)
(***************************************************************************)
EXTENDS BatchLauncher, MacroEngine, WatcherLoop

VARIABLE part

threadVars == <<batchVars, engineVars, loopVars, part>>

ThreadInit ==
    /\ part \in {"batch", "engine", "loop"}
    /\ BatchInit /\ EngineInit /\ LoopInit
    /\ part # "loop" => ~ enabled

ThreadNext ==
    /\ UNCHANGED part
    /\ \/ part = "batch" /\ BatchNext /\ UNCHANGED <<engineVars, loopVars>>
       \/ part = "engine" /\ EngineNext /\ UNCHANGED <<batchVars, loopVars>>
       \/ part = "loop" /\ LoopNext /\ UNCHANGED <<batchVars, engineVars>>

\* What has not started is not enabled, so the fairness of one part asks nothing of another.
ThreadSpec ==
    /\ ThreadInit /\ [][ThreadNext]_threadVars
    /\ BatchFairness /\ EngineFairness /\ LoopFairness

\* Batches, macro runs that were stopped and old watchers end.
WorkersEnd == BatchesEnd /\ StoppedFinishes /\ OldWatchersEnd

\* The wave that is shown is that of the account being launched, and the watcher is there
\* exactly if it is requested and enabled.
WorkersFollow == WaveIsRight /\ WatcherFollowsSettings

\* The type invariants of the three parts.
ThreadTypeOK == BatchTypeOK /\ EngineTypeOK /\ LoopTypeOK
=============================================================================
