------------------------------- MODULE MCRecords -------------------------------
(***************************************************************************)
(* What the program keeps, reads and holds, for TLC: the account rows and  *)
(* their secrets, transactions, backups, imports, updates, the logs of     *)
(* Roblox, the schedule, the singleton mutex of Roblox, what its public    *)
(* services said, the files of the client and where its windows are.  They *)
(* share no variable, so one run checks them side by side: a behaviour     *)
(* takes the steps of one part only.                                       *)
(***************************************************************************)
EXTENDS AccountStore, Transactions, BackupRestore, Imports, Updater, LogRuntime, Scheduler, MultiInstance,
        PublicLookups, ClientSettings, WindowLayouts, TLC

CONSTANTS a1, a2,     \* accounts with windows
          d1          \* the folder that Roblox starts from at first

VARIABLE part

\* Where the windows of the two accounts are to be at first.
LayoutsAtFirst ==
    IF part = "windows" THEN layout[a1] = 1 /\ layout[a2] \in {NoSpot, 2}
    ELSE (\A a \in Owners : layout[a] = NoSpot) /\ ~ remember

\* The parts whose steps are not taken begin in one state.
RecordsInit ==
    /\ part \in {"store", "transactions", "backup", "import", "update", "log", "schedule", "lock", "lookups",
               "files", "windows"}
    /\ StoreInit /\ (part # "store" => accounts = [id \in Ids |-> NoAccount])
    /\ BackupInit /\ (part # "backup" => backups[1].schema = "current")
    /\ ImportsInit /\ (part # "import" => /\ tables.groups = {} /\ tables.run = "none" /\ tables.blobs = {}
                                        /\ ~ tables.accounts[Some].own)
    /\ LogInit /\ (part # "log" => bound /\ shown = "in_game")
    /\ MultiInit /\ (part # "lock" => calm /\ mutex = NoOwner)
    /\ ClientSettingsInit /\ active = d1
    /\ (part # "files" => flags = [d \in Folders |-> NoFlags] /\ ~ globals.there)
    /\ WindowInit /\ LayoutsAtFirst
    /\ TransactionsInit /\ UpdaterInit /\ SchedulerInit /\ LookupInit

RecordsNext ==
    /\ UNCHANGED part
    /\ \/ /\ part = "store" /\ StoreNext
          /\ UNCHANGED <<transactionVars, backupVars, importVars, updaterVars, logVars, scheduleVars,
                         multiVars, lookupVars, clientFileVars, windowVars>>
       \/ /\ part = "transactions" /\ TransactionsNext
          /\ UNCHANGED <<storeVars, backupVars, importVars, updaterVars, logVars, scheduleVars,
                         multiVars, lookupVars, clientFileVars, windowVars>>
       \/ /\ part = "backup" /\ BackupNext
          /\ UNCHANGED <<storeVars, transactionVars, importVars, updaterVars, logVars, scheduleVars,
                         multiVars, lookupVars, clientFileVars, windowVars>>
       \/ /\ part = "import" /\ ImportsNext
          /\ UNCHANGED <<storeVars, transactionVars, backupVars, updaterVars, logVars, scheduleVars,
                         multiVars, lookupVars, clientFileVars, windowVars>>
       \/ /\ part = "update" /\ UpdaterNext
          /\ UNCHANGED <<storeVars, transactionVars, backupVars, importVars, logVars, scheduleVars,
                         multiVars, lookupVars, clientFileVars, windowVars>>
       \/ /\ part = "log" /\ LogNext
          /\ UNCHANGED <<storeVars, transactionVars, backupVars, importVars, updaterVars, scheduleVars,
                         multiVars, lookupVars, clientFileVars, windowVars>>
       \/ /\ part = "schedule" /\ SchedulerNext
          /\ UNCHANGED <<storeVars, transactionVars, backupVars, importVars, updaterVars, logVars,
                         multiVars, lookupVars, clientFileVars, windowVars>>
       \/ /\ part = "lock" /\ MultiNext
          /\ UNCHANGED <<storeVars, transactionVars, backupVars, importVars, updaterVars, logVars,
                         scheduleVars, lookupVars, clientFileVars, windowVars>>
       \/ /\ part = "lookups" /\ LookupNext
          /\ UNCHANGED <<storeVars, transactionVars, backupVars, importVars, updaterVars, logVars,
                         scheduleVars, multiVars, clientFileVars, windowVars>>
       \/ /\ part = "files" /\ ClientSettingsNext
          /\ UNCHANGED <<storeVars, transactionVars, backupVars, importVars, updaterVars, logVars,
                         scheduleVars, multiVars, lookupVars, windowVars>>
       \/ /\ part = "windows" /\ WindowNext
          /\ UNCHANGED <<storeVars, transactionVars, backupVars, importVars, updaterVars, logVars,
                         scheduleVars, multiVars, lookupVars, clientFileVars>>

recordsVars == <<part, storeVars, transactionVars, backupVars, importVars, updaterVars, logVars,
                 scheduleVars, multiVars, lookupVars, clientFileVars, windowVars>>
RecordsSpec == RecordsInit /\ [][RecordsNext]_recordsVars

\* Two threads that read logs or ask Roblox can be exchanged, and two process ids.
Exchanges == Permutations(Scanners) \union Permutations(ProcessIds)

\* What the screen says is so: the label of an account follows the log of its client, and the
\* slot that is shown for a task is one at which it comes due; what Roblox said is not shown for long.
ShownIsSo == LabelFollowsLog /\ ShownSlotComesDue /\ LookupsAreRight

\* What is kept in two places fits: an account and its secrets, the file of the client and its copy.
CopiesFit == SecretsFitAccounts /\ CopyIsOfTheUser

\* What is refused or undone half-way loses nothing of what was there: an account, what the user
\* chose in the client, or where the windows of an account are.
NothingIsLost == FailedCallLeavesNothing /\ ClientFilesSurvive /\ LayoutsHold

\* The type invariants of the parts.
RecordsTypeOK ==
    /\ StoreTypeOK /\ TransactionsTypeOK /\ BackupTypeOK /\ ImportsTypeOK
    /\ UpdaterTypeOK /\ LogTypeOK /\ ScheduleTypeOK /\ MultiTypeOK
    /\ LookupTypeOK /\ ClientFilesTypeOK /\ WindowTypeOK
=============================================================================
