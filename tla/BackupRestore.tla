------------------------------ MODULE BackupRestore ------------------------------
(***************************************************************************)
(* The database file, its write-ahead log, its backups, and restore_backup *)
(* which puts one of them in its place while other threads use the         *)
(* repository.  The process may end at any step and start again.  A        *)
(* content of the database is a number: each commit makes the next one.    *)
(***************************************************************************)
EXTENDS Integers

CONSTANTS
    MaxContent,     \* bound: contents committed
    MaxBackups,     \* bound: backups begun
    MaxCrashes      \* bound: ends of the process

ASSUME BackupAssumption == MaxContent \in Nat /\ MaxBackups \in Nat \ {0} /\ MaxCrashes \in Nat

Contents == 0..MaxContent
Backups == 1..MaxBackups
NoContent == -1
Mixed == -2                     \* pages of one file under the log of another

\* A schema is one this program migrates or knows, or one of a later program.
Schemas == {"older", "current", "newer"}

VARIABLES
    main,           \* the database file
    wal,            \* commits not in the file yet, and the file they belong to
    backups,        \* the backup directory
    taken,          \* backups begun so far
    repository,     \* the service's connection; "unopened": closed, since the file did not open
    reader,         \* create_sqlite_backup has the source open
    maker,          \* create_backup on behalf of the user or of a restore
    restore,        \* restore_backup
    alive,          \* the process runs
    committed,      \* contents committed so far
    crashes

backupVars == <<main, wal, backups, taken, repository, reader, maker, restore, alive, committed, crashes>>

DatabaseFile(content, schema, born) == [content |-> content, schema |-> schema, born |-> born]
NoWal == [content |-> NoContent, of |-> 0]

\* What a connection reads.
Readable ==
    IF wal = NoWal THEN main.content
    ELSE IF wal.of = main.born THEN wal.content ELSE Mixed

\* A backup: nothing yet, a .partial file, a payload without a manifest, both, or altered since.
NoBackup == [content |-> NoContent, schema |-> "current", state |-> "none"]
Listed(b) == backups[b].state \in {"listed", "altered"}
Verified(b) == backups[b].state = "listed"

NoMaker == [at |-> "idle", b |-> 0]
NoRestore == [at |-> "idle", b |-> 0, safety |-> 0, later |-> FALSE]

\* A backup of the database as it was first.
BackupBeforeAny == NoContent - 2        \* a plausible mistake
FirstBackup == 0

BackupInit ==
    /\ main = DatabaseFile(0, "current", 0) /\ wal = NoWal
    /\ \E schema \in Schemas :
          backups = [b \in Backups |->
              IF b = 1 THEN [content |-> FirstBackup, schema |-> schema, state |-> "listed"] ELSE NoBackup]
    /\ taken = 1
    /\ repository = "open" /\ reader = FALSE
    /\ maker = NoMaker /\ restore = NoRestore
    /\ alive = TRUE /\ committed = 0 /\ crashes = 0

(***************************************************************************)
(* Other threads: each repository call is a transaction on the connection  *)
(* it finds; a closed one refuses (_ensure_open).                          *)
(***************************************************************************)

CommitWrite ==
    /\ alive /\ repository = "open" /\ committed < MaxContent
    /\ committed' = committed + 1
    /\ wal' = [content |-> committed + 1, of |-> main.born]
    /\ restore' = [restore EXCEPT !.later = @ \/ restore.safety # 0]
    /\ UNCHANGED <<main, backups, taken, repository, reader, maker, alive, crashes>>

\* Somebody alters the payload of a backup.
AlterPayload(b) ==
    /\ Verified(b) /\ restore.safety # b
    /\ backups' = [backups EXCEPT ![b].state = "altered"]
    /\ UNCHANGED <<main, wal, taken, repository, reader, maker, restore, alive, committed, crashes>>

(***************************************************************************)
(* create_sqlite_backup, one at a time: a copy through SQLite's own backup *)
(* into a .partial file, renamed, then its manifest written and renamed.   *)
(***************************************************************************)

StartsCopy(at) ==
    /\ maker.at = "idle" /\ taken < MaxBackups
    /\ taken' = taken + 1 /\ reader' = TRUE
    /\ maker' = [at |-> at, b |-> taken + 1]
    /\ backups' = [backups EXCEPT ![taken + 1].state = "partial"]

UserBackup ==
    /\ alive /\ StartsCopy("copy")
    /\ UNCHANGED <<main, wal, repository, restore, alive, committed, crashes>>

\* The last connection to close folds the log into the file and removes it.
Folded ==
    /\ main' = IF wal = NoWal THEN main ELSE [main EXCEPT !.content = Readable]
    /\ wal' = NoWal

CopyEnds ==
    /\ maker.at = "copy"
    /\ reader' = FALSE
    /\ IF repository = "open" THEN UNCHANGED <<main, wal>> ELSE Folded
    /\ \/ /\ backups' = [backups EXCEPT ![maker.b] =
                             [content |-> Readable, schema |-> main.schema, state |-> "copied"]]
          /\ maker' = [maker EXCEPT !.at = "publish"]
          /\ restore' = IF restore.at = "safety" THEN [restore EXCEPT !.safety = maker.b] ELSE restore
       \/ /\ backups' = [backups EXCEPT ![maker.b] = NoBackup]
          /\ maker' = NoMaker
          /\ restore' = IF restore.at = "safety" THEN [restore EXCEPT !.at = "failed"] ELSE restore
    /\ UNCHANGED <<taken, repository, alive, committed, crashes>>

Publish ==
    /\ maker.at = "publish"
    /\ backups' = [backups EXCEPT ![maker.b].state = "payload"]
    /\ maker' = [maker EXCEPT !.at = "manifest"]
    /\ UNCHANGED <<main, wal, taken, repository, reader, restore, alive, committed, crashes>>

\* A backup that could not be listed does not count: the restore ends there.
GoesOn == "checkpoint"                  \* a plausible mistake
NotListed == "failed"

ListBackup ==
    /\ maker.at = "manifest"
    /\ \/ /\ backups' = [backups EXCEPT ![maker.b].state = "listed"]
          /\ restore' = IF restore.at = "safety" THEN [restore EXCEPT !.at = "checkpoint"] ELSE restore
       \/ /\ UNCHANGED backups
          /\ restore' = IF restore.at = "safety" THEN [restore EXCEPT !.at = NotListed] ELSE restore
    /\ maker' = NoMaker
    /\ UNCHANGED <<main, wal, taken, repository, reader, alive, committed, crashes>>

(***************************************************************************)
(* restore_backup.                                                         *)
(***************************************************************************)

Restoring(at) == alive /\ restore.at = at
Step(at) == restore' = [restore EXCEPT !.at = at]

\* get_backup and verify: what has no manifest is not found, what was altered is refused.
BeginRestore(b) ==
    /\ alive /\ restore.at = "idle" /\ Listed(b)
    /\ restore' = [NoRestore EXCEPT !.b = b, !.at = IF Verified(b) THEN "begun" ELSE "failed"]
    /\ UNCHANGED <<main, wal, backups, taken, repository, reader, maker, alive, committed, crashes>>

\* The copy of what is about to be replaced waits for the backup lock.
SafetyCopy ==
    /\ Restoring("begun")
    /\ StartsCopy("copy")
    /\ Step("safety")
    /\ UNCHANGED <<main, wal, repository, alive, committed, crashes>>

\* wal_checkpoint(TRUNCATE) does nothing while another connection reads, and says so in a row
\* nobody looks at.
FoldedUnlessRead == IF reader THEN UNCHANGED <<main, wal>> ELSE Folded

\* A connection that is closed refuses (_ensure_open).
Checkpoint ==
    /\ Restoring("checkpoint")
    /\ \/ repository = "open" /\ FoldedUnlessRead /\ Step("close")
       \/ UNCHANGED <<main, wal>> /\ Step("failed")
    /\ UNCHANGED <<backups, taken, repository, reader, maker, alive, committed, crashes>>

CloseRepository ==
    /\ Restoring("close")
    /\ repository' = "closed"
    /\ FoldedUnlessRead
    /\ Step("sidecars")
    /\ UNCHANGED <<backups, taken, reader, maker, alive, committed, crashes>>

\* A log somebody has open cannot be removed.
RemoveSidecars ==
    /\ Restoring("sidecars")
    /\ \/ ~ reader /\ wal' = NoWal /\ Step("replace")
       \/ UNCHANGED wal /\ Step("failed")
    /\ UNCHANGED <<main, backups, taken, repository, reader, maker, alive, committed, crashes>>

\* restore: verified once more, copied beside the file and renamed over it.
AnyListed == Listed(restore.b)          \* a plausible mistake: the second check is left out
MayReplace == Verified(restore.b)
Payload(b) == IF Verified(b) THEN backups[b].content ELSE Mixed

ReplaceMain ==
    /\ Restoring("replace")
    /\ \/ /\ MayReplace /\ ~ reader
          /\ main' = DatabaseFile(Payload(restore.b), backups[restore.b].schema, main.born + 1)
          /\ Step("open")
       \/ UNCHANGED main /\ Step("failed")
    /\ UNCHANGED <<wal, backups, taken, repository, reader, maker, alive, committed, crashes>>

\* SQLiteRepository(): an older schema is migrated in one transaction, a newer one is refused;
\* and SQLite itself may fail, on a file that is locked or a disk that is full.
Opens == main.schema # "newer"
Opened ==
    /\ main' = [main EXCEPT !.content = Readable, !.schema = "current"]
    /\ wal' = NoWal

\* No except clause of restore_backup takes an error of SQLite itself: the restore is over.
StaysClosed == repository' = "unopened" /\ restore' = NoRestore /\ UNCHANGED <<main, wal>>

OpenRestored ==
    /\ Restoring("open")
    /\ \/ Opens /\ Opened /\ repository' = "open" /\ restore' = NoRestore
       \/ ~ Opens /\ Step("failed") /\ UNCHANGED <<main, wal, repository>>
       \/ StaysClosed
    /\ UNCHANGED <<backups, taken, reader, maker, alive, committed, crashes>>

\* _reopen_repository_after_failed_restore tries the file that is there, whichever it is, and
\* swallows every error.
ReopenAfterFailure ==
    /\ Restoring("failed")
    /\ \/ repository = "open" /\ restore' = NoRestore /\ UNCHANGED <<main, wal, repository>>
       \/ repository # "open" /\ Opens /\ Opened /\ repository' = "open" /\ restore' = NoRestore
       \/ repository # "open" /\ StaysClosed
    /\ UNCHANGED <<backups, taken, reader, maker, alive, committed, crashes>>

(***************************************************************************)
(* The process ends, and the program is started again.                     *)
(***************************************************************************)

Crash ==
    /\ alive /\ crashes < MaxCrashes
    /\ crashes' = crashes + 1
    /\ alive' = FALSE /\ repository' = "closed" /\ reader' = FALSE
    /\ maker' = NoMaker /\ restore' = NoRestore
    /\ UNCHANGED <<main, wal, backups, taken, committed>>

StartAgain ==
    /\ ~ alive /\ Opens
    /\ alive' = TRUE /\ repository' = "open" /\ Opened
    /\ UNCHANGED <<backups, taken, reader, maker, restore, committed, crashes>>

BackupNext ==
    \/ CommitWrite \/ UserBackup \/ CopyEnds \/ Publish \/ ListBackup
    \/ \E b \in Backups : AlterPayload(b) \/ BeginRestore(b)
    \/ SafetyCopy \/ Checkpoint \/ CloseRepository \/ RemoveSidecars \/ ReplaceMain
    \/ OpenRestored \/ ReopenAfterFailure
    \/ Crash \/ StartAgain

BackupSpec == BackupInit /\ [][BackupNext]_backupVars

(***************************************************************************)
(* Properties.                                                             *)
(***************************************************************************)

BackupTypeOK ==
    /\ main.content \in Contents \cup {Mixed} /\ main.schema \in Schemas
    /\ \A b \in Backups : backups[b].content \in Contents \cup {NoContent, Mixed}
    /\ maker.b \in 0..MaxBackups /\ restore.b \in 0..MaxBackups
    /\ repository \in {"open", "closed", "unopened"}

\* The contents of backups a restore may take.
Copied == {backups[b].content : b \in {k \in Backups : backups[k].state \in {"copied", "payload", "listed", "altered"}}}

Durable == INSTANCE DurableStore WITH content <- Readable, copies <- Copied

\* The database keeps its promise through restores, failures and ends of the process: what a
\* reader finds changes by commits and by putting back a whole copy.  In particular the log of
\* one file never meets another file, and a failed restore keeps what was there.
ImplementsDurableStore == Durable!DurableInit /\ [][Durable!DurableNext]_(Durable!durableVars)

\* When the file is replaced, a listed backup holds what it held, except commits made by other
\* threads after the safety copy was read.
WhatIsReplacedIsKept ==
    main'.born # main.born =>
        /\ Listed(restore.safety)
        /\ restore.later \/ backups[restore.safety].content = Readable

ReplacedIsKept == [][WhatIsReplacedIsKept]_backupVars

\* However a restore ends, the running program has its database open, or has tried to open the
\* file that is there and could not: none of the ways out leaves the connection closed behind.
UsableAfterRestore ==
    alive /\ restore.at = "idle" => repository # "closed"

\* A restore loses nothing that was kept, and leaves no connection closed.
RestoreIsSafe == []UsableAfterRestore /\ ReplacedIsKept
=============================================================================
