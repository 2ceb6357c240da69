-------------------------------- MODULE Updater --------------------------------
(***************************************************************************)
(* The updater (core/updater.py): a release is downloaded and staged, its  *)
(* installation is scheduled, and on exit a detached helper replaces the   *)
(* executable.  Everything is kept in files; downloads of two bridge       *)
(* threads overlap, and the machine may go down between any two steps.     *)
(* Nothing keeps the application from running twice, or a helper from      *)
(* being started while another one is at work.                             *)
(*                                                                         *)
(* The content of a file is the number of the release it holds, Torn while *)
(* it is being written or when its writer did not finish, or NoFile.  A    *)
(* digest identifies a content, so a manifest is the release it describes. *)
(***************************************************************************)
EXTENDS Integers

CONSTANTS
    Downloaders,    \* bridge threads that may run a download
    Helpers,        \* bound on the helpers that are at work at once
    MaxRelease,     \* bound on the releases that appear
    MaxTogether     \* bound on the steps described from then on where two were at work

ASSUME UpdaterAssumption == MaxRelease \in Nat \ {0} /\ MaxTogether \in Nat \ {0}

NoFile == 0
Torn == -1
Releases == 1..MaxRelease
FileContent == Releases \cup {NoFile, Torn}

VARIABLES
    published,      \* the latest release on GitHub
    files,          \* the files of the update directory and beside the executable
    running,        \* the release that runs, NoFile when the application is down
    download,       \* [Downloaders -> where a call of download_latest is]
    helper,         \* [Helpers -> a detached PowerShell helper: [pc, digest]]
    together        \* history: steps since two helpers were at work, or a copy of the
                    \* application was left when one ended; 0 as long as that never was

updaterVars == <<published, files, running, download, helper, together>>

UpdateFile == {"part", "staged", "manifest", "pending", "incoming", "target", "backup"}
NoHelper == [pc |-> "none", digest |-> NoFile]

UpdaterTypeOK ==
    /\ published \in Releases
    /\ files \in [UpdateFile -> FileContent]
    /\ running \in Releases \cup {NoFile}
    /\ download \in [Downloaders -> [pc : {"idle", "writing", "written", "staged"}, release : Releases \cup {NoFile}]]
    /\ helper \in [Helpers -> [pc : {"none", "waits", "copying", "copied", "checked", "saving", "saved", "moving",
                                    "moved", "cleaned", "tidied"},
                               digest : Releases \cup {NoFile}]]
    /\ together \in 0..MaxTogether

NoDownload == [pc |-> "idle", release |-> NoFile]

UpdaterInit ==
    /\ published = 1
    /\ files = [f \in UpdateFile |-> IF f = "target" THEN 1 ELSE NoFile]
    /\ running = 1
    /\ download = [d \in Downloaders |-> NoDownload]
    /\ helper = [h \in Helpers |-> NoHelper]
    /\ together = 0

Whole(f) == files[f] \in Releases

-----------------------------------------------------------------------------
(* The outside world. *)

PublishRelease ==
    /\ published < MaxRelease
    /\ published' = published + 1
    /\ UNCHANGED <<files, running, download, helper>>

\* The executable starts; only a whole file can.  A second copy runs the same file and does what
\* the first may do: it matters when one of them ends.
StartApplication ==
    /\ running = NoFile /\ Whole("target")
    /\ running' = files["target"]
    /\ UNCHANGED <<published, files, download, helper>>

-----------------------------------------------------------------------------
(* download_latest *)

Call(d, pc, r) == download' = [download EXCEPT ![d] = [pc |-> pc, release |-> r]]
Puts(f, c) == files' = [files EXCEPT ![f] = c]

\* check_for_updates, the transfer and its checks of size, header and checksum: only a newer
\* release is taken.  Then write_bytes truncates the one .part file.
BeginDownload(d) ==
    /\ running # NoFile /\ download[d].pc = "idle"
    /\ published > running
    /\ Call(d, "writing", published)
    /\ Puts("part", Torn)
    /\ UNCHANGED <<published, running, helper>>

\* A download overtaken in the .part file leaves its bytes there all the same.
PartWritten(d) ==
    /\ download[d].pc = "writing"
    /\ Call(d, "written", download[d].release)
    /\ \/ files["part"] # NoFile /\ Puts("part", download[d].release)
       \/ UNCHANGED files     \* another call has moved the file away, or writes it still
    /\ UNCHANGED <<published, running, helper>>

\* os.replace(temporary, staged_path): moves whatever the .part file holds now.
StagePart(d) ==
    /\ download[d].pc = "written"
    /\ IF files["part"] = NoFile
       THEN Call(d, "idle", NoFile) /\ UNCHANGED files
       ELSE /\ files' = [files EXCEPT !["staged"] = files["part"], !["part"] = NoFile]
            /\ Call(d, "staged", download[d].release)
    /\ UNCHANGED <<published, running, helper>>

\* _write_manifest: a temporary file and os.replace, so the manifest is whole.
WriteStagedManifest(d) ==
    /\ download[d].pc = "staged"
    /\ Puts("manifest", download[d].release)
    /\ Call(d, "idle", NoFile)
    /\ UNCHANGED <<published, running, helper>>

-----------------------------------------------------------------------------
(* install_on_exit, cancel_staged *)

\* What install_on_exit checks of the staged file: size, header and digest.
StagedMatches == files["manifest"] # NoFile /\ files["staged"] = files["manifest"]

ScheduleInstall ==
    /\ running # NoFile
    /\ StagedMatches
    /\ Puts("pending", files["manifest"])
    /\ UNCHANGED <<published, running, download, helper>>

\* unlink of the pending install, the manifest and the staged file, in this order; the last
\* ones stay when one of them cannot be removed.
CancelStaged ==
    /\ running # NoFile
    /\ \E gone \in {{"pending"}, {"pending", "manifest"}, {"pending", "manifest", "staged"}} :
           files' = [f \in UpdateFile |-> IF f \in gone THEN NoFile ELSE files[f]]
    /\ UNCHANGED <<published, running, download, helper>>

\* close() and apply_pending_on_exit: the staged file is checked against the pending manifest,
\* and the helper is given the digest that was checked.
PendingMatches == files["pending"] # NoFile /\ files["staged"] = files["pending"]

StartHelper(h) ==
    /\ helper[h] = NoHelper
    /\ helper' = [helper EXCEPT ![h] = [pc |-> "waits", digest |-> files["pending"]]]

\* Nobody looks whether a helper is at work already.
AppliesPending ==
    \/ PendingMatches /\ \E h \in Helpers : StartHelper(h)
    \/ UNCHANGED helper     \* nothing to install, or the helper could not be started

\* The application ends, and with it the downloads of its threads.
Exit ==
    /\ running # NoFile
    /\ running' = NoFile
    /\ download' = [d \in Downloaders |-> NoDownload]
    /\ AppliesPending
    /\ UNCHANGED <<published, files>>

\* It was started twice, and one copy ends.
ExitOfOne ==
    /\ running # NoFile
    /\ \E ended \in SUBSET Downloaders :
           download' = [d \in Downloaders |-> IF d \in ended THEN NoDownload ELSE download[d]]
    /\ AppliesPending
    /\ UNCHANGED <<published, files, running>>

-----------------------------------------------------------------------------
(* The script of a helper, statement by statement.  Any of them may fail, and ends it. *)

HelperAt(h, pc) == helper[h].pc = pc
HelperGoes(h, pc) == helper' = [helper EXCEPT ![h].pc = pc]
HelperEnds(h) == helper' = [helper EXCEPT ![h] = NoHelper]
HelperFails(h) == HelperEnds(h) /\ UNCHANGED files

\* A file that another helper reads or writes just now is locked.
InUse(h, pc) == \E g \in Helpers \ {h} : HelperAt(g, pc)

\* It waits for the process id of the application that started it, which has ended or ends
\* within a minute; otherwise it gives up.
HelperWaits(h) ==
    /\ HelperAt(h, "waits")
    /\ \/ ~ InUse(h, "copying") /\ HelperGoes(h, "copying") /\ Puts("incoming", Torn)
       \/ HelperFails(h)
    /\ UNCHANGED <<published, running, download>>

HelperCopies(h) ==
    /\ HelperAt(h, "copying")
    /\ \/ files["staged"] # NoFile /\ HelperGoes(h, "copied") /\ Puts("incoming", files["staged"])
       \/ HelperFails(h)
    /\ UNCHANGED <<published, running, download>>

\* Get-FileHash of the copy against the digest in the environment.
CopyIsGood(h) == files["incoming"] = helper[h].digest

HelperChecks(h) ==
    /\ HelperAt(h, "copied")
    /\ \/ CopyIsGood(h) /\ HelperGoes(h, "checked") /\ UNCHANGED files
       \/ ~ CopyIsGood(h) /\ ~ InUse(h, "copying") /\ HelperEnds(h) /\ Puts("incoming", NoFile)
       \/ HelperFails(h)
    /\ UNCHANGED <<published, running, download>>

\* A plausible mistake: not waiting for the copy.
SavesWithoutWaiting(h) ==
    /\ HelperAt(h, "checked") /\ HelperGoes(h, "saved") /\ Puts("backup", Torn)
    /\ UNCHANGED <<published, running, download>>
HelperSaves(h) ==
    /\ \/ /\ HelperAt(h, "checked") /\ ~ InUse(h, "saving") /\ files["target"] # NoFile
          /\ HelperGoes(h, "saving") /\ Puts("backup", Torn)
       \/ HelperAt(h, "saving") /\ HelperGoes(h, "saved") /\ Puts("backup", files["target"])
       \/ (HelperAt(h, "checked") \/ HelperAt(h, "saving")) /\ HelperFails(h)
    /\ UNCHANGED <<published, running, download>>

\* Move-Item -Force over an existing file is not one step: the file goes, then the copy gets its
\* name.  A running executable is locked: the move fails and the script stops.
HelperMoves(h) ==
    /\ \/ /\ HelperAt(h, "saved") /\ running = NoFile /\ ~ InUse(h, "saving") /\ files["incoming"] # NoFile
          /\ HelperGoes(h, "moving") /\ Puts("target", NoFile)
       \/ /\ HelperAt(h, "moving") /\ ~ InUse(h, "copying") /\ files["incoming"] # NoFile
          /\ HelperGoes(h, "moved")
          /\ files' = [files EXCEPT !["target"] = files["incoming"], !["incoming"] = NoFile]
       \/ (HelperAt(h, "saved") \/ HelperAt(h, "moving")) /\ HelperFails(h)
    /\ UNCHANGED <<published, running, download>>

\* The staged file, the manifest and the pending install go, each silently kept when locked;
\* then the new executable is started, also when the user has started it already.
HelperTidies(h) ==
    /\ \E next \in {<<"moved", "cleaned", "staged">>, <<"cleaned", "tidied", "manifest">>,
                    <<"tidied", "none", "pending">>} :
         /\ HelperAt(h, next[1])
         /\ IF next[2] = "none" THEN HelperEnds(h) ELSE HelperGoes(h, next[2])
         /\ Puts(next[3], NoFile) \/ UNCHANGED files
         /\ IF next[2] = "none" /\ running = NoFile /\ Whole("target")
            THEN running' = files["target"] ELSE UNCHANGED running
    /\ UNCHANGED <<published, download>>

\* Power goes: the application and the helpers end, files stay as they are.
PowerFails ==
    /\ running' = NoFile
    /\ download' = [d \in Downloaders |-> NoDownload]
    /\ helper' = [h \in Helpers |-> NoHelper]
    /\ UNCHANGED <<published, files>>

UpdateSteps ==
    \/ PublishRelease \/ StartApplication
    \/ \E d \in Downloaders : BeginDownload(d) \/ PartWritten(d) \/ StagePart(d) \/ WriteStagedManifest(d)
    \/ ScheduleInstall \/ CancelStaged \/ Exit
    \/ \E h \in Helpers : HelperWaits(h) \/ HelperCopies(h) \/ HelperChecks(h) \/ HelperSaves(h)
                           \/ HelperMoves(h) \/ HelperTidies(h)
    \/ PowerFails

TwoHelpers == \E g, h \in Helpers : g # h /\ helper[g] # NoHelper /\ helper[h] # NoHelper

Together(now) == together' = IF together = 0 /\ ~ now THEN 0 ELSE together + 1

UpdaterNext ==
    /\ together < MaxTogether
    /\ \/ UpdateSteps /\ Together(TwoHelpers')
       \/ ExitOfOne /\ Together(TRUE)

UpdaterSpec == UpdaterInit /\ [][UpdaterNext]_updaterVars

-----------------------------------------------------------------------------
(* Properties *)

\* At every moment, whatever was interrupted, an executable that can be started is at its place
\* or in the backup beside it: the copy is checked before the target is touched, and the target
\* is copied before it is replaced.
InstallationSurvives == Whole("target") \/ Whole("backup")

\* An installation never replaces the executable with an older or a damaged one, although
\* downloads overlap in one .part file and leftovers of an earlier installation stay behind.
NeverOlder ==
    files["target"] # files'["target"] /\ files'["target"] # NoFile
        => files'["target"] \in Releases /\ (Whole("backup") => files'["target"] >= files["backup"])

\* As long as one copy of the application runs at a time and one helper, an interrupted
\* installation leaves a program that starts, and no installation goes backwards.
UpdatesAreSafe == [][together' = 0 => InstallationSurvives' /\ NeverOlder]_updaterVars
=============================================================================
