----------------------------- MODULE SettingsChange -----------------------------
(***************************************************************************)
(* Changing settings: update_settings, reset_settings and                  *)
(* set_windows_startup.  A change is more than rows of the settings table: *)
(* the file Roblox reads its frame cap from, the Run key of Windows and    *)
(* the monitor follow it, one after the other, and each of these writes    *)
(* may be refused.  Bridge threads may change settings side by side.       *)
(***************************************************************************)
EXTENDS Integers, FiniteSets, Functions

CONSTANTS
    Changers,       \* bridge threads
    Updates,        \* what a caller of update_settings may ask for
    MaxChangeCalls, \* bound: calls
    MaxRefusals     \* bound: writes that are refused

VARIABLES
    stored,         \* the settings table over the defaults
    capFile,        \* the frame cap in ClientAppSettings.json
    run,            \* the Run value: none, of this executable, or of one that has moved
    watchedWith,    \* the watcher options the monitor works with
    change,         \* change[u]: the call of u
    resetOk,        \* a reset of everything was the last call, and it came to its end
    changeCalls,
    refusals,
    broken          \* history: why the parts may disagree (calls that overlap, rows written by half, the
                    \* file patched by half, a write not undone, an error before the monitor is told)

changeVars == <<stored, capFile, run, watchedWith, change, resetOk, changeCalls, refusals, broken>>

\* The settings, by what depends on them: the file, each other (the memory thresholds), the
\* monitor, the recent games, the Run key; "extra" is a path no default knows.
Defaults == [fps |-> 1, warn |-> 1, critical |-> 2, watch |-> 1, recent |-> 1, startup |-> 0, extra |-> 0]
Paths == DOMAIN Defaults

\* What a caller may ask for names some of the settings, each with a value of its range.
ASSUME UpdatesAssumption ==
    \A values \in Updates :
        DOMAIN values \subseteq Paths /\ \A p \in DOMAIN values : values[p] \in 0..2
On == 1

\* _validate_settings: each value has its range, which the callers here keep, and the
\* critical threshold is not below the warning.
Acceptable(s) == s.critical >= s.warn

\* merge_settings.
Merged(s, values) == [p \in Paths |-> IF p \in DOMAIN values THEN values[p] ELSE s[p]]

NoCall == [at |-> "idle", values |-> <<>>, todo |-> {}, before |-> 0, patched |-> FALSE,
           wrote |-> FALSE, resets |-> {}, on |-> 0]
At(u, at) == change[u].at = at
Quiet == \A u \in Changers : At(u, "idle")

ChangeInit ==
    /\ \E startup \in {0, On}, extra \in {0, 1} :
          stored = [Defaults EXCEPT !.startup = startup, !.extra = extra]
    /\ capFile = stored.fps /\ watchedWith = stored.watch
    /\ run \in IF stored.startup = On THEN {"ours", "moved"} ELSE {"none"}
    /\ change = [u \in Changers |-> NoCall]
    /\ resetOk = FALSE /\ changeCalls = 0 /\ refusals = 0 /\ broken = {}

\* A call begins; from then on it may meet another one.
Begins(u, call) ==
    /\ At(u, "idle") /\ changeCalls < MaxChangeCalls /\ changeCalls' = changeCalls + 1
    /\ change' = [change EXCEPT ![u] = call]
    /\ broken' = IF Quiet THEN broken ELSE broken \cup {"overlap"}
    /\ resetOk' = FALSE

Goes(u, call) == change' = [change EXCEPT ![u] = call]
Refused == refusals < MaxRefusals /\ refusals' = refusals + 1
EndsRefused(u) == Goes(u, NoCall) /\ resetOk' = FALSE

(***************************************************************************)
(* update_settings                                                         *)
(***************************************************************************)

\* The whole of the settings, as they would be, is checked before anything is written; the
\* Run key is not this call's to change.
Writes(values, resets) ==
    [NoCall EXCEPT !.at = IF "fps" \in DOMAIN values THEN "patch" ELSE "write",
                   !.values = values, !.todo = DOMAIN values, !.resets = resets]
UpdateSettings(u, values) ==
    /\ "startup" \notin DOMAIN values
    /\ Begins(u, IF Acceptable(Merged(stored, values)) THEN Writes(values, {}) ELSE NoCall)
    /\ UNCHANGED <<stored, capFile, run, watchedWith, refusals>>

\* The file comes first: if it cannot be written, nothing is saved.  It is written in two parts,
\* the flags and the global cap; if the second is refused, the first is not taken back.
PatchFile(u) ==
    /\ At(u, "patch")
    /\ capFile' = change[u].values.fps
    /\ Goes(u, [change[u] EXCEPT !.at = "write", !.patched = TRUE, !.before = stored.fps])
    /\ UNCHANGED <<stored, run, watchedWith, resetOk, changeCalls, refusals, broken>>
PatchRefused(u) ==
    /\ At(u, "patch") /\ Refused /\ EndsRefused(u)
    /\ \/ UNCHANGED <<capFile, broken>>
       \/ capFile' = change[u].values.fps /\ broken' = broken \cup {"half"}
    /\ UNCHANGED <<stored, run, watchedWith, changeCalls>>

\* Then one path after the other, each in a transaction of its own.
SetSetting(u, path) ==
    /\ At(u, "write") /\ path \in change[u].todo
    /\ stored' = [stored EXCEPT ![path] = change[u].values[path]]
    /\ Goes(u, [change[u] EXCEPT !.todo = @ \ {path}, !.wrote = TRUE])
    /\ UNCHANGED <<capFile, run, watchedWith, resetOk, changeCalls, refusals, broken>>

\* A refused one undoes the file and leaves what is already saved.
LeavesFile(u) == capFile                               \* a plausible mistake
UndoesFile(u) == IF change[u].patched THEN change[u].before ELSE capFile
SetSettingRefused(u) ==
    /\ At(u, "write") /\ change[u].todo # {} /\ Refused /\ EndsRefused(u)
    /\ \E undone \in IF change[u].patched THEN BOOLEAN ELSE {TRUE} :
          /\ capFile' = IF undone THEN UndoesFile(u) ELSE capFile
          /\ broken' = broken \cup (IF change[u].wrote THEN {"torn"} ELSE {})
                              \cup (IF undone THEN {} ELSE {"uncompensated"})
    /\ UNCHANGED <<stored, run, watchedWith, changeCalls>>

\* A shorter list of recent games is applied at once; if that is refused the settings are
\* saved but nobody is told.
PruneRefused(u) ==
    /\ At(u, "write") /\ change[u].todo = {} /\ "recent" \in DOMAIN change[u].values
    /\ Refused /\ EndsRefused(u)
    /\ broken' = broken \cup {"untold"}
    /\ UNCHANGED <<stored, capFile, run, watchedWith, changeCalls>>

\* The monitor and the watcher follow.
NewOptions(u) == stored.watch
Told(u) ==
    /\ At(u, "write") /\ change[u].todo = {}
    /\ watchedWith' = NewOptions(u)
    /\ Goes(u, IF change[u].resets = {} THEN NoCall ELSE [change[u] EXCEPT !.at = "clear"])
    /\ UNCHANGED <<stored, capFile, run, resetOk, changeCalls, refusals, broken>>

(***************************************************************************)
(* reset_settings                                                          *)
(***************************************************************************)

\* Everything, or one category; a registered start-up is removed first.
DefaultsOf(scope) == Restrict(Defaults, scope \ {"startup", "extra"})
ResetSettings(u, scope) ==
    /\ Begins(u, IF "startup" \in scope /\ stored.startup = On
                 THEN [NoCall EXCEPT !.at = "register", !.on = 0, !.resets = scope]
                 ELSE IF Acceptable(Merged(stored, DefaultsOf(scope))) THEN Writes(DefaultsOf(scope), scope)
                 ELSE NoCall)
    /\ UNCHANGED <<stored, capFile, run, watchedWith, refusals>>

\* Paths no default knows go last.
DeleteExtra(u) ==
    /\ At(u, "clear")
    /\ stored' = IF "extra" \in change[u].resets THEN [stored EXCEPT !.extra = 0] ELSE stored
    /\ resetOk' = (change[u].resets = Paths)
    /\ Goes(u, NoCall)
    /\ UNCHANGED <<capFile, run, watchedWith, changeCalls, refusals, broken>>
DeleteRefused(u) ==
    /\ At(u, "clear") /\ stored.extra # 0 /\ Refused /\ EndsRefused(u)
    /\ UNCHANGED <<stored, capFile, run, watchedWith, changeCalls, broken>>

(***************************************************************************)
(* set_windows_startup                                                     *)
(***************************************************************************)

RunValue(on) == IF on = On THEN "ours" ELSE "none"

SetWindowsStartup(u, on) ==
    /\ Begins(u, [NoCall EXCEPT !.at = "register", !.on = on])
    /\ UNCHANGED <<stored, capFile, run, watchedWith, refusals>>

\* WindowsStartupManager.enable or disable, which ends by reading the value back.
Register(u) ==
    /\ At(u, "register")
    /\ run' = RunValue(change[u].on)
    /\ Goes(u, [change[u] EXCEPT !.at = "keep"])
    /\ UNCHANGED <<stored, capFile, watchedWith, resetOk, changeCalls, refusals, broken>>
\* It is refused, or a value that was written cannot be read back: nothing is undone then.
RegisterRefused(u) ==
    /\ At(u, "register") /\ Refused /\ EndsRefused(u)
    /\ \/ UNCHANGED <<run, broken>>
       \/ /\ change[u].on = On /\ run' = RunValue(On)
          /\ broken' = IF stored.startup = On THEN broken ELSE broken \cup {"uncompensated"}
    /\ UNCHANGED <<stored, capFile, watchedWith, changeCalls>>

\* The preference is saved once Windows has it ...
KeepStartup(u) ==
    /\ At(u, "keep")
    /\ stored' = [stored EXCEPT !.startup = change[u].on]
    /\ Goes(u, IF change[u].resets = {} THEN NoCall
               ELSE IF Acceptable(Merged(stored, DefaultsOf(change[u].resets)))
               THEN Writes(DefaultsOf(change[u].resets), change[u].resets)
               ELSE NoCall)
    /\ UNCHANGED <<capFile, run, watchedWith, resetOk, changeCalls, refusals, broken>>
\* ... or Windows is put back, if it lets us.
KeepRefused(u) ==
    /\ At(u, "keep") /\ Refused /\ EndsRefused(u)
    /\ \/ /\ run' = RunValue(On - change[u].on)
          /\ broken' = IF stored.startup = change[u].on THEN broken \cup {"uncompensated"} ELSE broken
       \/ run' = run /\ broken' = broken \cup {"uncompensated"}
    /\ UNCHANGED <<stored, capFile, watchedWith, changeCalls>>

ChangeNext ==
    \E u \in Changers :
        \/ \E values \in Updates : UpdateSettings(u, values)
        \/ PatchFile(u) \/ PatchRefused(u)
        \/ \E path \in Paths : SetSetting(u, path)
        \/ SetSettingRefused(u) \/ PruneRefused(u) \/ Told(u)
        \/ ResetSettings(u, Paths) \/ ResetSettings(u, {"watch"})
        \/ DeleteExtra(u) \/ DeleteRefused(u)
        \/ \E on \in {0, On} : SetWindowsStartup(u, on)
        \/ Register(u) \/ RegisterRefused(u) \/ KeepStartup(u) \/ KeepRefused(u)

ChangeSpec == ChangeInit /\ [][ChangeNext]_changeVars

(***************************************************************************)
(* Properties.  Two calls that overlap may undo each other, and an update  *)
(* that is refused half-way keeps the half it saved, of the rows or of the *)
(* file; the parts must agree in every other case.                         *)
(***************************************************************************)

ChangeTypeOK ==
    /\ stored \in [Paths -> 0..2] /\ capFile \in 0..2 /\ watchedWith \in 0..2
    /\ run \in {"none", "ours", "moved"}
    /\ \A u \in Changers : change[u].at \in {"idle", "patch", "write", "clear", "register", "keep"}
    /\ broken \subseteq {"overlap", "torn", "half", "uncompensated", "untold"}

Except(reasons) == Quiet /\ broken \cap reasons = {}

\* The file of Roblox has the cap that is stored, as far as settings go: whenever a write of
\* settings is refused after the file was patched, the file is put back.
FileFollows == Except({"overlap", "torn", "half", "uncompensated"}) => capFile = stored.fps

\* No two settings contradict each other, although each write is checked alone.
StoredIsAcceptable == Except({"overlap", "torn"}) => Acceptable(stored)

\* The preference to start with Windows and the Run key of Windows agree, whichever write
\* was refused, as long as Windows lets the other one be undone.
StartupFollows == Except({"overlap", "uncompensated"}) => (stored.startup = On <=> run # "none")

\* The monitor works with the options that are stored.
MonitorFollows == Except({"overlap", "torn", "untold"}) => watchedWith = stored.watch

\* A reset of everything that came to its end has reset everything.
ResetIsWhole == resetOk /\ Except({"overlap"}) => stored = Defaults

\* What hangs on the settings agrees with them.
SettingsAgree == FileFollows /\ StoredIsAcceptable /\ StartupFollows /\ MonitorFollows /\ ResetIsWhole
=============================================================================
