--------------------------- MODULE SettingsSnapshot ----------------------------
(***************************************************************************)
(* Reading and writing one setting: get_settings of                        *)
(* services/application_service.py keeps a snapshot and trusts it as long  *)
(* as the settings_revision of repositories/sqlite_repository.py does not  *)
(* move; set_setting moves it; restore_backup replaces the repository.     *)
(***************************************************************************)
EXTENDS Naturals

CONSTANTS
    Callers,      \* bridge threads, and the watcher, which reads settings all the time
    Values,       \* values of the setting
    Unread,       \* nothing was read yet
    MaxRevision,  \* bound: writes of the settings
    MaxRestores   \* bound: restored backups

VARIABLES
    stored,    \* the value in the database
    revision,  \* _settings_revision of the repository
    repository,\* which repository object it is: a restore makes a new one
    open,      \* FALSE while the file is being replaced
    snapshot,  \* _settings_snapshot
    caller     \* caller[u]: where a call is, and its local variables

settingsVars == <<stored, revision, repository, open, snapshot, caller>>

-----------------------------------------------------------------------------
Idle == [pc |-> "idle", revision |-> 0, value |-> Unread, repository |-> 0]

InCall(u, pc) == caller[u].pc = pc
Ends(u) == caller' = [caller EXCEPT ![u] = Idle]

Trusted == snapshot.value # Unread /\ snapshot.revision = revision

\* get_settings: the revision is read, and the snapshot is returned if it is of that
\* revision ...
ReadRevision(u) ==
    /\ InCall(u, "idle")
    /\ ~ Trusted
    /\ caller' = [caller EXCEPT ![u] = [Idle EXCEPT !.pc = "list", !.revision = revision]]
    /\ UNCHANGED <<stored, revision, repository, open, snapshot>>

\* ... otherwise the stored values are read (a closed repository raises) ...
ListSettings(u) ==
    /\ InCall(u, "list")
    /\ IF open THEN caller' = [caller EXCEPT ![u].pc = "keep", ![u].value = stored] ELSE Ends(u)
    /\ UNCHANGED <<stored, revision, repository, open, snapshot>>

\* ... and kept as the snapshot of the revision that was read first.
KeepSnapshot(u) ==
    /\ InCall(u, "keep")
    /\ snapshot' = [revision |-> caller[u].revision, value |-> caller[u].value]
    /\ Ends(u)
    /\ UNCHANGED <<stored, revision, repository, open>>

\* set_setting moves the revision, then waits for the lock of the repository ...
MoveRevision(u, v) ==
    /\ InCall(u, "idle")
    /\ revision < MaxRevision
    /\ revision' = revision + 1
    /\ caller' = [caller EXCEPT ![u] =
         [Idle EXCEPT !.pc = "commit", !.value = v, !.repository = repository]]
    /\ UNCHANGED <<stored, repository, open, snapshot>>

\* ... and commits, unless that repository was closed meanwhile.
Commit(u) ==
    /\ InCall(u, "commit")
    /\ stored' = IF open /\ caller[u].repository = repository THEN caller[u].value ELSE stored
    /\ Ends(u)
    /\ UNCHANGED <<revision, repository, open, snapshot>>

\* restore_backup closes the repository, replaces the file and opens a new repository, whose
\* revision starts at zero.  The backup holds every setting, so no default is written.
CloseRepository(u) ==
    /\ InCall(u, "idle")
    /\ open /\ repository < MaxRestores
    /\ open' = FALSE
    /\ caller' = [caller EXCEPT ![u].pc = "replace"]
    /\ UNCHANGED <<stored, revision, repository, snapshot>>

OpenRepository(u, v) ==
    /\ InCall(u, "replace")
    /\ stored' = v /\ revision' = 0
    /\ repository' = repository + 1 /\ open' = TRUE
    /\ Ends(u)
    /\ UNCHANGED snapshot

-----------------------------------------------------------------------------
SettingsInit ==
    /\ stored \in Values
    /\ revision = 0 /\ repository = 0 /\ open = TRUE
    /\ snapshot = [revision |-> 0, value |-> Unread]
    /\ caller = [u \in Callers |-> Idle]

SettingsNext ==
    \E u \in Callers :
        \/ ReadRevision(u) \/ ListSettings(u) \/ KeepSnapshot(u)
        \/ Commit(u) \/ CloseRepository(u)
        \/ \E v \in Values : MoveRevision(u, v) \/ OpenRepository(u, v)

SettingsSpec == SettingsInit /\ [][SettingsNext]_settingsVars

-----------------------------------------------------------------------------
(* Properties *)

\* "A caller may hold a settings snapshot and trust it for as long as this number does not
\* move": when no write and no restore is under way, a trusted snapshot shows what is stored.
SnapshotTrusted ==
    (Trusted /\ \A u \in Callers : caller[u].pc \notin {"commit", "replace"})
        => snapshot.value = stored

=============================================================================
