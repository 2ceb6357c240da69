------------------------------- MODULE Imports -------------------------------
(***************************************************************************)
(* The ways data comes into the workspace in bulk.  A metadata transfer    *)
(* and a migration of the old program's files each run in one transaction  *)
(* of the repository, in which a refused record only undoes itself (a      *)
(* savepoint); a pasted list of accounts is one call of the service after  *)
(* another.                                                                *)
(***************************************************************************)
EXTENDS Integers, Sequences, FiniteSets, SequencesExt, RowOrder

CONSTANTS
    Names,          \* user names, also group names and places: positive integers
    MaxRecords,     \* bound: records of one file or list
    MaxImports      \* bound: imports begun

ASSUME ImportsAssumption == /\ Names \subseteq Nat \ {0} /\ Names # {} /\ IsFiniteSet(Names)
                            /\ MaxRecords \in Nat \ {0} /\ MaxImports \in Nat

VARIABLES
    tables,         \* the tables of the database, as committed
    work,           \* what the importing thread sees inside its transaction
    importer,       \* where the import is
    counts,         \* the report
    imports,        \* imports begun so far
    twice           \* records of a pasted list that were counted twice

importVars == <<tables, work, importer, counts, imports, twice>>

NoName == 0
Some == CHOOSE name \in Names : TRUE

\* An account's row: its group, its flags, and what the user made of it (favourite, alias, link).
Row(group, session) == [here |-> TRUE, group |-> group, session |-> session, own |-> FALSE]
NoRow == [here |-> FALSE, group |-> NoName, session |-> FALSE, own |-> FALSE]

\* Of the settings, those that hold what the old program had; of migration_runs, the last state
\* of one source.
Empty == [groups |-> {}, games |-> {}, accounts |-> [n \in Names |-> NoRow], blobs |-> {},
          settings |-> {}, run |-> "none"]
Has(db, name) == db.accounts[name].here

NoCounts == [groups |-> 0, accounts |-> 0, games |-> 0, ignored |-> 0, failed |-> 0, sessions |-> 0,
             settings |-> 0]
Added(field) == counts' = [counts EXCEPT ![field] = @ + 1]

Resting == [at |-> "idle", from |-> "none", todo |-> <<>>, seen |-> {}, asks |-> FALSE,
            read |-> TRUE, records |-> 0]
ImportKinds == {"groups", "accounts", "games"}

\* One record of a transfer, of the old AccountData, and of a pasted list.
Entries == [kind : ImportKinds, name : Names, group : Names \cup {NoName}]
OldRecords == [name : Names, group : Names, session : BOOLEAN]
Pasted == {r \in [name : Names \cup {NoName}, cookie : Names \cup {NoName}, password : BOOLEAN] :
             r.name # NoName \/ r.cookie # NoName}
Lists(S) == UNION {[1..n -> S] : n \in 0..MaxRecords}

At(at) == importer.at = at
Head1 == Head(importer.todo)
Rest == Tail(importer.todo)
Next1(at) == importer' = [importer EXCEPT !.at = at, !.todo = Rest]

(***************************************************************************)
(* transaction(): work starts from the tables as committed; an exception *)
(* leaves the block, or the end of the process, drops it.                  *)
(***************************************************************************)

Commit ==
    /\ At("commit")
    /\ tables' = work
    /\ importer' = [importer EXCEPT !.at = "done"]
    /\ UNCHANGED <<work, counts, imports, twice>>

\* A reading that fails is not skipped like a record: the whole block fails.
Abort ==
    /\ importer.at \in {"entry", "settings", "games", "load", "oldGroups", "oldAccount", "oldSession", "run"}
    /\ work' = tables /\ importer' = Resting /\ counts' = NoCounts
    /\ UNCHANGED <<tables, imports, twice>>

Forget ==
    /\ At("done")
    /\ importer' = Resting /\ counts' = NoCounts /\ twice' = {}
    /\ UNCHANGED <<tables, work, imports>>

\* The user works between imports; during one the repository's lock keeps the call waiting.
UserMarks(name) ==
    /\ At("idle") /\ Has(tables, name) /\ ~ tables.accounts[name].own
    /\ tables' = [tables EXCEPT !.accounts[name].own = TRUE]
    /\ work' = tables'
    /\ UNCHANGED <<importer, counts, imports, twice>>

(***************************************************************************)
(* import_metadata: a safety backup, a document valid as a whole, then one *)
(* record after another; what is there already is left alone.              *)
(***************************************************************************)

\* export_to: every group, every account with its group's name, every game; no session, no link.
ExportEntry(kind, name, group) == [kind |-> kind, name |-> name, group |-> group]
Exported(db) ==
    SetToSeq({ExportEntry("groups", g, NoName) : g \in db.groups})
    \o SetToSeq({ExportEntry("accounts", n, db.accounts[n].group) : n \in {m \in Names : Has(db, m)}})
    \o SetToSeq({ExportEntry("games", g, NoName) : g \in db.games})

\* A document has its groups first, then its accounts, then its games.  It may also come from
\* elsewhere, and name things twice or groups it does not hold.
Ordered(doc) == \A i, j \in DOMAIN doc : i < j =>
    <<doc[i].kind, doc[j].kind>> \notin {<<"accounts", "groups">>, <<"games", "groups">>, <<"games", "accounts">>}

ImportMetadata ==
    /\ At("idle") /\ imports < MaxImports
    /\ \E doc \in {d \in Lists(Entries) : Ordered(d)} :
       /\ \A i \in DOMAIN doc : doc[i].kind # "accounts" => doc[i].group = NoName
       /\ imports' = imports + 1
       /\ importer' = [Resting EXCEPT !.at = "entry", !.from = "transfer", !.todo = doc]
       /\ work' = tables
       /\ UNCHANGED <<tables, counts, twice>>

Present(db, entry) ==
    CASE entry.kind = "groups" -> entry.name \in db.groups
      [] entry.kind = "accounts" -> Has(db, entry.name)
      [] entry.kind = "games" -> entry.name \in db.games

\* An unknown group leaves the account without one.
With(db, entry) ==
    CASE entry.kind = "groups" -> [db EXCEPT !.groups = @ \cup {entry.name}]
      [] entry.kind = "games" -> [db EXCEPT !.games = @ \cup {entry.name}]
      [] entry.kind = "accounts" ->
           [db EXCEPT !.accounts[entry.name] =
               Row(IF entry.group \in db.groups THEN entry.group ELSE NoName, FALSE)]

LeftAlone(entry) == Present(work, entry) \/ <<entry.kind, entry.name>> \in importer.seen

TransferEntry ==
    \E fails \in BOOLEAN :
       /\ At("entry") /\ importer.todo # <<>>
       /\ LET key == <<Head1.kind, Head1.name>> IN
          IF LeftAlone(Head1)
          THEN Next1("entry") /\ UNCHANGED work /\ Added("ignored") /\ ~ fails
          ELSE /\ importer' = [importer EXCEPT !.todo = Rest,
                               !.seen = IF fails /\ Head1.kind = "groups" THEN @ ELSE @ \cup {key}]
               /\ work' = IF fails THEN work ELSE With(work, Head1)
               /\ Added(IF fails THEN "ignored" ELSE Head1.kind)
       /\ UNCHANGED <<tables, imports, twice>>

TransferEnds ==
    /\ At("entry") /\ importer.todo = <<>>
    /\ importer' = [importer EXCEPT !.at = "commit"]
    /\ UNCHANGED <<tables, work, counts, imports, twice>>

(***************************************************************************)
(* migrate_legacy: the files are backed up, then settings, games and, if   *)
(* the account file opens, groups and accounts are brought in.  An account *)
(* that exists under the name is written over.                             *)
(***************************************************************************)

MigrateLegacy ==
    /\ At("idle") /\ imports < MaxImports
    /\ \E records \in Lists(OldRecords), asks \in BOOLEAN :
       /\ imports' = imports + 1
       /\ importer' = [Resting EXCEPT !.at = "settings", !.from = "legacy", !.todo = records, !.asks = asks]
       /\ work' = tables
       /\ UNCHANGED <<tables, counts, twice>>

\* RAMSettings.ini and RAMTheme.ini: a safe value is kept under a name of its own, and put in
\* place of the user's setting where there is one like it; each may be refused.
OldSettings ==
    \E stored \in SUBSET {"legacy", "current"} :
       /\ At("settings")
       /\ work' = [work EXCEPT !.settings = @ \cup stored]
       /\ counts' = [counts EXCEPT !.settings = Cardinality(stored)]
       /\ importer' = [importer EXCEPT !.at = "games"]
       /\ UNCHANGED <<tables, imports, twice>>

\* RecentGames.json: each game is saved or, refused, left out.
OldGames ==
    \E fails \in BOOLEAN :
       /\ At("games")
       /\ work' = IF fails THEN work ELSE [work EXCEPT !.games = @ \cup {Some}]
       /\ counts' = IF fails THEN counts ELSE [counts EXCEPT !.games = 1]
       /\ importer' = [importer EXCEPT !.at = IF fails THEN "load" ELSE "prune"]
       /\ UNCHANGED <<tables, imports, twice>>

\* prune_recent_games: games that were there are older than those brought in; what exceeds the
\* user's maximum goes.
PruneGames ==
    \E stale \in SUBSET tables.games :
       /\ At("prune")
       /\ work' = [work EXCEPT !.games = @ \ (stale \ {Some})]
       /\ importer' = [importer EXCEPT !.at = "load"]
       /\ UNCHANGED <<tables, counts, imports, twice>>

\* The account file is missing, locked by a password or of another Windows user, or not JSON.
Unlocked == {"read", "no file", "password needed", "password wrong", "other user", "unreadable"}

\* Anything but a list of records is a warning, and the rest of the migration goes on.
LoadAccounts ==
    \E outcome \in Unlocked :
       /\ At("load")
       /\ importer' = IF outcome = "read" THEN [importer EXCEPT !.at = "oldGroups"]
                      ELSE [importer EXCEPT !.at = "run", !.todo = <<>>, !.read = FALSE]
       /\ UNCHANGED <<tables, work, counts, imports, twice>>

\* All the new groups first; one that is refused takes its accounts along.
NewGroups == {importer.todo[i].group : i \in DOMAIN importer.todo} \ work.groups

OldGroups ==
    /\ At("oldGroups")
    /\ \E refused \in SUBSET NewGroups :
       LET new == NewGroups IN
       /\ work' = [work EXCEPT !.groups = @ \cup (new \ refused)]
       /\ counts' = [counts EXCEPT !.groups = Cardinality(new \ refused)]
       /\ importer' = [importer EXCEPT !.at = "oldAccount"]
       /\ UNCHANGED <<tables, imports, twice>>

OldAccount ==
    \E fails \in BOOLEAN :
       /\ At("oldAccount") /\ importer.todo # <<>>
       /\ LET saves == Head1.group \in work.groups /\ ~ fails IN
          /\ work' = IF saves THEN [work EXCEPT !.accounts[Head1.name] = Row(Head1.group, FALSE)] ELSE work
          /\ counts' = IF saves THEN [counts EXCEPT !.accounts = @ + 1] ELSE counts
          /\ IF saves /\ Head1.session /\ importer.asks
             THEN importer' = [importer EXCEPT !.at = "oldSession"]
             ELSE Next1("oldAccount")
       /\ UNCHANGED <<tables, imports, twice>>

\* The flag follows the blob; either may be refused and the account stays.
FlagAnyway(failed) == failed # "flag"   \* a plausible mistake
FlagFollows(failed) == failed = "none"

OldSession ==
    \E failed \in {"none", "blob", "flag"} :
       /\ At("oldSession")
       /\ work' = [work EXCEPT
             !.blobs = IF failed = "blob" THEN @ ELSE @ \cup {Head1.name},
             !.accounts[Head1.name].session = FlagFollows(failed)]
       /\ counts' = IF failed = "none" THEN [counts EXCEPT !.sessions = @ + 1] ELSE counts
       /\ Next1("oldAccount")
       /\ UNCHANGED <<tables, imports, twice>>

OldAccountsEnd ==
    /\ At("oldAccount") /\ importer.todo = <<>>
    /\ importer' = [importer EXCEPT !.at = "run"]
    /\ UNCHANGED <<tables, work, counts, imports, twice>>

\* record_migration_run: completed only if the accounts were read.
RecordRun ==
    /\ At("run")
    /\ work' = [work EXCEPT !.run = IF importer.read THEN "completed" ELSE "needs_attention"]
    /\ importer' = [importer EXCEPT !.at = "commit"]
    /\ UNCHANGED <<tables, counts, imports, twice>>

(***************************************************************************)
(* import_bulk_accounts: a record with a session signs in with it, any     *)
(* other makes an account of its name; a password goes to the vault.       *)
(***************************************************************************)

\* _deduplicate: one record a name (or a session), the richest, at the place of the first.
Richness(record) == (IF record.cookie # NoName THEN 2 ELSE 0) + (IF record.password THEN 1 ELSE 0)
SameAs(a, b) == a.name = b.name /\ (a.name = NoName => a.cookie = b.cookie)
Richest(list, i) ==
    CHOOSE j \in DOMAIN list :
       /\ SameAs(list[j], list[i])
       /\ \A k \in DOMAIN list : SameAs(list[k], list[i]) =>
             Richness(list[k]) < Richness(list[j]) \/ (Richness(list[k]) = Richness(list[j]) /\ j <= k)
Deduplicated(list) ==
    LET firsts == {i \in DOMAIN list : \A k \in 1..(i - 1) : ~ SameAs(list[k], list[i])}
    IN  Taken([i \in DOMAIN list |-> list[Richest(list, i)]], firsts)

ImportBulk ==
    /\ At("idle") /\ imports < MaxImports
    /\ \E list \in Lists(Pasted) \ {<<>>} :
       LET records == Deduplicated(list) IN
       /\ imports' = imports + 1
       /\ importer' = [Resting EXCEPT !.at = "bulk", !.from = "bulk", !.todo = records, !.records = Len(records)]
       /\ UNCHANGED <<tables, work, counts, twice>>

Direct(db) == tables' = db /\ work' = db

\* add_account_from_cookie signs in whoever the session is of, whatever name stands before it.
BulkSignIn ==
    \E rejected \in BOOLEAN :
       /\ At("bulk") /\ importer.todo # <<>> /\ Head1.cookie # NoName
       /\ LET owner == Head1.cookie IN
          IF rejected
          THEN importer' = [importer EXCEPT !.at = "bulkCreate"] /\ UNCHANGED <<tables, work, counts>>
          ELSE /\ Direct([tables EXCEPT !.accounts[owner] =
                            [(IF @.here THEN @ ELSE Row(NoName, FALSE)) EXCEPT !.session = TRUE],
                                        !.blobs = @ \cup {owner}])
               /\ Added("accounts")
               /\ IF Head1.password THEN importer' = [importer EXCEPT !.at = "bulkPassword"] ELSE Next1("bulk")
       /\ UNCHANGED <<imports, twice>>

BulkNoSession ==
    /\ At("bulk") /\ importer.todo # <<>> /\ Head1.cookie = NoName
    /\ importer' = [importer EXCEPT !.at = "bulkCreate"]
    /\ UNCHANGED <<tables, work, counts, imports, twice>>

\* After the sign-in a password the vault refuses sends the record to the other branch, where
\* its own account is in the way: the record is counted a second time, as failed.
BulkPassword ==
    \E fails \in BOOLEAN :
       /\ At("bulkPassword")
       /\ IF fails THEN importer' = [importer EXCEPT !.at = "bulkCreate"] ELSE Next1("bulk")
       /\ twice' = IF fails THEN twice \cup {Len(importer.todo)} ELSE twice
       /\ UNCHANGED <<tables, work, counts, imports>>

\* create_account under the given name, or a made-up one; a taken name is a failure.  The
\* password comes before the count, so an account whose password failed stays, uncounted.
BulkCreate ==
    /\ At("bulkCreate")
    /\ \E name \in (IF Head1.name # NoName THEN {Head1.name} ELSE Names), fails \in {"none", "row", "password"} :
          LET saves == ~ Has(tables, name) /\ fails # "row" IN
          /\ fails = "password" => Head1.password
          /\ IF saves THEN Direct([tables EXCEPT !.accounts[name] = Row(NoName, FALSE)])
             ELSE UNCHANGED <<tables, work>>
          /\ Added(IF saves /\ fails = "none" THEN "accounts" ELSE "failed")
    /\ Next1("bulk")
    /\ UNCHANGED <<imports, twice>>

BulkEnds ==
    /\ At("bulk") /\ importer.todo = <<>>
    /\ importer' = [importer EXCEPT !.at = "done"]
    /\ UNCHANGED <<tables, work, counts, imports, twice>>

ImportsInit ==
    /\ \E group \in Names \cup {NoName}, session \in BOOLEAN, own \in BOOLEAN, run \in {"none", "completed"} :
          tables = [Empty EXCEPT !.groups = {group} \ {NoName}, !.run = run,
                                 !.accounts[Some] = [Row(group, session) EXCEPT !.own = own],
                                 !.blobs = IF session THEN {Some} ELSE {}]
    /\ work = tables /\ importer = Resting /\ counts = NoCounts /\ imports = 0 /\ twice = {}

ImportsNext ==
    \/ Commit \/ Abort \/ Forget \/ \E name \in Names : UserMarks(name)
    \/ ImportMetadata \/ TransferEntry \/ TransferEnds
    \/ MigrateLegacy \/ OldSettings \/ OldGames \/ PruneGames \/ LoadAccounts \/ OldGroups \/ OldAccount \/ OldSession
    \/ OldAccountsEnd \/ RecordRun
    \/ ImportBulk \/ BulkSignIn \/ BulkNoSession \/ BulkPassword \/ BulkCreate \/ BulkEnds

(***************************************************************************)
(* Properties.                                                             *)
(***************************************************************************)

ImportsTypeOK ==
    /\ tables.groups \subseteq Names /\ tables.games \subseteq Names /\ tables.blobs \subseteq Names
    /\ DOMAIN tables.accounts = Names
    /\ importer.from \in {"none", "transfer", "legacy", "bulk"} /\ imports \in 0..MaxImports

\* Nothing of an import is there before all of it is, except of a pasted list; a transfer leaves
\* every row that was there as it was, and no import shows a session the vault does not hold.
ImportsAreWhole ==
    [][/\ tables' # tables => ~ (importer.from \in {"transfer", "legacy"}) \/ At("commit")
       /\ At("commit") /\ importer.from = "transfer" =>
             \A name \in Names : Has(tables, name) => tables'.accounts[name] = tables.accounts[name]
       /\ \A name \in Names : tables'.accounts[name].session => name \in tables'.blobs]_importVars

\* The report says what happened: a transfer accounts for every row that is new, a migration for
\* every session, and of a pasted list each record is counted once, except one whose password the
\* vault refused after its session was accepted: that one is counted as imported and as failed.
ReportIsTrue ==
    /\ At("commit") /\ importer.from = "transfer" =>
          /\ counts.groups = Cardinality(work.groups \ tables.groups)
          /\ counts.games = Cardinality(work.games \ tables.games)
          /\ counts.accounts = Cardinality({n \in Names : Has(work, n) /\ ~ Has(tables, n)})
    /\ At("commit") /\ importer.from = "legacy" =>
          /\ counts.sessions >= Cardinality({n \in Names : work.accounts[n].session /\ ~ tables.accounts[n].session})
          /\ counts.settings >= Cardinality(work.settings \ tables.settings)
    /\ At("bulk") =>
          counts.accounts + counts.failed = importer.records - Len(importer.todo) + Cardinality(twice)

\* An export that is taken to an empty workspace brings back every group, every account in its
\* group and every game, and shows no session there.
ExportComesBack ==
    At("idle") =>
        LET back == FoldLeft(With, Empty, Exported(tables))
        IN  /\ back.groups = tables.groups /\ back.games = tables.games
            /\ \A name \in Names : Has(tables, name) <=> Has(back, name)
            /\ \A name \in Names : Has(back, name) =>
                  back.accounts[name] = [tables.accounts[name] EXCEPT !.session = FALSE, !.own = FALSE]

\* An import is whole and says what it did, and an export can be imported again.
ImportsAreSafe == [](ReportIsTrue /\ ExportComesBack) /\ ImportsAreWhole
=============================================================================
