------------------------------ MODULE AccountStore ------------------------------
(***************************************************************************)
(* Accounts, their groups and their secrets, as the calls of the window    *)
(* and of the watcher change them.  SQLiteRepository makes each call of    *)
(* its own a transaction; the service strings several together, so another *)
(* call may run in between and any of them may fail.  A row is written     *)
(* back whole from the copy a call read, however old that copy is.         *)
(***************************************************************************)
EXTENDS Integers, FiniteSets

CONSTANTS
    Callers,        \* threads that call the service: bridge calls, workers, the watcher
    Users,          \* Roblox users, positive integers; a user's name is the same number
    MaxAccounts,    \* bound: identifiers ever given to accounts
    MaxCalls        \* bound: calls begun

ASSUME StoreAssumption == /\ Users \subseteq Nat \ {0}
                          /\ MaxAccounts \in Nat \ {0} /\ MaxCalls \in Nat

Ids == 1..MaxAccounts
Nothing == 0                            \* no user, no name, no secret
NoGroup == 0
TheGroup == 1                           \* one group is enough to come and go

VARIABLES
    accounts,       \* identifier -> row, NoAccount where there is none
    secrets,        \* identifier -> the blobs of secret_vault_entries
    groups,         \* stored groups
    minted,         \* identifiers given out so far (uuid4: never twice)
    issued,         \* OAuth grants Roblox has issued
    call,           \* caller -> the call it is in
    begun,          \* calls begun so far
    overlapped,     \* accounts that two calls have worked on at once
    halved,         \* a removal or a rollback was refused half way
    renamed         \* somebody gave an account another name or user by hand

storeVars == <<accounts, secrets, groups, minted, issued, call, begun, overlapped, halved, renamed>>

\* A row of accounts, in the columns the properties tell apart.
Account(name, user, group) ==
    [name |-> name, user |-> user, group |-> group, session |-> FALSE, linked |-> FALSE]
NoAccount == Account(Nothing, Nothing, NoGroup)
Rows == [name : Users \cup {Nothing}, user : Users \cup {Nothing}, group : {NoGroup, TheGroup},
         session : BOOLEAN, linked : BOOLEAN]

\* A session names the user it signs in as; a grant also which issue it is.
NoGrant == [user |-> Nothing, issue |-> 0]
NoSecrets == [session |-> Nothing, grant |-> NoGrant]

Idle == [at |-> "idle", op |-> "none", id |-> 0, row |-> NoAccount, made |-> FALSE,
         grant |-> NoGrant, previous |-> NoGrant, before |-> <<>>]

Exists(id) == accounts[id] # NoAccount
Named(name) == {id \in Ids : Exists(id) /\ accounts[id].name = name}
Owned(user) == {id \in Ids : Exists(id) /\ accounts[id].user = user}

(***************************************************************************)
(* What the repository does.                                               *)
(***************************************************************************)

\* save_account keeps names unique and groups real, by constraint.
Accepts(id, row) ==
    /\ \A other \in Ids \ {id} : ~ (Exists(other) /\ accounts[other].name = row.name)
    /\ row.group \in groups \cup {NoGroup}

\* An upsert: it also brings back a row that was deleted since it was read.
Saved(id, row) == [accounts EXCEPT ![id] = row]

\* Removing an account takes its secrets along (ON DELETE CASCADE).
Removed(id) ==
    /\ accounts' = [accounts EXCEPT ![id] = NoAccount]
    /\ secrets' = [secrets EXCEPT ![id] = NoSecrets]

(***************************************************************************)
(* A call begins with what it reads, goes on step by step and ends.  Any   *)
(* step may be refused by the database or by Windows (fails).              *)
(***************************************************************************)

MayBegin(c) == call[c].at = "idle" /\ begun < MaxCalls

\* Accounts some other call is at work on.
Busy(c) == {call[other].id : other \in {o \in Callers \ {c} : call[o].at # "idle"}}

Begin(c, step) ==
    /\ begun' = begun + 1
    /\ overlapped' = overlapped \cup ({step.id} \cap Busy(c))
    /\ call' = [call EXCEPT ![c] = [step EXCEPT !.before = <<accounts[step.id], secrets[step.id]>>]]

Goes(c, at, row) == call' = [call EXCEPT ![c].at = at, ![c].row = row]
Ends(c) == call' = [call EXCEPT ![c] = Idle]

\* create_account: the name is free and the group exists when it looks.
CreateAccount(c) ==
    \E name \in Users, group \in groups \cup {NoGroup} :
       \E user \in {Nothing, name} :
          /\ MayBegin(c) /\ minted < MaxAccounts /\ Named(name) = {}
          /\ minted' = minted + 1
          /\ Begin(c, [Idle EXCEPT !.at = "write", !.op = "create", !.id = minted + 1, !.made = TRUE,
                                   !.row = Account(name, user, group)])
          /\ UNCHANGED <<accounts, secrets, groups, issued, halved, renamed>>

\* A row is read, Roblox may be asked, and the row goes back with what was to change.
Edits(c, id, row) ==
    /\ MayBegin(c) /\ Exists(id)
    /\ Begin(c, [Idle EXCEPT !.at = "write", !.op = "edit", !.id = id, !.row = row])
    /\ UNCHANGED <<accounts, secrets, groups, minted, issued, halved>>

UpdateAccount(c, id) ==
    \E name \in {accounts[id].name} \cup Users, user \in {accounts[id].user, Nothing} \cup Users,
       group \in groups \cup {NoGroup} :
          /\ Edits(c, id, [accounts[id] EXCEPT !.name = name, !.user = user, !.group = group])
          /\ renamed' = (renamed \/ name # accounts[id].name \/ user # accounts[id].user)

\* What these change is in columns no property tells apart; what they write back is the whole row.
RefreshProfile(c, id) == accounts[id].user # Nothing /\ Edits(c, id, accounts[id]) /\ UNCHANGED renamed
RefreshPresence(c, id) == accounts[id].user # Nothing /\ Edits(c, id, accounts[id]) /\ UNCHANGED renamed
SetRuntimeStatus(c, id) == Edits(c, id, accounts[id]) /\ UNCHANGED renamed
SetDisplayName(c, id) ==
    accounts[id].user # Nothing /\ secrets[id].session # Nothing /\ Edits(c, id, accounts[id]) /\ UNCHANGED renamed

\* refresh_account_session: the stored session says who it is.
ValidateSession(c, id) ==
    LET owner == secrets[id].session IN
    /\ MayBegin(c) /\ Exists(id) /\ owner # Nothing
    /\ accounts[id].user \in {Nothing, owner}
    /\ Begin(c, [Idle EXCEPT !.at = "write", !.op = "validate", !.id = id,
                             !.row = [accounts[id] EXCEPT !.user = owner, !.name = owner, !.session = TRUE]])
    /\ UNCHANGED <<accounts, secrets, groups, minted, issued, halved, renamed>>

\* save_account with the copy the call holds.
Write(c) ==
    \E fails \in BOOLEAN :
       /\ call[c].at = "write"
       /\ accounts' = IF fails \/ ~ Accepts(call[c].id, call[c].row) THEN accounts
                      ELSE Saved(call[c].id, call[c].row)
       /\ Ends(c)
       /\ UNCHANGED <<secrets, groups, minted, issued, begun, overlapped, halved, renamed>>

\* delete_accounts: the session goes first, the account in a transaction of its own.
DeleteAccount(c, id) ==
    /\ MayBegin(c) /\ Exists(id)
    /\ Begin(c, [Idle EXCEPT !.at = "dropSession", !.op = "delete", !.id = id])
    /\ UNCHANGED <<accounts, secrets, groups, minted, issued, halved, renamed>>

DropSession(c) ==
    /\ call[c].at = "dropSession"
    /\ \/ secrets' = [secrets EXCEPT ![call[c].id].session = Nothing] /\ Goes(c, "dropRow", NoAccount)
       \/ UNCHANGED secrets /\ Ends(c)
    /\ UNCHANGED <<accounts, groups, minted, issued, begun, overlapped, halved, renamed>>

DropRow(c) ==
    /\ call[c].at = "dropRow"
    /\ \/ Removed(call[c].id) /\ UNCHANGED halved
       \/ UNCHANGED <<accounts, secrets>> /\ halved' = TRUE
    /\ Ends(c)
    /\ UNCHANGED <<groups, minted, issued, begun, overlapped, renamed>>

(***************************************************************************)
(* add_account_from_cookie: Roblox says whose session it is, the account   *)
(* of that name is used or a new one made, saved, given the secret and     *)
(* saved again with its flag.                                              *)
(***************************************************************************)

\* The flag waits for the secret: the first save writes the row as it was.
FlagFirst(row) == [row EXCEPT !.session = TRUE]   \* a plausible mistake: one save for both
BeforeSecret(row) == row

CookieLogin(c) ==
    \E user \in Users, group \in groups \cup {NoGroup} :
       LET known == Named(user)
           id == IF known = {} THEN minted + 1 ELSE CHOOSE k \in known : TRUE
           row == IF known = {} THEN Account(user, user, group)
                  ELSE [accounts[id] EXCEPT !.user = user, !.group = IF group = NoGroup THEN @ ELSE group]
       IN /\ MayBegin(c) /\ id \in Ids
          /\ minted' = IF known = {} THEN id ELSE minted
          /\ Begin(c, [Idle EXCEPT !.at = "loginRow", !.op = "cookie", !.id = id, !.row = row, !.made = known = {}])
          /\ UNCHANGED <<accounts, secrets, groups, issued, halved, renamed>>

LoginRow(c) ==
    \E fails \in BOOLEAN :
       LET id == call[c].id  row == call[c].row IN
       /\ call[c].at = "loginRow"
       /\ IF fails \/ ~ Accepts(id, row)
          THEN Goes(c, "loginUndo", NoAccount) /\ UNCHANGED accounts
          ELSE Goes(c, "loginSecret", BeforeSecret(row)) /\ accounts' = Saved(id, BeforeSecret(row))
       /\ UNCHANGED <<secrets, groups, minted, issued, begun, overlapped, halved, renamed>>

LoginSecret(c) ==
    \E fails \in BOOLEAN :
       LET id == call[c].id IN
       /\ call[c].at = "loginSecret"
       /\ IF fails \/ ~ Exists(id)
          THEN Goes(c, "loginUndo", NoAccount) /\ UNCHANGED secrets
          ELSE /\ secrets' = [secrets EXCEPT ![id].session = call[c].row.user]
               /\ Goes(c, "loginFlag", [call[c].row EXCEPT !.session = TRUE])
       /\ UNCHANGED <<accounts, groups, minted, issued, begun, overlapped, halved, renamed>>

LoginFlag(c) ==
    \E fails \in BOOLEAN :
       LET id == call[c].id  row == call[c].row IN
       /\ call[c].at = "loginFlag"
       /\ IF fails \/ ~ Accepts(id, row)
          THEN Goes(c, "loginUndo", NoAccount) /\ UNCHANGED accounts
          ELSE Ends(c) /\ accounts' = Saved(id, row)
       /\ UNCHANGED <<secrets, groups, minted, issued, begun, overlapped, halved, renamed>>

\* Only an account the call made is taken away again.
KeepsIt(c) == FALSE     \* a plausible mistake: the new account stays
TakesBack(c) == call[c].made

LoginUndo(c) ==
    \E fails \in BOOLEAN :
       /\ call[c].at = "loginUndo"
       /\ IF TakesBack(c) /\ ~ fails THEN Removed(call[c].id) ELSE UNCHANGED <<accounts, secrets>>
       /\ halved' = (halved \/ (call[c].made /\ fails))
       /\ Ends(c)
       /\ UNCHANGED <<groups, minted, issued, begun, overlapped, renamed>>

(***************************************************************************)
(* OAuth: _persist_oauth_connection after a login or a refresh, and the    *)
(* local disconnect.                                                       *)
(***************************************************************************)

\* _find_oauth_account refuses to choose between two accounts.
Unambiguous(user) ==
    /\ Cardinality(Owned(user)) <= 1
    /\ Owned(user) # {} => Named(user) \subseteq Owned(user)
Candidates(user) == IF Owned(user) # {} THEN Owned(user) ELSE Named(user)

LinkLogin(c) ==
    \E user \in Users :
       LET found == Candidates(user)
           grant == [user |-> user, issue |-> issued + 1]
           id == IF found = {} THEN minted + 1 ELSE CHOOSE k \in found : TRUE
           row == IF found = {} THEN Account(user, user, NoGroup) ELSE accounts[id]
       IN /\ MayBegin(c) /\ Unambiguous(user) /\ id \in Ids
          /\ issued' = issued + 1
          /\ minted' = IF found = {} THEN id ELSE minted
          /\ Begin(c, [Idle EXCEPT !.at = IF found = {} THEN "linkRow" ELSE "linkGrant", !.op = "link",
                                   !.id = id, !.row = row, !.made = found = {}, !.grant = grant,
                                   !.previous = secrets[id].grant])
          /\ UNCHANGED <<accounts, secrets, groups, halved, renamed>>

\* refresh_oauth_account: Roblox gives the next grant for the one stored.
RefreshGrant(c, id) ==
    LET old == secrets[id].grant IN
    /\ MayBegin(c) /\ Exists(id) /\ old # NoGrant
    /\ accounts[id].user \in {Nothing, old.user}
    /\ Unambiguous(old.user) /\ Candidates(old.user) \subseteq {id}
    /\ issued' = issued + 1
    /\ Begin(c, [Idle EXCEPT !.at = "linkGrant", !.op = "refresh", !.id = id, !.row = accounts[id],
                             !.grant = [user |-> old.user, issue |-> issued + 1], !.previous = old])
    /\ UNCHANGED <<accounts, secrets, groups, minted, halved, renamed>>

LinkRow(c) ==
    \E fails \in BOOLEAN :
       LET id == call[c].id  row == call[c].row IN
       /\ call[c].at = "linkRow"
       /\ IF fails \/ ~ Accepts(id, row) THEN Ends(c) /\ UNCHANGED accounts
          ELSE Goes(c, "linkGrant", row) /\ accounts' = Saved(id, row)
       /\ UNCHANGED <<secrets, groups, minted, issued, begun, overlapped, halved, renamed>>

LinkGrant(c) ==
    \E fails \in BOOLEAN :
       LET id == call[c].id
           linked == [call[c].row EXCEPT !.user = call[c].grant.user, !.name = call[c].grant.user, !.linked = TRUE]
       IN /\ call[c].at = "linkGrant"
          /\ IF fails \/ ~ Exists(id)
             THEN Goes(c, "linkTakeBack", NoAccount) /\ UNCHANGED secrets
             ELSE Goes(c, "linkSave", linked) /\ secrets' = [secrets EXCEPT ![id].grant = call[c].grant]
          /\ UNCHANGED <<accounts, groups, minted, issued, begun, overlapped, halved, renamed>>

LinkSave(c) ==
    \E fails \in BOOLEAN :
       LET id == call[c].id  row == call[c].row IN
       /\ call[c].at = "linkSave"
       /\ IF fails \/ ~ Accepts(id, row) THEN Goes(c, "linkUndo", NoAccount) /\ UNCHANGED accounts
          ELSE Ends(c) /\ accounts' = Saved(id, row)
       /\ UNCHANGED <<secrets, groups, minted, issued, begun, overlapped, halved, renamed>>

\* _restore_or_remove_oauth_grant: the grant there was before, or none.
LinkUndo(c) ==
    \E fails \in BOOLEAN :
       LET id == call[c].id IN
       /\ call[c].at = "linkUndo"
       /\ IF fails \/ ~ Exists(id) THEN Goes(c, "linkTakeBack", NoAccount) /\ UNCHANGED secrets
          ELSE Goes(c, "linkTakeBack", NoAccount)
               /\ secrets' = [secrets EXCEPT ![id].grant = call[c].previous]
       /\ halved' = (halved \/ fails)
       /\ UNCHANGED <<accounts, groups, minted, issued, begun, overlapped, renamed>>

LinkTakeBack(c) ==
    \E fails \in BOOLEAN :
       /\ call[c].at = "linkTakeBack"
       /\ IF TakesBack(c) /\ ~ fails THEN Removed(call[c].id) ELSE UNCHANGED <<accounts, secrets>>
       /\ halved' = (halved \/ (call[c].made /\ fails))
       /\ Ends(c)
       /\ UNCHANGED <<groups, minted, issued, begun, overlapped, renamed>>

\* disconnect_oauth_account: the grant goes first, then the row with the connection removed.
Disconnect(c, id) ==
    /\ MayBegin(c) /\ Exists(id)
    /\ Begin(c, [Idle EXCEPT !.at = "dropGrant", !.op = "disconnect", !.id = id,
                             !.row = [accounts[id] EXCEPT !.linked = FALSE]])
    /\ UNCHANGED <<accounts, secrets, groups, minted, issued, halved, renamed>>

DropGrant(c) ==
    /\ call[c].at = "dropGrant"
    /\ \/ secrets' = [secrets EXCEPT ![call[c].id].grant = NoGrant] /\ Goes(c, "unlink", call[c].row)
       \/ UNCHANGED secrets /\ Ends(c)
    /\ UNCHANGED <<accounts, groups, minted, issued, begun, overlapped, halved, renamed>>

Unlink(c) ==
    /\ call[c].at = "unlink"
    /\ \/ Accepts(call[c].id, call[c].row) /\ accounts' = Saved(call[c].id, call[c].row) /\ UNCHANGED halved
       \/ UNCHANGED accounts /\ halved' = TRUE
    /\ Ends(c)
    /\ UNCHANGED <<secrets, groups, minted, issued, begun, overlapped, renamed>>

(***************************************************************************)
(* Groups: each call is one transaction.                                   *)
(***************************************************************************)

Regroup(c, members, group) ==
    /\ accounts' = [id \in Ids |-> IF id \in members THEN [accounts[id] EXCEPT !.group = group] ELSE accounts[id]]
    /\ overlapped' = overlapped \cup (members \cap Busy(c))
    /\ UNCHANGED <<secrets, minted, issued, call, halved, renamed>>

CreateGroup(c) ==
    /\ MayBegin(c) /\ begun' = begun + 1
    /\ groups' = {TheGroup}
    /\ UNCHANGED <<accounts, secrets, minted, issued, call, overlapped, halved, renamed>>

\* ON DELETE SET NULL: the members stay, without a group.
DeleteGroup(c) ==
    /\ MayBegin(c) /\ begun' = begun + 1 /\ groups # {}
    /\ groups' = {}
    /\ Regroup(c, {id \in Ids : accounts[id].group = TheGroup}, NoGroup)

MoveAccounts(c) ==
    \E chosen \in SUBSET {id \in Ids : Exists(id)} \ {{}}, group \in groups \cup {NoGroup} :
       /\ MayBegin(c) /\ begun' = begun + 1
       /\ UNCHANGED groups /\ Regroup(c, chosen, group)

(***************************************************************************)
(* The whole store.  It starts as earlier sessions of the program left it: *)
(* with one account, or with none.                                         *)
(***************************************************************************)

\* An account that was created by hand, signed in, linked, or both.
EarlierAccounts(user) ==
    [name : {user}, user : {Nothing, user}, group : {NoGroup}, session : BOOLEAN, linked : BOOLEAN]
EarlierSecrets(row) ==
    [session |-> IF row.session THEN row.user ELSE Nothing,
     grant |-> IF row.linked THEN [user |-> row.user, issue |-> 1] ELSE NoGrant]

StoreInit ==
    \E user \in Users, any \in BOOLEAN : \E row \in EarlierAccounts(user) :
       /\ row.session \/ row.linked => row.user = user
       /\ accounts = [id \in Ids |-> IF any /\ id = 1 THEN row ELSE NoAccount]
       /\ secrets = [id \in Ids |-> IF any /\ id = 1 THEN EarlierSecrets(row) ELSE NoSecrets]
       /\ minted = 1 /\ issued = 1
       /\ groups = {TheGroup}
       /\ call = [c \in Callers |-> Idle] /\ begun = 0
       /\ overlapped = {} /\ halved = FALSE /\ renamed = FALSE

StoreCall(c) ==
    \/ CreateAccount(c) \/ CookieLogin(c) \/ LinkLogin(c)
    \/ \E id \in Ids :
          \/ UpdateAccount(c, id) \/ RefreshProfile(c, id) \/ RefreshPresence(c, id)
          \/ SetRuntimeStatus(c, id) \/ SetDisplayName(c, id)
          \/ ValidateSession(c, id) \/ DeleteAccount(c, id)
          \/ RefreshGrant(c, id) \/ Disconnect(c, id)
    \/ CreateGroup(c) \/ DeleteGroup(c) \/ MoveAccounts(c)

StoreStep(c) ==
    \/ Write(c) \/ DropSession(c) \/ DropRow(c)
    \/ LoginRow(c) \/ LoginSecret(c) \/ LoginFlag(c) \/ LoginUndo(c)
    \/ LinkRow(c) \/ LinkGrant(c) \/ LinkSave(c) \/ LinkUndo(c) \/ LinkTakeBack(c)
    \/ DropGrant(c) \/ Unlink(c)

StoreNext == \E c \in Callers : StoreCall(c) \/ StoreStep(c)

(***************************************************************************)
(* Properties.                                                             *)
(***************************************************************************)

\* Rows, secrets and calls keep their shape; a secret never outlives its account.
StoreTypeOK ==
    /\ accounts \in [Ids -> Rows]
    /\ \A id \in Ids : secrets[id].session \in Users \cup {Nothing}
    /\ \A id \in Ids : ~ Exists(id) => secrets[id] = NoSecrets
    /\ groups \subseteq {TheGroup} /\ minted \in 0..MaxAccounts /\ begun \in 0..MaxCalls

\* Of an account no two calls worked on at once, while no removal or rollback was refused half
\* way: when no call is at work on it and it shows a session or an OAuth connection, the blob is
\* there; and while nobody gave one another name or user the blob is of the Roblox user the account names.
\* Calls on other accounts may be anywhere and any other step of any call may have failed.
SecretsFitAccounts ==
    ~ halved =>
        \A id \in Ids \ (overlapped \cup {call[c].id : c \in Callers}) :
            /\ accounts[id].session => secrets[id].session # Nothing
            /\ accounts[id].linked => secrets[id].grant # NoGrant
            /\ ~ renamed => secrets[id].session \in {Nothing, accounts[id].user}
            /\ ~ renamed => secrets[id].grant.user \in {Nothing, accounts[id].user}

\* A call that was to add or to connect an account and fails leaves the account as it was, unless
\* another call worked on it or its own rollback is refused too: no account without its secret,
\* no grant in place of another.
FailedCallLeavesNothing ==
    [][\A c \in Callers :
          /\ call[c].at \in {"linkTakeBack", "loginUndo"} /\ call'[c].at = "idle"
          /\ call[c].id \notin overlapped /\ ~ halved'
          /\ call[c].op = "cookie" => call[c].made
          => <<accounts'[call[c].id], secrets'[call[c].id]>> = call[c].before]_storeVars
=============================================================================
