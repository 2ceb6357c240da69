------------------------------ MODULE StorageProofs ------------------------------
(***************************************************************************)
(* What the storage keeps, for any number of blocks, backups, commits,     *)
(* accounts, calls and ends of the process: a statement is never both      *)
(* committed and undone, the database changes only by commits and by       *)
(* putting back a copy, the secrets of an account fit its row, the client  *)
(* keeps what the user chose, the windows of an account their places, and  *)
(* a task comes due when the schedule says so.  At the end the parts are   *)
(* put together with those of IntakeProofs: one invariant of RecordsSpec.  *)
(***************************************************************************)
EXTENDS IntakeProofs

(***************************************************************************)
(* Transactions.                                                           *)
(***************************************************************************)

Statements == 1..entered

\* A statement that is still open is neither committed nor undone, nor open twice.
OpenApart ==
    \A i \in 1..Len(open) :
        /\ open[i] \cap (durable \cup undone) = {}
        /\ \A j \in 1..Len(open) : i # j => open[i] \cap open[j] = {}

BlocksTyped ==
    /\ entered \in 0..MaxBlocks /\ refusals \in 0..entered /\ depth \in Int
    /\ blocks \in Seq(Statements) /\ Len(blocks) <= MaxDepth
    /\ open \in Seq(SUBSET Statements)
    /\ durable \subseteq Statements /\ undone \subseteq Statements

\* A refused BEGIN takes one off the depth, and no block is entered after it.
CountFits ==
    /\ depth = Len(blocks) - refusals
    /\ refusals > 0 => blocks = <<>> /\ open = <<>>
    /\ durable \cap undone = {}

\* Every statement that ran is somewhere.
Accounted ==
    refusals = 0 => \A s \in Statements : s \in durable \/ s \in undone \/ \E i \in 1..Len(open) : s \in open[i]

BlocksInv ==
    /\ BlocksTyped /\ CountFits /\ OpenApart /\ Accounted
    /\ blocks # <<>> => Len(open) = Len(blocks)

-----------------------------------------------------------------------------
\* What Front and Last are of a sequence that is not empty.
LEMMA FrontOf ==
    ASSUME NEW S, NEW s \in Seq(S), s # <<>>
    PROVE  /\ Front(s) \in Seq(S) /\ Len(Front(s)) = Len(s) - 1
           /\ \A i \in 1..(Len(s) - 1) : Front(s)[i] = s[i]
           /\ Last(s) = s[Len(s)] /\ Last(s) \in S
           /\ Len(s) \in Nat \ {0}
<1>1. Len(s) \in Nat \ {0}
  BY EmptySeq
<1> DEFINE n == Len(s) - 1
<1>2. n \in Int /\ \A i \in 1..n : s[i] \in S
  BY <1>1
<1>3. /\ SubSeq(s, 1, n) \in Seq(S) /\ Len(SubSeq(s, 1, n)) = IF 1 <= n THEN n - 1 + 1 ELSE 0
      /\ \A i \in 1..(n - 1 + 1) : SubSeq(s, 1, n)[i] = s[1 + i - 1]
  <2> HIDE DEF n
  <2>. QED BY <1>2, SubSeqProperties
<1>4. Front(s) = SubSeq(s, 1, n) /\ Last(s) = s[Len(s)]
  BY DEF Front, Last
<1> HIDE DEF n
<1>5. n = Len(s) - 1
  BY DEF n
<1>. QED BY <1>1, <1>2, <1>3, <1>4, <1>5

LEMMA BlocksInit == TransactionsInit => BlocksInv
BY TransactionsAssumption
   DEF TransactionsInit, BlocksInv, BlocksTyped, CountFits, OpenApart, Accounted, Statements

LEMMA EnterStep ==
    ASSUME BlocksInv, EnterBlock
    PROVE  BlocksInv'
<1> USE DEF Statements
<1> DEFINE n == entered + 1
<1>1. /\ entered \in Nat /\ entered' = n /\ n \in 1..MaxBlocks /\ depth' = depth + 1
      /\ blocks' = Append(blocks, n) /\ open' = Append(open, {n})
      /\ UNCHANGED <<durable, undone, refusals>>
  BY TransactionsAssumption DEF EnterBlock, BlocksInv, BlocksTyped
<1>2. refusals = 0 /\ Len(open) = Len(blocks)
  BY TransactionsAssumption DEF EnterBlock, BlocksInv, BlocksTyped, CountFits, Nameable
<1>3. blocks \in Seq(1..n) /\ open \in Seq(SUBSET (1..n))
  BY <1>1 DEF BlocksInv, BlocksTyped
<1>4. /\ blocks' \in Seq(1..n) /\ Len(blocks') = Len(blocks) + 1
      /\ open' \in Seq(SUBSET (1..n)) /\ Len(open') = Len(open) + 1
      /\ \A i \in 1..Len(open) : open'[i] = open[i]
      /\ open'[Len(open) + 1] = {n}
  BY <1>1, <1>3
<1>5. BlocksTyped'
  BY <1>1, <1>2, <1>4, TransactionsAssumption DEF BlocksInv, BlocksTyped, EnterBlock
<1>6. CountFits'
  BY <1>1, <1>2, <1>4 DEF BlocksInv, BlocksTyped, CountFits
<1>7. OpenApart'
  <2>1. \A i \in 1..Len(open) : n \notin open[i]
    BY <1>1 DEF BlocksInv, BlocksTyped
  <2>2. n \notin durable \cup undone
    BY <1>1 DEF BlocksInv, BlocksTyped
  <2>. QED BY <1>1, <1>3, <1>4, <2>1, <2>2 DEF BlocksInv, OpenApart
<1>8. Accounted'
  <2> SUFFICES ASSUME NEW s \in Statements'
               PROVE  s \in durable' \/ s \in undone' \/ \E i \in 1..Len(open') : s \in open'[i]
    BY DEF Accounted
  <2>1. Len(open) \in Nat /\ \A i \in 1..Len(open) : i \in 1..Len(open')
    BY <1>3, <1>4
  <2>2. CASE s = n
    <3>1. Len(open) + 1 \in 1..Len(open')
      BY <1>4, <2>1
    <3>. QED BY <1>4, <2>2, <3>1
  <2>3. CASE s \in Statements
    BY <1>1, <1>2, <1>4, <2>1, <2>3 DEF BlocksInv, Accounted
  <2>4. s = n \/ s \in Statements
    BY <1>1
  <2>. QED BY <2>2, <2>3, <2>4
<1>. QED BY <1>2, <1>4, <1>5, <1>6, <1>7, <1>8 DEF BlocksInv

\* A refused BEGIN undoes what an earlier COMMIT left open.
LEMMA RefusalStep ==
    ASSUME BlocksInv, RefuseBlock \/ RefuseSavepoint
    PROVE  BlocksInv'
<1> USE DEF Statements
<1>1. /\ entered \in Nat /\ refusals \in Nat /\ entered' = entered + 1 /\ entered' \in 0..MaxBlocks
      /\ refusals' = refusals + 1 /\ depth' = depth - 1 /\ blocks = <<>>
      /\ UNCHANGED <<blocks, durable>>
  BY TransactionsAssumption DEF RefuseBlock, RefuseSavepoint, BlocksInv, BlocksTyped
<1>2. open' = <<>>
  BY DEF RefuseBlock, RefuseSavepoint, BlocksInv, BlocksTyped, CountFits
<1>3. undone' = undone \/ undone' = undone \cup UNION {open[i] : i \in 1..Len(open)}
  BY DEF RefuseBlock, RefuseSavepoint, ToSet, BlocksInv, BlocksTyped
<1>4. undone' \subseteq Statements /\ durable \cap undone' = {}
  <2>1. \A i \in 1..Len(open) : open[i] \subseteq Statements /\ open[i] \cap durable = {}
    BY DEF BlocksInv, BlocksTyped, OpenApart
  <2>2. undone \subseteq Statements /\ durable \cap undone = {}
    BY DEF BlocksInv, BlocksTyped, CountFits
  <2> HIDE DEF Statements
  <2>. QED BY <1>3, <2>1, <2>2
<1>5. BlocksTyped'
  BY <1>1, <1>2, <1>4, TransactionsAssumption DEF BlocksInv, BlocksTyped
<1>6. CountFits' /\ OpenApart'
  BY <1>1, <1>2, <1>4 DEF BlocksInv, BlocksTyped, CountFits, OpenApart
<1>7. Accounted'
  BY <1>1 DEF Accounted
<1>. QED BY <1>1, <1>5, <1>6, <1>7 DEF BlocksInv

\* A block ends: its exception undoes what it holds, RELEASE hands that to the block around
\* it, COMMIT makes it durable or leaves it open.
LEMMA LeaveStep ==
    ASSUME BlocksInv, RaiseInBlock \/ LeaveBlock \/ CommitFails
    PROVE  BlocksInv'
<1> USE DEF Statements
<1>1. /\ blocks # <<>> /\ open # <<>> /\ Len(open) = Len(blocks) /\ refusals = 0
      /\ UNCHANGED <<entered, refusals>> /\ depth' = depth - 1
  BY DEF RaiseInBlock, LeaveBlock, CommitFails, BlocksInv, BlocksTyped, CountFits
<1>2. /\ blocks \in Seq(Statements) /\ open \in Seq(SUBSET Statements)
      /\ Len(blocks) \in Nat \ {0} /\ Last(open) = open[Len(open)] /\ Last(open) \subseteq Statements
  <2>1. blocks \in Seq(Statements) /\ open \in Seq(SUBSET Statements)
    BY DEF BlocksInv, BlocksTyped
  <2>2. Len(blocks) \in Nat \ {0}
    BY <1>1, <2>1, FrontOf
  <2>3. Last(open) = open[Len(open)] /\ Last(open) \in SUBSET Statements
    BY <1>1, <2>1, FrontOf
  <2>. QED BY <2>1, <2>2, <2>3
<1>3. blocks' \in Seq(Statements) /\ Len(blocks') = Len(blocks) - 1
  <2>1. blocks' = Front(blocks) \/ (Len(blocks) = 1 /\ blocks' = <<>>)
    BY DEF RaiseInBlock, LeaveBlock, CommitFails
  <2>2. Front(blocks) \in Seq(Statements) /\ Len(Front(blocks)) = Len(blocks) - 1
    BY <1>1, <1>2, FrontOf
  <2>3. <<>> \in Seq(Statements) /\ Len(<<>>) = 0
    OBVIOUS
  <2>. QED BY <2>1, <2>2, <2>3
<1>4. /\ durable' \subseteq durable \cup Last(open) /\ undone' \subseteq undone \cup Last(open)
      /\ durable' = durable \/ undone' = undone
  BY DEF RaiseInBlock, LeaveBlock, CommitFails
<1>5. durable' \cap undone' = {}
  BY <1>1, <1>2, <1>4 DEF BlocksInv, CountFits, OpenApart
<1>6. /\ open' \in Seq(SUBSET Statements) /\ OpenApart'
      /\ blocks' # <<>> => Len(open') = Len(blocks')
  <2>1. CASE RaiseInBlock
    <3>1. durable' = durable /\ undone' = undone \cup open[Len(open)] /\ open' = Front(open)
      BY <1>2, <2>1 DEF RaiseInBlock
    <3>2. /\ open' \in Seq(SUBSET Statements) /\ Len(open') = Len(open) - 1
          /\ \A i \in 1..Len(open') : open'[i] = open[i]
      BY <1>1, <1>2, <3>1, FrontOf
    <3>3. OpenApart'
      <4> SUFFICES ASSUME NEW i \in 1..Len(open')
                   PROVE  /\ open'[i] \cap (durable' \cup undone') = {}
                          /\ \A j \in 1..Len(open') : i # j => open'[i] \cap open'[j] = {}
        BY DEF OpenApart
      <4>1. \A k \in 1..Len(open) : open[k] \cap (durable \cup undone) = {}
        BY DEF BlocksInv, OpenApart
      <4>2. \A j, k \in 1..Len(open) : j # k => open[j] \cap open[k] = {}
        BY DEF BlocksInv, OpenApart
      <4>3. /\ i \in 1..Len(open) /\ Len(open) \in 1..Len(open) /\ i # Len(open)
            /\ \A j \in 1..Len(open') : j \in 1..Len(open)
        BY <1>1, <1>2, <3>2
      <4>. QED BY <3>1, <3>2, <4>1, <4>2, <4>3
    <3>. QED BY <1>1, <1>3, <3>2, <3>3
  <2>2. CASE LeaveBlock /\ Len(blocks) > 1
    <3>1. UNCHANGED <<durable, undone>> /\ open' = Merged
      <4>1. \A n \in Nat : n > 1 => n # 1
        OBVIOUS
      <4>2. Len(blocks) # 1
        BY <1>2, <2>2, <4>1, Zenon
      <4>. QED BY <2>2, <4>2, Zenon DEF LeaveBlock
    <3>2. /\ open' \in Seq(SUBSET Statements) /\ Len(open') = Len(open) - 1
          /\ \A i \in 1..Len(open') :
                open'[i] = IF i = Len(open') THEN open[i] \cup open[Len(open)] ELSE open[i]
      BY <1>1, <1>2, <3>1 DEF Merged
    <3>3. OpenApart'
      <4> SUFFICES ASSUME NEW i \in 1..Len(open')
                   PROVE  /\ open'[i] \cap (durable' \cup undone') = {}
                          /\ \A j \in 1..Len(open') : i # j => open'[i] \cap open'[j] = {}
        BY DEF OpenApart
      <4>1. \A k \in 1..Len(open) : open[k] \cap (durable \cup undone) = {}
        BY DEF BlocksInv, OpenApart
      <4>2. \A j, k \in 1..Len(open) : j # k => open[j] \cap open[k] = {}
        BY DEF BlocksInv, OpenApart
      <4>3. /\ i \in 1..Len(open) /\ Len(open) \in 1..Len(open) /\ i # Len(open)
            /\ \A j \in 1..Len(open') : j \in 1..Len(open) /\ j # Len(open)
        BY <1>1, <1>2, <3>2
      <4>. QED BY <3>1, <3>2, <4>1, <4>2, <4>3
    <3>. QED BY <1>1, <1>3, <3>2, <3>3
  <2>3. CASE (LeaveBlock \/ CommitFails) /\ Len(blocks) = 1
    <3>1. blocks' = <<>>
      BY <1>3, <2>3, EmptySeq
    <3>2. CASE open' = <<>>
      BY <3>1, <3>2 DEF OpenApart
    <3>3. CASE UNCHANGED <<open, undone, durable>>
      BY <1>2, <3>1, <3>3 DEF BlocksInv, OpenApart
    <3>. QED BY <2>3, <3>2, <3>3 DEF LeaveBlock, CommitFails
  <2>. QED BY <1>2, <2>1, <2>2, <2>3 DEF CommitFails, LeaveBlock
<1>7. BlocksTyped'
  <2>1. /\ entered' \in 0..MaxBlocks /\ refusals' \in 0..entered' /\ depth' \in Int
        /\ Len(blocks') <= MaxDepth
    BY <1>1, <1>2, <1>3, TransactionsAssumption DEF BlocksInv, BlocksTyped
  <2>2. durable' \subseteq Statements /\ undone' \subseteq Statements
    BY <1>2, <1>4 DEF BlocksInv, BlocksTyped
  <2>. QED BY <1>1, <1>3, <1>6, <2>1, <2>2 DEF BlocksTyped
<1>8. CountFits'
  BY <1>1, <1>2, <1>3, <1>5 DEF BlocksInv, BlocksTyped, CountFits
<1>9. Accounted'
  <2> SUFFICES ASSUME NEW s \in Statements
               PROVE  s \in durable' \/ s \in undone' \/ \E i \in 1..Len(open') : s \in open'[i]
    BY <1>1 DEF Accounted
  <2>1. CASE s \in durable \/ s \in undone
    BY <2>1 DEF RaiseInBlock, LeaveBlock, CommitFails
  <2>2. ASSUME NEW i \in 1..Len(open), s \in open[i]
        PROVE  s \in durable' \/ s \in undone' \/ \E j \in 1..Len(open') : s \in open'[j]
    <3>1. CASE RaiseInBlock
      <4>1. /\ undone' = undone \cup open[Len(open)] /\ Len(open') = Len(open) - 1
            /\ \A j \in 1..Len(open') : open'[j] = open[j]
        BY <1>1, <1>2, <3>1, FrontOf DEF RaiseInBlock
      <4>. QED BY <1>1, <1>2, <2>2, <4>1
    <3>2. CASE LeaveBlock /\ Len(blocks) > 1
      <4>1. open' = Merged
        <5>1. \A k \in Nat : k > 1 => k # 1
          OBVIOUS
        <5>2. Len(blocks) # 1
          BY <1>2, <3>2, <5>1, Zenon
        <5>. QED BY <3>2, <5>2, Zenon DEF LeaveBlock
      <4>2. /\ Len(open') = Len(open) - 1
            /\ \A j \in 1..Len(open') :
                  open'[j] = IF j = Len(open') THEN open[j] \cup open[Len(open)] ELSE open[j]
        BY <1>1, <1>2, <4>1 DEF Merged
      <4>3. CASE i = Len(open)
        <5>1. Len(open') \in 1..Len(open')
          BY <1>1, <1>2, <3>2, <4>2
        <5>. QED BY <2>2, <4>2, <4>3, <5>1
      <4>4. CASE i # Len(open)
        <5>1. i \in 1..Len(open')
          BY <1>1, <1>2, <4>2, <4>4
        <5>. QED BY <2>2, <4>2, <5>1
      <4>. QED BY <4>3, <4>4
    <3>3. CASE (LeaveBlock \/ CommitFails) /\ Len(blocks) = 1
      <4>1. i = Len(open)
        BY <1>1, <3>3
      <4>. QED BY <1>2, <2>2, <3>3, <4>1 DEF LeaveBlock, CommitFails
    <3>. QED BY <1>2, <3>1, <3>2, <3>3 DEF CommitFails, LeaveBlock
  <2>3. s \in durable \/ s \in undone \/ \E i \in 1..Len(open) : s \in open[i]
    BY <1>1 DEF BlocksInv, Accounted
  <2>. QED BY <2>1, <2>2, <2>3
<1>. QED BY <1>6, <1>7, <1>8, <1>9 DEF BlocksInv

LEMMA BlocksStep == BlocksInv /\ [TransactionsNext]_transactionVars => BlocksInv'
<1> SUFFICES ASSUME BlocksInv, [TransactionsNext]_transactionVars PROVE BlocksInv'
  OBVIOUS
<1>1. CASE UNCHANGED transactionVars
  BY <1>1 DEF transactionVars, BlocksInv, BlocksTyped, CountFits, OpenApart, Accounted, Statements
<1>2. CASE TransactionsNext
  BY <1>2, EnterStep, RefusalStep, LeaveStep DEF TransactionsNext
<1>. QED BY <1>1, <1>2

LEMMA BlocksInvariant == TransactionsSpec => []BlocksInv
BY BlocksInit, BlocksStep, PTL DEF TransactionsSpec

\* The depth, the blocks and the refusals keep their ranges (sqlite_repository.py, transaction).
THEOREM TransactionTypes == TransactionsSpec => []TransactionsTypeOK
<1>1. BlocksInv => TransactionsTypeOK
  BY TransactionsAssumption DEF BlocksInv, BlocksTyped, CountFits, TransactionsTypeOK
<1>. QED BY <1>1, BlocksInvariant, PTL

\* For any nesting, and wherever a block raises or a COMMIT fails: no statement is both committed
\* and undone; until a BEGIN is refused the depth counts the blocks and every statement that ran is
\* committed, undone or open (sqlite_repository.py, transaction).
THEOREM NothingHalfCommitted == TransactionsSpec => []BlocksAreAtomic
<1>1. BlocksInv => BlocksAreAtomic
  BY DEF BlocksInv, CountFits, Accounted, BlocksTyped, Statements, BlocksAreAtomic
<1>. QED BY <1>1, BlocksInvariant, PTL

(***************************************************************************)
(* Backups and restores.                                                   *)
(***************************************************************************)

\* The states of a backup that holds a content.
Holding == {"copied", "payload", "listed", "altered"}

BackupRecord == [content : Contents \cup {NoContent}, schema : Schemas, state : {"none", "partial"} \cup Holding]

MakerRecord == [at : {"idle", "copy", "publish", "manifest"}, b : 0..MaxBackups]

RestoreStates == {"idle", "begun", "safety", "checkpoint", "close", "sidecars", "replace", "open", "failed"}

RestoreRecord == [at : RestoreStates, b : 0..MaxBackups, safety : 0..MaxBackups, later : BOOLEAN]

\* The log of one file never meets another file, and every content is one that was committed.
StoreFits ==
    /\ main \in [content : Contents, schema : Schemas, born : Nat] /\ main.content <= committed
    /\ wal \in [content : Contents, of : Nat] \cup {NoWal} /\ wal.content <= committed
    /\ wal = NoWal \/ wal.of = main.born
    /\ committed \in Contents

\* A backup is made in one order, the next number is free, and who holds a content was filled.
BackupsFit ==
    /\ backups \in [Backups -> BackupRecord] /\ taken \in Backups
    /\ maker \in MakerRecord /\ reader \in BOOLEAN
    /\ \A b \in Backups : /\ backups[b].content <= committed
                          /\ backups[b].state \in Holding => backups[b].content # NoContent
                          /\ b > taken => backups[b].state = "none"
    /\ maker.at # "idle" => maker.b \in Backups
    /\ maker.at = "copy" => backups[maker.b].state = "partial"
    /\ maker.at = "publish" => backups[maker.b].state = "copied"
    /\ maker.at = "manifest" => backups[maker.b].state = "payload"

\* From its safety copy on a restore has something to go back to, until the file is replaced.
Guarded == {"checkpoint", "close", "sidecars", "replace"}

RestoreFits ==
    /\ restore \in RestoreRecord
    /\ restore.at # "idle" => restore.b \in Backups
    /\ restore.at = "begun" => restore.safety = 0
    /\ restore.at = "safety" => /\ maker.at # "idle"
                                /\ restore.safety = IF maker.at = "copy" THEN 0 ELSE maker.b
    /\ restore.at \in Guarded => restore.safety \in Backups /\ Verified(restore.safety)
    /\ (restore.at \in Guarded \cup {"safety"} /\ restore.safety # 0 /\ ~ restore.later)
          => backups[restore.safety].content = Readable

\* A database that was closed for a replacement is folded before its log is removed.
ClosedFits ==
    /\ repository \in {"open", "closed", "unopened"} /\ alive \in BOOLEAN
    /\ restore.at = "close" => repository = "open"
    /\ restore.at = "sidecars" => repository = "closed" /\ (reader \/ wal = NoWal)
    /\ restore.at \in {"replace", "open"} => repository = "closed" /\ wal = NoWal
    /\ alive /\ repository = "closed" => restore.at \in {"sidecars", "replace", "open", "failed"}
    /\ ~ alive => /\ repository = "closed" /\ reader = FALSE
                  /\ maker = NoMaker /\ restore = NoRestore

BackupInv == StoreFits /\ BackupsFit /\ RestoreFits /\ ClosedFits

-----------------------------------------------------------------------------

\* The numbers in use.
LEMMA Numbers ==
    /\ 0 \in 0..MaxBackups /\ 1 \in Backups /\ 0 \notin Backups /\ Backups \subseteq 0..MaxBackups
    /\ 0 \in Contents /\ Contents \subseteq Nat /\ NoContent \notin Contents /\ Mixed \notin Contents
    /\ Backups \subseteq Nat
BY BackupAssumption DEF Backups, Contents, NoContent, Mixed

LEMMA BackupStart == BackupInit => BackupInv
<1> SUFFICES ASSUME BackupInit PROVE BackupInv
  OBVIOUS
<1>1. StoreFits
  BY Numbers DEF BackupInit, StoreFits, DatabaseFile, Schemas, NoWal, NoContent
<1>2. backups \in [Backups -> BackupRecord]
  <2>1. NoBackup \in BackupRecord
    BY DEF NoBackup, BackupRecord, Schemas
  <2>2. \A schema \in Schemas : [content |-> FirstBackup, schema |-> schema, state |-> "listed"] \in BackupRecord
    BY Numbers DEF FirstBackup, BackupRecord, Holding
  <2>. QED BY <2>1, <2>2 DEF BackupInit
<1>3. maker \in MakerRecord /\ restore \in RestoreRecord
  BY Numbers DEF BackupInit, MakerRecord, RestoreRecord, RestoreStates, NoMaker, NoRestore
<1>4. \A b \in Backups : /\ backups[b].content <= committed
                         /\ backups[b].state \in Holding => backups[b].content # NoContent
                         /\ b > taken => backups[b].state = "none"
  BY Numbers DEF BackupInit, NoBackup, FirstBackup, NoContent, Holding
<1>5. BackupsFit
  BY <1>2, <1>3, <1>4, Numbers DEF BackupInit, BackupsFit, NoMaker
<1>6. RestoreFits /\ ClosedFits
  BY <1>3 DEF BackupInit, RestoreFits, ClosedFits, NoMaker, NoRestore, Guarded
<1>. QED BY <1>1, <1>5, <1>6 DEF BackupInv

-----------------------------------------------------------------------------
\* What the updates of the actions leave behind.

\* With one log, what a reader finds is in the log or else in the file, and was committed.
LEMMA ReadableIs ==
    ASSUME StoreFits
    PROVE  /\ Readable = IF wal = NoWal THEN main.content ELSE wal.content
           /\ Readable \in Contents /\ Readable <= committed
BY DEF StoreFits, Readable

\* Leaving the file alone, folding the log into it, or opening it shows a reader nothing new.
StoreKept ==
    /\ UNCHANGED committed
    /\ \/ UNCHANGED <<main, wal>>
       \/ Folded
       \/ Opened

LEMMA FoldKeeps ==
    ASSUME StoreFits, StoreKept
    PROVE  /\ StoreFits' /\ Readable' = Readable
           /\ main'.born = main.born /\ main'.schema \in {main.schema, "current"}
           /\ wal = NoWal => wal' = NoWal
<1>1. /\ main \in [content : Contents, schema : Schemas, born : Nat]
      /\ Readable \in Contents /\ Readable <= committed /\ (wal = NoWal => Readable = main.content)
  BY ReadableIs DEF StoreFits
<1>2. CASE UNCHANGED <<main, wal>>
  BY <1>2 DEF StoreKept, StoreFits, Readable
<1>3. CASE Folded \/ Opened
  <2>1. /\ wal' = NoWal /\ main'.content = Readable /\ main'.born = main.born
        /\ main'.schema \in {main.schema, "current"}
        /\ main' \in [content : Contents, schema : Schemas, born : Nat]
    BY <1>1, <1>3 DEF Folded, Opened, Schemas
  <2>2. NoWal.content <= committed
    BY <1>1, Numbers DEF StoreFits, NoWal, NoContent
  <2>. QED BY <1>1, <2>1, <2>2 DEF StoreKept, StoreFits, Readable
<1>. QED BY <1>2, <1>3 DEF StoreKept

\* A restore goes on, and keeps what it knows.
LEMMA StepKeeps ==
    ASSUME restore \in RestoreRecord, NEW at \in RestoreStates, Step(at)
    PROVE  /\ restore' \in RestoreRecord /\ restore'.at = at
           /\ restore'.b = restore.b /\ restore'.safety = restore.safety /\ restore'.later = restore.later
BY DEF RestoreRecord, Step

\* One backup is in another state, and holds what it held.
LEMMA StateKeeps ==
    ASSUME backups \in [Backups -> BackupRecord], NEW b \in Backups,
           NEW state \in {"none", "partial"} \cup Holding,
           backups' = [backups EXCEPT ![b].state = state]
    PROVE  /\ backups' \in [Backups -> BackupRecord]
           /\ backups'[b].state = state /\ backups'[b].content = backups[b].content
           /\ \A c \in Backups \ {b} : backups'[c] = backups[c]
BY DEF BackupRecord

\* The contents a restore may take stay when no backup gains, loses or changes one.
LEMMA CopiedStays ==
    ASSUME \A b \in Backups : /\ backups'[b].state \in Holding <=> backups[b].state \in Holding
                              /\ backups[b].state \in Holding => backups'[b].content = backups[b].content
    PROVE  Copied' = Copied
BY DEF Copied, Holding

-----------------------------------------------------------------------------
\* One lemma for each action.

\* What a reader finds and what a restore may take both stay.
Stays == Readable' = Readable /\ Copied' = Copied

LEMMA CommitWriteKeeps ==
    ASSUME BackupInv, CommitWrite
    PROVE  BackupInv' /\ Readable' = committed + 1 /\ Copied' = Copied
<1>1. StoreFits' /\ Readable' = committed + 1
  <2>1. committed + 1 \in Contents /\ committed < committed + 1
    BY BackupAssumption DEF BackupInv, StoreFits, CommitWrite, Contents
  <2>2. wal' # NoWal /\ wal' \in [content : Contents, of : Nat] /\ wal'.of = main.born /\ wal'.content = committed + 1
    BY <2>1, Numbers DEF BackupInv, StoreFits, CommitWrite, NoWal
  <2>3. main'.content <= committed'
    BY <2>1, Numbers DEF BackupInv, StoreFits, CommitWrite
  <2>4. main' = main /\ committed' = committed + 1 /\ main \in [content : Contents, schema : Schemas, born : Nat]
    BY DEF BackupInv, StoreFits, CommitWrite
  <2>5. Readable' = committed + 1
    BY <2>2, <2>4 DEF Readable
  <2>6. wal'.content <= committed'
    BY <2>1, <2>2, <2>4, Numbers
  <2>. QED BY <2>1, <2>2, <2>3, <2>4, <2>5, <2>6 DEF StoreFits
<1>2. BackupsFit'
  <2>1. \A b \in Backups : backups[b].content <= committed + 1
    BY Numbers DEF BackupInv, BackupsFit, StoreFits, BackupRecord, Contents, NoContent
  <2>. QED BY <2>1 DEF BackupInv, BackupsFit, CommitWrite
<1>3. /\ restore' \in RestoreRecord /\ restore'.at = restore.at
      /\ restore'.b = restore.b /\ restore'.safety = restore.safety
      /\ restore'.safety # 0 => restore'.later
  BY DEF BackupInv, RestoreFits, RestoreRecord, CommitWrite
<1>4. RestoreFits'
  BY <1>3 DEF BackupInv, RestoreFits, CommitWrite, Verified
<1>5. ClosedFits'
  BY <1>3 DEF BackupInv, ClosedFits, CommitWrite
<1>. QED BY <1>1, <1>2, <1>4, <1>5 DEF BackupInv, CommitWrite, Copied

LEMMA AlterPayloadKeeps ==
    ASSUME BackupInv, NEW b \in Backups, AlterPayload(b)
    PROVE  BackupInv' /\ Stays
<1>1. /\ backups' \in [Backups -> BackupRecord]
      /\ backups'[b].state = "altered" /\ backups'[b].content = backups[b].content
      /\ \A c \in Backups \ {b} : backups'[c] = backups[c]
  BY StateKeeps DEF BackupInv, BackupsFit, AlterPayload, Holding
<1>2. backups[b].state = "listed" /\ UNCHANGED <<main, wal, taken, reader, maker, restore, committed>>
  BY DEF AlterPayload, Verified
<1>3. StoreFits' /\ Readable' = Readable
  BY <1>2 DEF BackupInv, StoreFits, Readable
<1>4. BackupsFit'
  BY <1>1, <1>2, Numbers DEF BackupInv, BackupsFit, Holding
<1>5. RestoreFits'
  BY <1>1, <1>2, <1>3, Numbers DEF BackupInv, RestoreFits, AlterPayload, Verified, RestoreRecord
<1>6. ClosedFits'
  BY DEF BackupInv, ClosedFits, AlterPayload
<1>7. Copied' = Copied
  BY <1>1, <1>2, CopiedStays DEF Holding
<1>. QED BY <1>3, <1>4, <1>5, <1>6, <1>7 DEF BackupInv, Stays

\* A copy begins with the next free number, on behalf of the user or of a restore.
LEMMA StartsCopyKeeps ==
    ASSUME BackupInv, StartsCopy("copy"), UNCHANGED <<main, wal, repository, alive, committed>>,
           \/ UNCHANGED restore
           \/ Restoring("begun") /\ Step("safety")
    PROVE  /\ StoreFits' /\ BackupsFit' /\ Stays
           /\ maker'.at = "copy" /\ restore \in RestoreRecord
           /\ \A b \in Backups : Verified(b) => backups'[b] = backups[b]
<1>1. taken + 1 \in Backups /\ backups[taken + 1].state = "none"
  BY BackupAssumption DEF BackupInv, BackupsFit, StartsCopy, Backups
<1>2. /\ backups' \in [Backups -> BackupRecord]
      /\ backups'[taken + 1].state = "partial" /\ backups'[taken + 1].content = backups[taken + 1].content
      /\ \A c \in Backups \ {taken + 1} : backups'[c] = backups[c]
  BY <1>1, StateKeeps DEF BackupInv, BackupsFit, StartsCopy
<1>3. maker' \in MakerRecord /\ maker'.at = "copy" /\ maker'.b = taken + 1
  BY <1>1, Numbers DEF StartsCopy, MakerRecord
<1>4. StoreFits' /\ Readable' = Readable
  BY DEF BackupInv, StoreFits, Readable
<1>5. BackupsFit'
  <2>1. \A b \in Backups : b > taken + 1 => backups'[b].state = "none"
    BY <1>2, Numbers DEF BackupInv, BackupsFit
  <2>2. \A b \in Backups : /\ backups'[b].content <= committed
                           /\ backups'[b].state \in Holding => backups'[b].content # NoContent
    BY <1>1, <1>2 DEF BackupInv, BackupsFit, Holding
  <2>. QED BY <1>1, <1>2, <1>3, <2>1, <2>2 DEF BackupsFit, StartsCopy
<1>6. Copied' = Copied
  BY <1>1, <1>2, CopiedStays DEF Holding
<1>7. \A b \in Backups : Verified(b) => backups'[b] = backups[b]
  BY <1>1, <1>2 DEF Verified
<1>. QED BY <1>3, <1>4, <1>5, <1>6, <1>7 DEF BackupInv, RestoreFits, Stays

LEMMA UserBackupKeeps ==
    ASSUME BackupInv, UserBackup
    PROVE  BackupInv' /\ Stays
<1>1. /\ StoreFits' /\ BackupsFit' /\ Stays
      /\ \A b \in Backups : Verified(b) => backups'[b] = backups[b]
  BY StartsCopyKeeps DEF UserBackup
<1>2. restore.at # "safety"
  BY DEF BackupInv, RestoreFits, UserBackup, StartsCopy
<1>3. RestoreFits'
  BY <1>1, <1>2 DEF BackupInv, RestoreFits, UserBackup, Verified, Stays
<1>4. ClosedFits'
  BY DEF BackupInv, ClosedFits, UserBackup, StartsCopy
<1>. QED BY <1>1, <1>3, <1>4 DEF BackupInv

LEMMA SafetyCopyKeeps ==
    ASSUME BackupInv, SafetyCopy
    PROVE  BackupInv' /\ Stays
<1>1. /\ StoreFits' /\ BackupsFit' /\ Stays /\ maker'.at = "copy"
  BY StartsCopyKeeps DEF SafetyCopy
<1>2. /\ restore' \in RestoreRecord /\ restore'.at = "safety"
      /\ restore'.b = restore.b /\ restore'.safety = restore.safety
  BY StepKeeps DEF BackupInv, RestoreFits, SafetyCopy, RestoreStates
<1>3. restore.at = "begun" /\ alive
  BY DEF SafetyCopy, Restoring
<1>4. RestoreFits'
  BY <1>1, <1>2, <1>3 DEF BackupInv, RestoreFits, Guarded
<1>5. ClosedFits'
  BY <1>2, <1>3 DEF BackupInv, ClosedFits, SafetyCopy
<1>. QED BY <1>1, <1>4, <1>5 DEF BackupInv

\* A copy that is made holds what a reader finds; one that fails leaves nothing.
LEMMA CopyEndsKeeps ==
    ASSUME BackupInv, CopyEnds
    PROVE  BackupInv' /\ Readable' = Readable /\ Copied' \in {Copied, Copied \cup {Readable}}
<1>. DEFINE b == maker.b
            made == [content |-> Readable, schema |-> main.schema, state |-> "copied"]
<1>1. b \in Backups /\ backups[b].state = "partial" /\ maker.at = "copy"
  BY DEF BackupInv, BackupsFit, CopyEnds
<1>2. /\ StoreFits' /\ Readable' = Readable /\ Readable \in Contents /\ Readable <= committed
      /\ main'.schema \in {main.schema, "current"} /\ (wal = NoWal => wal' = NoWal)
  BY FoldKeeps, ReadableIs DEF BackupInv, StoreKept, CopyEnds
<1>3. main'.schema = main.schema /\ (repository # "open" => wal' = NoWal)
  BY DEF CopyEnds, Folded, BackupInv, StoreFits
<1>4. ClosedFits' /\ UNCHANGED <<taken, repository, alive, committed>> /\ reader' = FALSE
  <2>1. \/ restore'.at = restore.at
        \/ restore'.at = "failed" /\ restore.at = "safety"
    BY DEF CopyEnds, BackupInv, RestoreFits, RestoreRecord
  <2>2. UNCHANGED <<taken, repository, alive, committed>> /\ reader' = FALSE /\ alive
    BY <1>1 DEF BackupInv, ClosedFits, CopyEnds, NoMaker
  <2>. QED BY <1>2, <1>3, <2>1, <2>2 DEF BackupInv, ClosedFits
<1>5. /\ Listed(restore.safety) => restore.safety # b
      /\ Verified(restore.safety) => restore.safety # b
  BY <1>1 DEF Listed, Verified
<1>6. CASE /\ backups' = [backups EXCEPT ![b] = made] /\ maker' = [maker EXCEPT !.at = "publish"]
           /\ restore' = IF restore.at = "safety" THEN [restore EXCEPT !.safety = b] ELSE restore
  <2>1. made \in BackupRecord /\ made.state = "copied" /\ made.content = Readable
    BY <1>2 DEF BackupInv, StoreFits, BackupRecord, Holding
  <2>. HIDE DEF made
  <2>2. /\ backups' \in [Backups -> BackupRecord] /\ backups'[b] = made
        /\ \A c \in Backups \ {b} : backups'[c] = backups[c]
    BY <1>1, <1>6, <2>1 DEF BackupInv, BackupsFit
  <2>3. maker' \in MakerRecord /\ maker'.at = "publish" /\ maker'.b = b
    BY <1>6 DEF BackupInv, BackupsFit, MakerRecord
  <2>4. BackupsFit'
    <3>1. Readable # NoContent /\ ~ (b > taken)
      BY <1>1, <1>2, Numbers DEF BackupInv, BackupsFit
    <3>. QED BY <1>1, <1>2, <1>4, <2>1, <2>2, <2>3, <3>1 DEF BackupInv, BackupsFit
  <2>5. /\ restore' \in RestoreRecord /\ restore'.at = restore.at /\ restore'.b = restore.b
        /\ restore'.later = restore.later
        /\ restore'.safety = IF restore.at = "safety" THEN b ELSE restore.safety
    BY <1>1, <1>6, Numbers DEF BackupInv, RestoreFits, RestoreRecord
  <2>6. RestoreFits'
    BY <1>1, <1>2, <1>5, <2>1, <2>2, <2>3, <2>5, Numbers DEF BackupInv, RestoreFits, Guarded, Verified
  <2>7. Copied' = Copied \cup {Readable}
    <3>1. \A c \in Backups : (backups'[c].state \in Holding) <=> (c = b \/ backups[c].state \in Holding)
      BY <1>1, <2>1, <2>2 DEF Holding
    <3>2. Copied = {backups[c].content : c \in {k \in Backups : backups[k].state \in Holding}}
          /\ Copied' = {backups'[c].content : c \in {k \in Backups : backups'[k].state \in Holding}}
      BY DEF Copied, Holding
    <3>3. backups[b].state \notin Holding
      BY <1>1 DEF Holding
    <3>. QED BY <1>1, <2>1, <2>2, <3>1, <3>2, <3>3
  <2>. QED BY <1>2, <1>4, <2>4, <2>6, <2>7 DEF BackupInv
<1>7. CASE /\ backups' = [backups EXCEPT ![b] = NoBackup] /\ maker' = NoMaker
           /\ restore' = IF restore.at = "safety" THEN [restore EXCEPT !.at = "failed"] ELSE restore
  <2>1. NoBackup \in BackupRecord /\ NoBackup.state = "none" /\ NoBackup.content <= committed
    BY Numbers DEF BackupInv, StoreFits, NoBackup, BackupRecord, Schemas, NoContent
  <2>2. /\ backups' \in [Backups -> BackupRecord] /\ backups'[b] = NoBackup
        /\ \A c \in Backups \ {b} : backups'[c] = backups[c]
    BY <1>1, <1>7, <2>1 DEF BackupInv, BackupsFit
  <2>3. maker' \in MakerRecord /\ maker'.at = "idle"
    BY <1>7, Numbers DEF NoMaker, MakerRecord
  <2>4. BackupsFit'
    BY <1>1, <1>4, <2>1, <2>2, <2>3 DEF BackupInv, BackupsFit, Holding
  <2>5. /\ restore' \in RestoreRecord /\ restore'.b = restore.b /\ restore'.safety = restore.safety
        /\ restore'.later = restore.later
        /\ restore'.at = IF restore.at = "safety" THEN "failed" ELSE restore.at
    BY <1>7 DEF BackupInv, RestoreFits, RestoreRecord, RestoreStates
  <2>6. RestoreFits'
    BY <1>1, <1>2, <1>5, <2>2, <2>5, Numbers DEF BackupInv, RestoreFits, Guarded, Verified
  <2>7. Copied' = Copied
    BY <1>1, <2>1, <2>2, CopiedStays DEF Holding
  <2>. QED BY <1>2, <1>4, <2>4, <2>6, <2>7 DEF BackupInv
<1>. QED BY <1>6, <1>7 DEF CopyEnds

LEMMA PublishKeeps ==
    ASSUME BackupInv, Publish
    PROVE  BackupInv' /\ Stays
<1>. DEFINE b == maker.b
<1>1. b \in Backups /\ backups[b].state = "copied" /\ maker.at = "publish"
  BY DEF BackupInv, BackupsFit, Publish
<1>2. /\ backups' \in [Backups -> BackupRecord]
      /\ backups'[b].state = "payload" /\ backups'[b].content = backups[b].content
      /\ \A c \in Backups \ {b} : backups'[c] = backups[c]
  BY <1>1, StateKeeps DEF BackupInv, BackupsFit, Publish, Holding
<1>3. maker' \in MakerRecord /\ maker'.at = "manifest" /\ maker'.b = b
  BY <1>1 DEF BackupInv, BackupsFit, Publish, MakerRecord
<1>4. StoreFits' /\ Readable' = Readable
  BY DEF BackupInv, StoreFits, Readable, Publish
<1>5. BackupsFit'
  BY <1>1, <1>2, <1>3 DEF BackupInv, BackupsFit, Publish, Holding
<1>6. RestoreFits'
  BY <1>1, <1>2, <1>3, <1>4, Numbers DEF BackupInv, RestoreFits, RestoreRecord, Publish, Guarded, Verified
<1>7. ClosedFits'
  BY <1>1 DEF BackupInv, ClosedFits, Publish, NoMaker
<1>8. Copied' = Copied
  BY <1>1, <1>2, CopiedStays DEF Holding
<1>. QED BY <1>4, <1>5, <1>6, <1>7, <1>8 DEF BackupInv, Stays

\* Listing succeeds or not; a restore whose copy is not listed ends.
LEMMA ListBackupKeeps ==
    ASSUME BackupInv, ListBackup
    PROVE  BackupInv' /\ Stays
<1>. DEFINE b == maker.b
<1>1. b \in Backups /\ backups[b].state = "payload" /\ maker.at = "manifest"
  BY DEF BackupInv, BackupsFit, ListBackup
<1>2. /\ backups' \in [Backups -> BackupRecord]
      /\ backups'[b].state \in {"payload", "listed"} /\ backups'[b].content = backups[b].content
      /\ \A c \in Backups \ {b} : backups'[c] = backups[c]
  <2>1. CASE backups' = [backups EXCEPT ![b].state = "listed"]
    BY <1>1, <2>1, StateKeeps DEF BackupInv, BackupsFit, Holding
  <2>. QED BY <1>1, <2>1 DEF BackupInv, BackupsFit, ListBackup
<1>3. maker' = NoMaker /\ maker' \in MakerRecord /\ maker'.at = "idle"
  BY Numbers DEF ListBackup, NoMaker, MakerRecord
<1>4. /\ restore' \in RestoreRecord /\ restore'.b = restore.b
      /\ restore'.safety = restore.safety /\ restore'.later = restore.later
      /\ restore.at # "safety" => restore'.at = restore.at
      /\ restore.at = "safety" => \/ restore'.at = "failed"
                                  \/ restore'.at = "checkpoint" /\ backups'[b].state = "listed"
  <2>1. CASE restore' = [restore EXCEPT !.at = "checkpoint"] /\ backups' = [backups EXCEPT ![b].state = "listed"]
             /\ restore.at = "safety"
    BY <1>1, <2>1 DEF BackupInv, RestoreFits, BackupsFit, RestoreRecord, RestoreStates
  <2>2. CASE restore' = [restore EXCEPT !.at = "failed"] /\ restore.at = "safety"
    BY <2>2 DEF BackupInv, RestoreFits, RestoreRecord, RestoreStates
  <2>3. CASE restore' = restore /\ restore.at # "safety"
    BY <2>3 DEF BackupInv, RestoreFits
  <2>. QED BY <2>1, <2>2, <2>3 DEF ListBackup, NotListed
<1>5. StoreFits' /\ Readable' = Readable
  BY DEF BackupInv, StoreFits, Readable, ListBackup
<1>6. BackupsFit'
  BY <1>1, <1>2, <1>3 DEF BackupInv, BackupsFit, ListBackup, Holding
<1>7. RestoreFits'
  BY <1>1, <1>2, <1>3, <1>4, <1>5, Numbers DEF BackupInv, RestoreFits, Guarded, Verified
<1>8. ClosedFits'
  BY <1>1, <1>4 DEF BackupInv, ClosedFits, ListBackup, NoMaker
<1>9. Copied' = Copied
  BY <1>1, <1>2, CopiedStays DEF Holding
<1>. QED BY <1>5, <1>6, <1>7, <1>8, <1>9 DEF BackupInv, Stays

\* Nothing about the backups changes.
LEMMA BackupsStay ==
    ASSUME BackupInv, UNCHANGED <<backups, taken, maker, reader, committed>>
    PROVE  BackupsFit' /\ Copied' = Copied /\ \A b \in Backups : Verified(b)' <=> Verified(b)
BY DEF BackupInv, BackupsFit, Copied, Verified

LEMMA SameStore ==
    ASSUME UNCHANGED <<main, wal, backups>>
    PROVE  Stays
BY DEF Stays, Readable, Copied

LEMMA NoRestoreIs ==
    /\ NoRestore \in RestoreRecord /\ NoRestore.at = "idle" /\ NoRestore.b = 0
    /\ NoRestore.safety = 0 /\ NoRestore.later = FALSE
BY Numbers DEF NoRestore, RestoreRecord, RestoreStates

LEMMA BeginRestoreKeeps ==
    ASSUME BackupInv, NEW b \in Backups, BeginRestore(b)
    PROVE  BackupInv' /\ Stays
<1>1. /\ restore' \in RestoreRecord /\ restore'.at \in {"begun", "failed"} /\ restore'.b = b
      /\ restore'.safety = 0
  BY Numbers DEF BeginRestore, NoRestore, RestoreRecord, RestoreStates
<1>2. StoreFits' /\ Stays
  BY SameStore DEF BackupInv, StoreFits, BeginRestore
<1>3. BackupsFit'
  BY BackupsStay DEF BeginRestore
<1>4. RestoreFits'
  BY <1>1 DEF RestoreFits, Guarded
<1>5. ClosedFits'
  BY <1>1 DEF BackupInv, ClosedFits, BeginRestore
<1>. QED BY <1>2, <1>3, <1>4, <1>5 DEF BackupInv

\* A step of a restore that keeps what a reader finds keeps what there is to go back to.
LEMMA RestoreGoesOn ==
    ASSUME BackupInv, NEW at \in RestoreStates \ {"idle", "begun", "safety"}, Step(at),
           restore.at # "idle", Readable' = Readable,
           UNCHANGED <<backups, taken, maker, reader, committed>>,
           at \in Guarded => restore.at \in Guarded
    PROVE  RestoreFits' /\ restore'.at = at
<1>1. /\ restore' \in RestoreRecord /\ restore'.at = at
      /\ restore'.b = restore.b /\ restore'.safety = restore.safety /\ restore'.later = restore.later
  BY StepKeeps DEF BackupInv, RestoreFits
<1>. QED BY <1>1, BackupsStay DEF BackupInv, RestoreFits, Verified

LEMMA CheckpointKeeps ==
    ASSUME BackupInv, Checkpoint
    PROVE  BackupInv' /\ Stays
<1>1. StoreFits' /\ Readable' = Readable
  BY FoldKeeps DEF BackupInv, StoreKept, Checkpoint, FoldedUnlessRead
<1>2. main'.schema = main.schema
  BY DEF BackupInv, StoreFits, Checkpoint, FoldedUnlessRead, Folded
<1>3. BackupsFit' /\ Copied' = Copied
  BY BackupsStay DEF Checkpoint
<1>4. PICK at \in {"close", "failed"} : Step(at) /\ (at = "close" => repository = "open")
  BY DEF Checkpoint
<1>5. RestoreFits' /\ restore'.at = at
  BY <1>1, <1>4, RestoreGoesOn DEF Checkpoint, Restoring, RestoreStates, Guarded
<1>6. ClosedFits'
  BY <1>2, <1>4, <1>5 DEF BackupInv, ClosedFits, Checkpoint, Restoring
<1>. QED BY <1>1, <1>3, <1>5, <1>6 DEF BackupInv, Stays

LEMMA CloseRepositoryKeeps ==
    ASSUME BackupInv, CloseRepository
    PROVE  BackupInv' /\ Stays
<1>1. StoreFits' /\ Readable' = Readable
  BY FoldKeeps DEF BackupInv, StoreKept, CloseRepository, FoldedUnlessRead
<1>2. repository' = "closed" /\ alive' /\ (reader' \/ wal' = NoWal)
  BY DEF CloseRepository, Restoring, FoldedUnlessRead, Folded, BackupInv, BackupsFit, ClosedFits
<1>3. BackupsFit' /\ Copied' = Copied
  BY BackupsStay DEF CloseRepository
<1>4. RestoreFits' /\ restore'.at = "sidecars"
  BY <1>1, RestoreGoesOn DEF CloseRepository, Restoring, RestoreStates, Guarded
<1>5. ClosedFits'
  BY <1>2, <1>4 DEF BackupInv, ClosedFits, CloseRepository, Restoring
<1>. QED BY <1>1, <1>3, <1>4, <1>5 DEF BackupInv, Stays

\* The log that is removed was folded: nobody reads, so the last close had emptied it.
LEMMA RemoveSidecarsKeeps ==
    ASSUME BackupInv, RemoveSidecars
    PROVE  BackupInv' /\ Stays
<1>1. UNCHANGED <<main, wal, committed, alive, repository>> /\ alive /\ repository = "closed"
  BY DEF BackupInv, ClosedFits, RemoveSidecars, Restoring
<1>2. StoreFits' /\ Readable' = Readable
  BY <1>1 DEF BackupInv, StoreFits, Readable
<1>3. BackupsFit' /\ Copied' = Copied
  BY BackupsStay DEF RemoveSidecars
<1>4. PICK at \in {"replace", "failed"} : Step(at) /\ (at = "replace" => wal' = NoWal)
  BY DEF RemoveSidecars
<1>5. RestoreFits' /\ restore'.at = at
  BY <1>2, <1>4, RestoreGoesOn DEF RemoveSidecars, Restoring, RestoreStates, Guarded
<1>6. ClosedFits'
  BY <1>1, <1>4, <1>5 DEF BackupInv, ClosedFits
<1>. QED BY <1>2, <1>3, <1>5, <1>6 DEF BackupInv, Stays

\* A reader finds the copy that was put in place, or what was there.
LEMMA ReplaceMainKeeps ==
    ASSUME BackupInv, ReplaceMain
    PROVE  /\ BackupInv' /\ Readable' \in Copied \cup {Readable} /\ Copied' = Copied
           /\ Listed(restore.safety) /\ (restore.later \/ backups[restore.safety].content = Readable)
<1>1. /\ restore.at = "replace" /\ alive /\ repository = "closed" /\ wal = NoWal /\ restore.b \in Backups
      /\ UNCHANGED <<wal, backups, taken, repository, reader, maker, alive, committed, crashes>>
  BY DEF BackupInv, ClosedFits, RestoreFits, ReplaceMain, Restoring
<1>2. BackupsFit' /\ Copied' = Copied
  BY <1>1, BackupsStay
<1>3. PICK at \in {"open", "failed"} : Step(at)
  BY DEF ReplaceMain
<1>4. restore' \in RestoreRecord /\ restore'.at = at /\ restore'.b = restore.b
  BY <1>3, StepKeeps DEF BackupInv, RestoreFits, RestoreStates
<1>5. RestoreFits'
  BY <1>1, <1>4 DEF RestoreFits, Guarded
<1>6. ClosedFits'
  BY <1>1, <1>4 DEF ClosedFits
<1>7. StoreFits' /\ Readable' \in Copied \cup {Readable}
  <2>1. CASE main' = main
    BY <1>1, <2>1 DEF BackupInv, StoreFits, Readable
  <2>2. CASE MayReplace /\ main' = DatabaseFile(Payload(restore.b), backups[restore.b].schema, main.born + 1)
    <3>1. /\ backups[restore.b].state = "listed" /\ backups[restore.b].content \in Contents
          /\ backups[restore.b].schema \in Schemas /\ backups[restore.b].content <= committed
      BY <1>1, <2>2 DEF BackupInv, BackupsFit, MayReplace, Verified, BackupRecord, Holding
    <3>2. /\ main' \in [content : Contents, schema : Schemas, born : Nat]
          /\ main'.content = backups[restore.b].content
      BY <2>2, <3>1 DEF DatabaseFile, Payload, Verified, BackupInv, StoreFits
    <3>3. main'.content \in Copied
      BY <1>1, <3>1, <3>2 DEF Copied
    <3>. QED BY <1>1, <3>1, <3>2, <3>3 DEF BackupInv, StoreFits, Readable
  <2>. QED BY <2>1, <2>2 DEF ReplaceMain
<1>8. Listed(restore.safety) /\ (restore.later \/ backups[restore.safety].content = Readable)
  BY <1>1, Numbers DEF BackupInv, RestoreFits, Guarded, Listed, Verified
<1>. QED BY <1>2, <1>5, <1>6, <1>7, <1>8 DEF BackupInv

LEMMA OpenRestoredKeeps ==
    ASSUME BackupInv, OpenRestored
    PROVE  BackupInv' /\ Stays
<1>1. StoreFits' /\ Readable' = Readable
  BY FoldKeeps DEF BackupInv, StoreKept, OpenRestored, StaysClosed
<1>2. BackupsFit' /\ Copied' = Copied
  BY BackupsStay DEF OpenRestored, StaysClosed
<1>3. CASE restore' = NoRestore /\ repository' = "open"
  <2>1. RestoreFits'
    BY <1>3, NoRestoreIs DEF RestoreFits, Guarded
  <2>2. ClosedFits'
    BY <1>3, NoRestoreIs DEF BackupInv, ClosedFits, OpenRestored, Restoring
  <2>. QED BY <1>1, <1>2, <2>1, <2>2 DEF BackupInv, Stays
<1>4. CASE StaysClosed
  <2>1. RestoreFits' /\ ClosedFits'
    BY <1>1, <1>4, NoRestoreIs DEF BackupInv, RestoreFits, ClosedFits, OpenRestored, Restoring, StaysClosed, Guarded
  <2>. QED BY <1>1, <1>2, <2>1 DEF BackupInv, Stays
<1>5. CASE Step("failed") /\ UNCHANGED <<main, wal, repository>>
  <2>1. RestoreFits' /\ restore'.at = "failed"
    BY <1>1, <1>5, RestoreGoesOn DEF OpenRestored, Restoring, RestoreStates, Guarded
  <2>2. ClosedFits'
    BY <1>5, <2>1 DEF BackupInv, ClosedFits, OpenRestored, Restoring
  <2>. QED BY <1>1, <1>2, <2>1, <2>2 DEF BackupInv, Stays
<1>. QED BY <1>3, <1>4, <1>5 DEF OpenRestored

LEMMA ReopenAfterFailureKeeps ==
    ASSUME BackupInv, ReopenAfterFailure
    PROVE  BackupInv' /\ Stays
<1>1. StoreFits' /\ Readable' = Readable
  BY FoldKeeps DEF BackupInv, StoreKept, ReopenAfterFailure, StaysClosed
<1>2. BackupsFit' /\ Copied' = Copied
  BY BackupsStay DEF ReopenAfterFailure
<1>3. restore' = NoRestore /\ RestoreFits'
  BY NoRestoreIs DEF ReopenAfterFailure, StaysClosed, RestoreFits, Guarded
<1>4. ClosedFits'
  BY <1>3, NoRestoreIs DEF BackupInv, ClosedFits, ReopenAfterFailure, StaysClosed, Restoring
<1>. QED BY <1>1, <1>2, <1>3, <1>4 DEF BackupInv, Stays

\* What is on disk stays; the connection, the copy and the restore are gone.
LEMMA CrashKeeps ==
    ASSUME BackupInv, Crash
    PROVE  BackupInv' /\ Stays
<1>1. StoreFits' /\ Stays
  BY SameStore DEF BackupInv, StoreFits, Crash
<1>2. NoMaker \in MakerRecord /\ NoMaker.at = "idle"
  BY Numbers DEF NoMaker, MakerRecord
<1>3. BackupsFit'
  BY <1>2 DEF BackupInv, BackupsFit, Crash
<1>4. RestoreFits' /\ ClosedFits'
  BY NoRestoreIs DEF RestoreFits, ClosedFits, Crash, Guarded
<1>. QED BY <1>1, <1>3, <1>4 DEF BackupInv

LEMMA StartAgainKeeps ==
    ASSUME BackupInv, StartAgain
    PROVE  BackupInv' /\ Stays
<1>1. StoreFits' /\ Readable' = Readable
  BY FoldKeeps DEF BackupInv, StoreKept, StartAgain
<1>2. BackupsFit' /\ Copied' = Copied
  BY BackupsStay DEF StartAgain
<1>3. restore' = NoRestore
  BY DEF BackupInv, ClosedFits, StartAgain
<1>4. RestoreFits' /\ ClosedFits'
  BY <1>3, NoRestoreIs DEF RestoreFits, ClosedFits, StartAgain, Guarded
<1>. QED BY <1>1, <1>2, <1>4 DEF BackupInv, Stays

-----------------------------------------------------------------------------
\* The theorems.

\* Every step keeps the invariant, and what it does to the contents is a step of the promise.
LEMMA BackupStep ==
    ASSUME BackupInv, [BackupNext]_backupVars
    PROVE  BackupInv' /\ [Durable!DurableNext]_(Durable!durableVars)
<1>1. CASE BackupInv' /\ Stays
  BY <1>1 DEF Stays, Durable!durableVars
<1>2. CASE UNCHANGED backupVars
  BY <1>2 DEF backupVars, BackupInv, StoreFits, BackupsFit, RestoreFits, ClosedFits, Readable, Copied, Verified,
     Durable!durableVars
<1>3. CASE CommitWrite
  <2>1. BackupInv' /\ Readable' = committed + 1 /\ Copied' = Copied
    BY <1>3, CommitWriteKeeps
  <2>2. \A c \in Copied : c <= committed
    BY DEF Copied, BackupInv, BackupsFit
  <2>3. Readable \in Nat /\ committed \in Nat /\ Readable <= committed
    BY ReadableIs, Numbers DEF BackupInv, StoreFits
  <2>4. committed + 1 \notin Copied /\ committed + 1 > Readable
    BY <2>2, <2>3
  <2>5. committed + 1 \in Contents
    BY <1>3, <2>1 DEF BackupInv, StoreFits, CommitWrite
  <2>. QED BY <2>1, <2>4, <2>5 DEF Durable!DurableNext, Durable!Commit
<1>4. CASE CopyEnds
  BY <1>4, CopyEndsKeeps DEF Durable!DurableNext, Durable!Copy, Durable!durableVars
<1>5. CASE ReplaceMain
  BY <1>5, ReplaceMainKeeps DEF Durable!DurableNext, Durable!PutBack, Durable!durableVars
<1>6. CASE \E b \in Backups : AlterPayload(b) \/ BeginRestore(b)
  BY <1>1, <1>6, AlterPayloadKeeps, BeginRestoreKeeps
<1>7. CASE UserBackup \/ SafetyCopy \/ Publish \/ ListBackup
  BY <1>1, <1>7, UserBackupKeeps, SafetyCopyKeeps, PublishKeeps, ListBackupKeeps
<1>8. CASE Checkpoint \/ CloseRepository \/ RemoveSidecars \/ OpenRestored \/ ReopenAfterFailure
  BY <1>1, <1>8, CheckpointKeeps, CloseRepositoryKeeps, RemoveSidecarsKeeps, OpenRestoredKeeps,
     ReopenAfterFailureKeeps
<1>9. CASE Crash \/ StartAgain
  BY <1>1, <1>9, CrashKeeps, StartAgainKeeps
<1>. QED BY <1>2, <1>3, <1>4, <1>5, <1>6, <1>7, <1>8, <1>9 DEF BackupNext

LEMMA BackupInvariant == BackupSpec => []BackupInv
<1>1. BackupInv /\ [BackupNext]_backupVars => BackupInv'
  BY BackupStep
<1>. QED BY <1>1, BackupStart, PTL DEF BackupSpec

\* The file is another one only after ReplaceMain.
LEMMA OnlyReplaced ==
    ASSUME BackupInv, BackupNext, main'.born # main.born
    PROVE  ReplaceMain
<1>1. StoreKept => main'.born = main.born
  BY FoldKeeps DEF BackupInv
<1>2. main # main'
  OBVIOUS
<1>3. CASE CopyEnds \/ Checkpoint \/ CloseRepository
  BY <1>1, <1>3 DEF StoreKept, CopyEnds, Checkpoint, CloseRepository, FoldedUnlessRead
<1>4. CASE OpenRestored \/ ReopenAfterFailure \/ StartAgain
  BY <1>1, <1>4 DEF StoreKept, OpenRestored, ReopenAfterFailure, StartAgain, StaysClosed
<1>. QED BY <1>2, <1>3, <1>4 DEF BackupNext, CommitWrite, UserBackup, Publish, ListBackup, AlterPayload,
     BeginRestore, SafetyCopy, RemoveSidecars, Crash

\* What the database file, its backups and a restore hold is of its type (sqlite_backup.py,
\* application_service.py restore_backup).
THEOREM BackupTypes == BackupSpec => []BackupTypeOK
<1>1. BackupInv => BackupTypeOK
  BY DEF BackupInv, StoreFits, BackupsFit, RestoreFits, ClosedFits, BackupTypeOK, BackupRecord, MakerRecord,
     RestoreRecord
<1>. QED BY <1>1, BackupInvariant, PTL

\* For any number of backups, commits and ends of the process: what a reader finds changes by
\* commits and by whole copies put back, so the log of one file never meets another file
\* (application_service.py restore_backup, sqlite_backup.py restore_sqlite_backup).
THEOREM RestoreKeepsThePromise == BackupSpec => ImplementsDurableStore
<1>1. BackupInit => Durable!DurableInit
  <2> SUFFICES ASSUME BackupInit PROVE Durable!DurableInit
    OBVIOUS
  <2>1. BackupInv
    BY BackupStart
  <2>2. Copied \subseteq Contents
    BY <2>1 DEF BackupInv, BackupsFit, BackupRecord, Copied, Holding
  <2>. QED BY <2>1, <2>2, ReadableIs DEF BackupInv, Durable!DurableInit
<1>2. BackupInv /\ [BackupNext]_backupVars => [Durable!DurableNext]_(Durable!durableVars)
  BY BackupStep
<1>. QED BY <1>1, <1>2, BackupInvariant, PTL DEF BackupSpec, ImplementsDurableStore

\* No replacement of the file happens without a listed copy of what is replaced, and a restore
\* that is over has left the database open, or has tried to open it in vain (application_service.py,
\* restore_backup and _reopen_repository_after_failed_restore).
THEOREM RestoresAreSafe == BackupSpec => RestoreIsSafe
<1>1. BackupInv => UsableAfterRestore
  BY DEF BackupInv, ClosedFits, UsableAfterRestore
<1>2. BackupInv /\ [BackupNext]_backupVars => [WhatIsReplacedIsKept]_backupVars
  BY OnlyReplaced, ReplaceMainKeeps DEF WhatIsReplacedIsKept
<1>3. BackupSpec => ReplacedIsKept
  BY <1>2, BackupInvariant, PTL DEF BackupSpec, ReplacedIsKept
<1>4. BackupSpec => []UsableAfterRestore
  BY <1>1, BackupInvariant, PTL
<1>. QED BY <1>3, <1>4 DEF RestoreIsSafe

-----------------------------------------------------------------------------
(* The copy of the client's global settings (module ClientSettings).        *)

\* Until there is a copy, the file itself has the cap of the user.
CopyInv == IF globalsKept.there THEN globalsKept.cap \in ClientCaps
           ELSE globals.there => globals.cap \in ClientCaps

\* What the methods of the patcher do to the two.
KeepsCopy ==
    /\ globalsKept.there => globalsKept' = globalsKept
    /\ ~ globalsKept.there => \/ globalsKept' = globals /\ globals.there
                              \/ globalsKept' = globalsKept /\ globals' = globals

LEMMA CopyStays == CopyInv /\ KeepsCopy => CopyInv'
BY DEF CopyInv, KeepsCopy

LEMMA MethodsKeepCopy ==
    /\ \A cap : SetFpsCap(cap) \/ SetFpsCapFails(cap) => KeepsCopy
    /\ RemoveFpsCap \/ RemoveFpsCapFails => KeepsCopy
    /\ \A cap : PatchLaunchSettings(cap) \/ PatchLaunchSettingsFails(cap) => KeepsCopy
    /\ \A volume : ApplyGlobalSettings(volume) => KeepsCopy
    /\ ApplyGlobalSettingsFails => KeepsCopy
<1>1. /\ RestoresGlobals => KeepsCopy
      /\ LeavesGlobals => KeepsCopy
      /\ \A cap : CapsGlobals(cap) => KeepsCopy
      /\ globals.there /\ CopiesAtMost => KeepsCopy
  BY DEF RestoresGlobals, LeavesGlobals, CapsGlobals, CopiesAtMost, CopiedOnce, KeepsCopy
<1>2. RefusedFirst => KeepsCopy
  BY <1>1 DEF RefusedFirst
<1>3. \A new, cap : RefusedLast(new, cap) => KeepsCopy
  BY <1>1 DEF RefusedLast
<1>4. \A cap : SetFpsCap(cap) \/ SetFpsCapFails(cap) => KeepsCopy
  BY <1>1, <1>2, <1>3 DEF SetFpsCap, SetFpsCapFails
<1>5. RemoveFpsCap \/ RemoveFpsCapFails => KeepsCopy
  BY <1>1, <1>2, <1>3 DEF RemoveFpsCap, RemoveFpsCapFails
<1>6. \A cap : PatchLaunchSettings(cap) \/ PatchLaunchSettingsFails(cap) => KeepsCopy
  BY <1>1, <1>2, <1>3 DEF PatchLaunchSettings, PatchLaunchSettingsFails
<1>7. \A volume : ApplyGlobalSettings(volume) => KeepsCopy
  BY DEF ApplyGlobalSettings, CopiedOnce, KeepsCopy
<1>8. ApplyGlobalSettingsFails => KeepsCopy
  BY <1>1 DEF ApplyGlobalSettingsFails
<1>. QED BY <1>4, <1>5, <1>6, <1>7, <1>8

LEMMA CopyBegins == ClientSettingsInit => CopyInv
<1> SUFFICES ASSUME ClientSettingsInit PROVE CopyInv
  OBVIOUS
<1>1. ~ NoGlobals.there /\ globalsKept = NoGlobals
  BY DEF ClientSettingsInit, NoGlobals
<1>2. globals = NoGlobals \/ globals \in [there : {TRUE}, cap : ClientCaps, volume : {1}]
  BY DEF ClientSettingsInit
<1>. QED BY <1>1, <1>2 DEF CopyInv

LEMMA CopyStep == CopyInv /\ [ClientSettingsNext]_clientFileVars => CopyInv'
<1> SUFFICES ASSUME CopyInv, [ClientSettingsNext]_clientFileVars PROVE CopyInv'
  OBVIOUS
<1>1. CASE UNCHANGED clientFileVars
  BY <1>1 DEF clientFileVars, CopyInv
<1>2. ASSUME NEW u \in Appliers,
             \/ ApplyCap(u) \/ ApplyCapFails(u) \/ ApplyGlobals(u) \/ ApplyGlobalsFails(u)
             \/ UndoCap(u) \/ UndoCapFails(u)
      PROVE  CopyInv'
  BY <1>2, MethodsKeepCopy, CopyStays
     DEF ApplyCap, ApplyCapFails, ApplyGlobals, ApplyGlobalsFails, UndoCap, UndoCapFails
<1>3. ASSUME NEW u \in Appliers, NEW cap, NEW volume, BeginApply(u, cap, volume) PROVE CopyInv'
  BY <1>3 DEF BeginApply, CopyInv
<1>4. ASSUME NEW cap, LaunchPatches(cap) \/ ScreenSetsCap(cap) PROVE CopyInv'
  BY <1>4, MethodsKeepCopy, CopyStays DEF LaunchPatches, ScreenSetsCap
<1>5. ASSUME NEW cap \in ClientCaps, NEW volume, ClientSaves(cap, volume) PROVE CopyInv'
  BY <1>5 DEF ClientSaves, CopyInv
<1>6. ASSUME NEW d, RobloxUpdates(d) PROVE CopyInv'
  BY <1>6 DEF RobloxUpdates, CopyInv
<1>. QED BY <1>1, <1>2, <1>3, <1>4, <1>5, <1>6 DEF ClientSettingsNext

LEMMA CopyIsKept == CopyInv => CopyIsOfTheUser
BY DEF CopyInv, CopyIsOfTheUser

-----------------------------------------------------------------------------
(* Accounts and their secrets (module AccountStore).                        *)

Grants == [user : Users \cup {Nothing}, issue : Nat]
SecretRows == [session : Users \cup {Nothing}, grant : Grants]
CallRows ==
    [at : {"idle", "write", "dropSession", "dropRow", "loginRow", "loginSecret", "loginFlag", "loginUndo",
           "linkRow", "linkGrant", "linkSave", "linkUndo", "linkTakeBack", "dropGrant", "unlink"},
     op : {"none", "create", "edit", "validate", "delete", "cookie", "link", "refresh", "disconnect"},
     id : 0..MaxAccounts, row : Rows, made : BOOLEAN, grant : Grants, previous : Grants,
     before : {<<>>} \cup (Rows \X SecretRows)]

StoreTyped ==
    /\ accounts \in [Ids -> Rows] /\ secrets \in [Ids -> SecretRows] /\ call \in [Callers -> CallRows]
    /\ groups \subseteq {TheGroup} /\ minted \in 0..MaxAccounts /\ begun \in 0..MaxCalls /\ issued \in Nat
    /\ overlapped \subseteq Ids /\ halved \in BOOLEAN /\ renamed \in BOOLEAN

\* A row as an account has it: with a name, which is the user's until somebody writes another.
Sane(row) == row.name \in Users /\ (~ renamed => row.user \in {Nothing, row.name})
GrantFits(grant) == grant = NoGrant \/ grant.user \in Users

RowsOK ==
    \A id \in Ids :
        /\ Exists(id) => Sane(accounts[id]) /\ id <= minted
        /\ ~ Exists(id) => secrets[id] = NoSecrets
        /\ GrantFits(secrets[id].grant)

\* What the record of a call holds, whoever else works on its account.
KnownStep(k) ==
    /\ k.at # "idle" => k.id \in 1..minted
    /\ k.at \in {"write", "loginRow", "loginSecret", "loginFlag", "linkRow", "linkGrant", "linkSave",
                 "dropGrant", "unlink"} => Sane(k.row)
    /\ k.at \in {"loginRow", "loginSecret", "loginFlag"} => k.row.user \in Users
    /\ k.at \in {"loginRow", "loginSecret", "loginFlag", "loginUndo"} => k.op = "cookie"
    /\ k.at \in {"linkRow", "linkGrant", "linkSave", "linkUndo"} => k.grant.user \in Users
    /\ GrantFits(k.previous)
    /\ k.at = "linkRow" => k.made
KnownCall(k) == KnownStep(k) /\ (k.at # "idle" /\ k.made => k.before = <<NoAccount, NoSecrets>>)
CallsKnown == \A c \in Callers : KnownCall(call[c])

CallsApart ==
    \A c, d \in Callers :
        c # d /\ call[c].at # "idle" /\ call[d].at # "idle" /\ call[c].id = call[d].id => call[c].id \in overlapped

\* A row and its secrets fit.
Fit(row, s) ==
    /\ row.session => s.session # Nothing
    /\ row.linked => s.grant # NoGrant
    /\ ~ renamed => s.session \in {Nothing, row.user} /\ s.grant.user \in {Nothing, row.user}

Restored(s, grant) == [s EXCEPT !.grant = grant]

\* What a call that is alone with its account relies on, at each of its places: that the row
\* it found fits, or fits with the grant there was before, and the row it is to save fits.
FindsFit == {"write", "dropSession", "loginRow", "loginSecret", "loginFlag", "loginUndo",
             "linkRow", "linkGrant", "linkTakeBack", "dropGrant"}
SavesFit == {"write", "loginRow", "loginSecret", "loginFlag", "linkRow", "linkSave", "dropGrant", "unlink"}
FitsHere(k, row, s) ==
    /\ k.at \in FindsFit => Fit(row, s)
    /\ k.at \in SavesFit => Fit(k.row, s)
    /\ k.at = "loginSecret" => row = k.row
    /\ k.at \in {"linkRow", "linkGrant"} =>
         /\ k.row.session => s.session # Nothing
         /\ ~ renamed => s.session \in {Nothing, k.grant.user}
         /\ k.previous = s.grant
    /\ k.at \in {"linkSave", "linkUndo"} => Fit(row, Restored(s, k.previous))
    /\ k.at \in {"linkGrant", "linkSave", "linkUndo"} => row # NoAccount
    /\ k.at = "dropGrant" => ~ k.row.linked

\* An account that a call did not make is, but for the grant, as the call found it.
Recalls(k, row, s) ==
    ~ k.made =>
        /\ k.at \in {"linkGrant", "linkTakeBack"} => k.before = <<row, s>>
        /\ k.at \in {"linkSave", "linkUndo"} => k.before = <<row, Restored(s, k.previous)>>
PlaceFits(k, row, s) == FitsHere(k, row, s) /\ Recalls(k, row, s)

AllFit ==
    ~ halved =>
        /\ \A c \in Callers :
              call[c].at # "idle" /\ call[c].id \notin overlapped =>
                PlaceFits(call[c], accounts[call[c].id], secrets[call[c].id])
        /\ \A id \in Ids \ overlapped :
              (\A c \in Callers : call[c].at = "idle" \/ call[c].id # id) => Fit(accounts[id], secrets[id])

StoreInv == StoreTyped /\ RowsOK /\ CallsKnown /\ CallsApart /\ AllFit


-----------------------------------------------------------------------------
LEMMA NobodysRow ==
    /\ NoAccount \in Rows /\ NoSecrets \in SecretRows /\ NoGrant \in Grants /\ Idle \in CallRows
    /\ NoAccount.name = Nothing /\ NoAccount.user = Nothing /\ NoAccount.group = NoGroup
    /\ ~ NoAccount.session /\ ~ NoAccount.linked
    /\ NoSecrets.session = Nothing /\ NoSecrets.grant = NoGrant /\ NoGrant.user = Nothing
    /\ Idle.at = "idle" /\ KnownCall(Idle) /\ Fit(NoAccount, NoSecrets)
<1>1. NoGrant \in Grants
  BY DEF NoGrant, Grants, Nothing
<1>2. NoSecrets \in SecretRows
  BY <1>1 DEF NoSecrets, SecretRows, Nothing
<1>3. NoAccount \in Rows
  BY DEF NoAccount, Account, Rows, Nothing, NoGroup
<1>4. Idle \in CallRows
  BY <1>1, <1>3, StoreAssumption DEF Idle, CallRows
<1>5. /\ NoAccount.name = Nothing /\ NoAccount.user = Nothing /\ NoAccount.group = NoGroup
      /\ ~ NoAccount.session /\ ~ NoAccount.linked
  BY DEF NoAccount, Account
<1>6. NoSecrets.session = Nothing /\ NoSecrets.grant = NoGrant /\ NoGrant.user = Nothing
  BY DEF NoSecrets, NoGrant
<1>7. Idle.at = "idle" /\ KnownCall(Idle)
  BY DEF Idle, KnownCall, KnownStep, GrantFits
<1>. QED BY <1>1, <1>2, <1>3, <1>4, <1>5, <1>6, <1>7 DEF Fit

\* Users are not nobody, and a row with a user or a name is an account.
LEMMA UsersAre ==
    /\ \A user \in Users : user # Nothing /\ user \in Nat
    /\ \A row \in Rows : row.name \in Users => row # NoAccount
BY StoreAssumption, NobodysRow DEF Nothing

\* What is known of a call that is under way.
LEMMA CallIs ==
    ASSUME StoreInv, NEW c \in Callers, NEW k, k = call[c], NEW id, id = call[c].id
    PROVE  /\ k \in CallRows /\ KnownCall(k) /\ k.row \in Rows /\ k.grant \in Grants /\ k.previous \in Grants
           /\ k.at # "idle" => id \in Ids /\ accounts[id] \in Rows /\ secrets[id] \in SecretRows
           /\ k.at # "idle" /\ ~ halved /\ id \notin overlapped => PlaceFits(k, accounts[id], secrets[id])
<1>1. k \in CallRows /\ KnownCall(k)
  BY DEF StoreInv, StoreTyped, CallsKnown
<1>2. k.row \in Rows /\ k.grant \in Grants /\ k.previous \in Grants
  BY <1>1 DEF CallRows
<1>3. k.at # "idle" => id \in Ids
  <2>1. minted \in Nat /\ minted <= MaxAccounts /\ MaxAccounts \in Nat
    BY StoreAssumption DEF StoreInv, StoreTyped
  <2>. QED BY <1>1, <2>1 DEF KnownCall, KnownStep, Ids
<1>4. k.at # "idle" => accounts[id] \in Rows /\ secrets[id] \in SecretRows
  BY <1>3 DEF StoreInv, StoreTyped
<1>. QED BY <1>1, <1>2, <1>3, <1>4 DEF StoreInv, AllFit

LEMMA RowIs ==
    ASSUME StoreInv, NEW id \in Ids
    PROVE  /\ accounts[id] \in Rows /\ secrets[id] \in SecretRows /\ GrantFits(secrets[id].grant)
           /\ secrets[id].session \in Users \cup {Nothing} /\ secrets[id].grant \in Grants
           /\ Exists(id) => Sane(accounts[id]) /\ id <= minted
           /\ accounts[id] = NoAccount => secrets[id] = NoSecrets
BY DEF StoreInv, StoreTyped, RowsOK, Exists, SecretRows

\* A call goes to another place, with another row.
LEMMA GoesTo ==
    ASSUME StoreInv, NEW c \in Callers, NEW at, NEW row \in Rows, Goes(c, at, row),
           at \in {"idle", "write", "dropSession", "dropRow", "loginRow", "loginSecret", "loginFlag", "loginUndo",
                   "linkRow", "linkGrant", "linkSave", "linkUndo", "linkTakeBack", "dropGrant", "unlink"}
    PROVE  \E k \in CallRows :
              /\ call' = [call EXCEPT ![c] = k] /\ k.at = at /\ k.row = row
              /\ k.op = call[c].op /\ k.id = call[c].id /\ k.made = call[c].made /\ k.grant = call[c].grant
              /\ k.previous = call[c].previous /\ k.before = call[c].before
<1>1. PICK k : k = [call[c] EXCEPT !.at = at, !.row = row]
  OBVIOUS
<1>2. call[c] \in CallRows /\ call \in [Callers -> CallRows]
  BY DEF StoreInv, StoreTyped
<1>3. call' = [call EXCEPT ![c] = k]
  BY <1>1, <1>2 DEF Goes
<1>4. /\ k \in CallRows /\ k.at = at /\ k.row = row
      /\ k.op = call[c].op /\ k.id = call[c].id /\ k.made = call[c].made /\ k.grant = call[c].grant
      /\ k.previous = call[c].previous /\ k.before = call[c].before
  BY <1>1, <1>2 DEF CallRows
<1>. QED BY <1>3, <1>4

\* A step of a call changes its account and the secrets of that account, and nothing else.
LEMMA StepMoves ==
    ASSUME StoreInv, NEW c \in Callers, call[c].at # "idle", NEW id, id = call[c].id,
           NEW k \in CallRows, NEW a \in Rows, NEW s \in SecretRows,
           call' = [call EXCEPT ![c] = k], accounts' = [accounts EXCEPT ![id] = a],
           secrets' = [secrets EXCEPT ![id] = s],
           UNCHANGED <<groups, minted, issued, begun, overlapped, renamed>>,
           halved' \in BOOLEAN, halved => halved',
           k.at # "idle" => k.id = id, KnownCall(k),
           a = NoAccount => s = NoSecrets, a # NoAccount => Sane(a), GrantFits(s.grant),
           ~ halved' /\ id \notin overlapped => IF k.at = "idle" THEN Fit(a, s) ELSE PlaceFits(k, a, s)
    PROVE  StoreInv'
<1>0. id \in Ids /\ id <= minted
  BY CallIs DEF KnownCall, KnownStep
<1>1. /\ call'[c] = k /\ \A d \in Callers : d # c => call'[d] = call[d]
      /\ accounts'[id] = a /\ secrets'[id] = s
      /\ \A other \in Ids : other # id => accounts'[other] = accounts[other] /\ secrets'[other] = secrets[other]
  BY <1>0 DEF StoreInv, StoreTyped
<1>2. StoreTyped'
  BY <1>0 DEF StoreInv, StoreTyped
<1>3. RowsOK'
  BY <1>0, <1>1 DEF StoreInv, RowsOK, Exists, Sane
<1>4. CallsKnown'
  <2>1. \A d \in Callers : KnownCall(call'[d])
    BY <1>1 DEF StoreInv, CallsKnown
  <2>. QED BY <2>1 DEF CallsKnown, KnownCall, KnownStep, Sane
<1>5. CallsApart'
  BY <1>1 DEF StoreInv, CallsApart
<1>6. AllFit'
  <2> SUFFICES ASSUME ~ halved'
               PROVE  /\ \A d \in Callers :
                            call'[d].at # "idle" /\ call'[d].id \notin overlapped =>
                              PlaceFits(call'[d], accounts'[call'[d].id], secrets'[call'[d].id])
                      /\ \A other \in Ids \ overlapped :
                            (\A d \in Callers : call'[d].at = "idle" \/ call'[d].id # other) =>
                              Fit(accounts'[other], secrets'[other])
    BY ZenonT(60) DEF AllFit, PlaceFits, FitsHere, Recalls, Fit
  <2>0. ~ halved
    OBVIOUS
  <2>1. ASSUME NEW d \in Callers, call'[d].at # "idle", call'[d].id \notin overlapped
        PROVE  PlaceFits(call'[d], accounts'[call'[d].id], secrets'[call'[d].id])
    <3>1. CASE d = c
      BY <1>1, <2>1, <3>1
    <3>2. CASE d # c
      <4>1. call'[d] = call[d] /\ call[d].id # id
        BY <1>1, <2>1, <3>2 DEF StoreInv, CallsApart
      <4>2. call[d].id \in Ids
        BY <2>1, <4>1, CallIs
      <4>. QED BY <1>1, <2>0, <2>1, <4>1, <4>2, CallIs
    <3>. QED BY <3>1, <3>2
  <2>2. ASSUME NEW other \in Ids \ overlapped, \A d \in Callers : call'[d].at = "idle" \/ call'[d].id # other
        PROVE  Fit(accounts'[other], secrets'[other])
    <3>1. CASE other = id
      BY <1>1, <2>2, <3>1
    <3>2. CASE other # id
      <4>1. \A d \in Callers : call[d].at = "idle" \/ call[d].id # other
        BY <1>1, <2>2, <3>2
      <4>. QED BY <1>1, <2>0, <2>2, <3>2, <4>1 DEF StoreInv, AllFit
    <3>. QED BY <3>1, <3>2
  <2>. QED BY <2>1, <2>2
<1>. QED BY <1>2, <1>3, <1>4, <1>5, <1>6 DEF StoreInv


-----------------------------------------------------------------------------
(* Calls begin.                                                             *)

LEMMA IdleIs == /\ ~ Idle.made /\ Idle.previous = NoGrant /\ Idle.grant = NoGrant /\ Idle.row = NoAccount
                /\ Idle.op = "none" /\ GrantFits(NoGrant)
BY DEF Idle, GrantFits

LEMMA BeginRecord ==
    ASSUME StoreInv, NEW c \in Callers, NEW step \in CallRows, step.id \in Ids, Begin(c, step)
    PROVE  \E k \in CallRows :
              /\ call' = [call EXCEPT ![c] = k] /\ k.before = <<accounts[step.id], secrets[step.id]>>
              /\ k.at = step.at /\ k.op = step.op /\ k.id = step.id /\ k.row = step.row /\ k.made = step.made
              /\ k.grant = step.grant /\ k.previous = step.previous
<1>1. PICK k : k = [step EXCEPT !.before = <<accounts[step.id], secrets[step.id]>>]
  OBVIOUS
<1>2. <<accounts[step.id], secrets[step.id]>> \in Rows \X SecretRows
  BY RowIs
<1>3. call' = [call EXCEPT ![c] = k]
  BY <1>1 DEF Begin
<1>4. /\ k \in CallRows /\ k.before = <<accounts[step.id], secrets[step.id]>>
      /\ k.at = step.at /\ k.op = step.op /\ k.id = step.id /\ k.row = step.row /\ k.made = step.made
      /\ k.grant = step.grant /\ k.previous = step.previous
  BY <1>1, <1>2 DEF CallRows
<1>. QED BY <1>3, <1>4

\* A call begins: the account it names is its own, unless another call is at work on it.
LEMMA CallBegins ==
    ASSUME StoreInv, NEW c \in Callers, MayBegin(c), NEW step \in CallRows, Begin(c, step), step.at # "idle",
           step.id \in Ids, UNCHANGED <<accounts, secrets, groups, halved>>,
           minted' \in 0..MaxAccounts, minted' >= minted, issued' \in Nat,
           renamed' \in BOOLEAN, renamed => renamed',
           KnownStep(step)', step.made => ~ Exists(step.id),
           step.at \notin {"linkTakeBack", "linkSave", "linkUndo"},
           Fit(accounts[step.id], secrets[step.id])' => FitsHere(step, accounts[step.id], secrets[step.id])'
    PROVE  StoreInv'
<1>1. PICK k \in CallRows :
        /\ call' = [call EXCEPT ![c] = k] /\ k.before = <<accounts[step.id], secrets[step.id]>>
        /\ k.at = step.at /\ k.op = step.op /\ k.id = step.id /\ k.row = step.row /\ k.made = step.made
        /\ k.grant = step.grant /\ k.previous = step.previous
  BY BeginRecord
<1>2. /\ call[c].at = "idle" /\ begun' = begun + 1 /\ begun < MaxCalls
      /\ overlapped' = overlapped \cup ({k.id} \cap Busy(c)) /\ k.id \in Ids /\ k.at # "idle"
  BY <1>1 DEF MayBegin, Begin
<1>3. call'[c] = k /\ \A d \in Callers : d # c => call'[d] = call[d]
  BY <1>1 DEF StoreInv, StoreTyped
<1>4. StoreTyped'
  <2>1. begun' \in 0..MaxCalls
    BY <1>2, StoreAssumption DEF StoreInv, StoreTyped
  <2>. QED BY <1>1, <1>2, <2>1 DEF StoreInv, StoreTyped
<1>5. RowsOK'
  <2>1. minted \in Nat /\ minted' \in Nat
    BY StoreAssumption DEF StoreInv, StoreTyped
  <2>. QED BY <2>1 DEF StoreInv, RowsOK, Exists, Sane, Ids
<1>6. CallsKnown'
  <2>0. minted \in Nat /\ minted' \in Nat
    BY StoreAssumption DEF StoreInv, StoreTyped
  <2>1. KnownStep(k)'
    BY <1>1 DEF KnownStep, Sane
  <2>2. k.made => k.before = <<NoAccount, NoSecrets>>
    BY <1>1, RowIs DEF Exists
  <2>3. \A d \in Callers : d # c => KnownCall(call[d])'
    BY <1>3, <2>0 DEF StoreInv, CallsKnown, KnownCall, KnownStep, Sane
  <2>. QED BY <1>3, <2>1, <2>2, <2>3 DEF CallsKnown, KnownCall, KnownStep, Sane
<1>7. \A d \in Callers : d # c /\ call[d].at # "idle" /\ call[d].id = k.id => k.id \in overlapped'
  BY <1>2 DEF Busy
<1>8. CallsApart'
  BY <1>2, <1>3, <1>7 DEF StoreInv, CallsApart
<1>9. AllFit'
  <2> SUFFICES ASSUME ~ halved
               PROVE  /\ \A d \in Callers :
                            call'[d].at # "idle" /\ call'[d].id \notin overlapped' =>
                              PlaceFits(call[d], accounts[call[d].id], secrets[call[d].id])'
                      /\ \A id \in Ids \ overlapped' :
                            (\A d \in Callers : call'[d].at = "idle" \/ call'[d].id # id) =>
                              Fit(accounts[id], secrets[id])'
    BY DEF AllFit
  <2>1. ASSUME NEW id \in Ids \ overlapped, \A d \in Callers : call[d].at = "idle" \/ call[d].id # id
        PROVE  Fit(accounts[id], secrets[id])'
    BY <2>1 DEF StoreInv, AllFit, Fit
  <2>2. ASSUME k.id \notin overlapped' PROVE PlaceFits(call[c], accounts[call[c].id], secrets[call[c].id])'
    <3>1. \A d \in Callers : call[d].at = "idle" \/ call[d].id # k.id
      BY <1>2, <1>7, <2>2
    <3>2. Fit(accounts[k.id], secrets[k.id])'
      BY <1>2, <2>1, <2>2, <3>1
    <3>3. FitsHere(k, accounts[k.id], secrets[k.id])'
      BY <1>1, <3>2 DEF FitsHere, Fit
    <3>4. Recalls(k, accounts[k.id], secrets[k.id])'
      BY <1>1 DEF Recalls
    <3>. QED BY <1>3, <3>3, <3>4 DEF PlaceFits, FitsHere, Recalls, Fit
  <2>3. ASSUME NEW d \in Callers, d # c, call[d].at # "idle", call[d].id \notin overlapped'
        PROVE  PlaceFits(call[d], accounts[call[d].id], secrets[call[d].id])'
    <3>1. PlaceFits(call[d], accounts[call[d].id], secrets[call[d].id])
      BY <1>2, <2>3, CallIs
    <3>. QED BY <1>3, <2>3, <3>1 DEF PlaceFits, FitsHere, Recalls, Fit
  <2>4. ASSUME NEW id \in Ids \ overlapped', \A d \in Callers : call'[d].at = "idle" \/ call'[d].id # id
        PROVE  Fit(accounts[id], secrets[id])'
    BY <1>2, <1>3, <2>1, <2>4
  <2>. QED BY <1>3, <2>2, <2>3, <2>4
<1>. QED BY <1>4, <1>5, <1>6, <1>8, <1>9 DEF StoreInv

LEMMA EditStep ==
    ASSUME StoreInv, NEW c \in Callers, NEW id \in Ids, NEW row \in Rows, Edits(c, id, row),
           renamed' \in BOOLEAN, renamed => renamed', Sane(row)',
           Fit(accounts[id], secrets[id])' => Fit(row, secrets[id])'
    PROVE  StoreInv'
<1>1. PICK step : step = [Idle EXCEPT !.at = "write", !.op = "edit", !.id = id, !.row = row]
  OBVIOUS
<1>2. id \in 0..MaxAccounts /\ id \in 1..minted
  BY RowIs DEF Edits, Ids, StoreInv, StoreTyped
<1>3. /\ step \in CallRows /\ step.at = "write" /\ step.id = id /\ step.row = row /\ ~ step.made
      /\ step.previous = NoGrant
  BY <1>1, <1>2, NobodysRow, IdleIs DEF CallRows
<1>4. /\ MayBegin(c) /\ Begin(c, step) /\ UNCHANGED <<accounts, secrets, groups, minted, issued, halved>>
  BY <1>1 DEF Edits
<1>5. KnownStep(step)'
  BY <1>2, <1>3, <1>4, IdleIs DEF KnownStep
<1>6. Fit(accounts[id], secrets[id])' => FitsHere(step, accounts[id], secrets[id])'
  BY <1>3 DEF FitsHere, FindsFit, SavesFit
<1>7. minted' \in 0..MaxAccounts /\ minted' >= minted /\ issued' \in Nat
  BY <1>4, StoreAssumption DEF StoreInv, StoreTyped
<1>. QED BY <1>3, <1>4, <1>5, <1>6, <1>7, CallBegins


LEMMA UpdateStep ==
    ASSUME StoreInv, NEW c \in Callers, NEW id \in Ids, UpdateAccount(c, id)
    PROVE  StoreInv'
<1>1. PICK name \in {accounts[id].name} \cup Users, user \in {accounts[id].user, Nothing} \cup Users,
           group \in groups \cup {NoGroup} :
        /\ Edits(c, id, [accounts[id] EXCEPT !.name = name, !.user = user, !.group = group])
        /\ renamed' = (renamed \/ name # accounts[id].name \/ user # accounts[id].user)
  BY DEF UpdateAccount
<1>2. PICK row : row = [accounts[id] EXCEPT !.name = name, !.user = user, !.group = group]
  OBVIOUS
<1>3. accounts[id] \in Rows /\ Sane(accounts[id]) /\ groups \subseteq {TheGroup}
  BY <1>1, RowIs DEF Edits, StoreInv, StoreTyped
<1>4. /\ row \in Rows /\ row.name = name /\ row.user = user
      /\ row.session = accounts[id].session /\ row.linked = accounts[id].linked
  BY <1>2, <1>3 DEF Rows, Sane
<1>5. renamed' \in BOOLEAN /\ (renamed => renamed') /\ Edits(c, id, row)
  BY <1>1, <1>2 DEF StoreInv, StoreTyped
<1>6. Sane(row)'
  BY <1>1, <1>3, <1>4 DEF Sane
<1>7. Fit(accounts[id], secrets[id])' => Fit(row, secrets[id])'
  BY <1>1, <1>4, <1>5 DEF Fit, Edits
<1>. QED BY <1>4, <1>5, <1>6, <1>7, EditStep

LEMMA TouchStep ==
    ASSUME StoreInv, NEW c \in Callers, NEW id \in Ids,
           \/ RefreshProfile(c, id) \/ RefreshPresence(c, id) \/ SetRuntimeStatus(c, id) \/ SetDisplayName(c, id)
    PROVE  StoreInv'
<1>1. Edits(c, id, accounts[id]) /\ renamed' = renamed
  BY DEF RefreshProfile, RefreshPresence, SetRuntimeStatus, SetDisplayName
<1>2. accounts[id] \in Rows /\ Sane(accounts[id]) /\ renamed \in BOOLEAN /\ accounts' = accounts
  BY <1>1, RowIs DEF Edits, StoreInv, StoreTyped
<1>. QED BY <1>1, <1>2, EditStep DEF Sane

LEMMA ValidateStep ==
    ASSUME StoreInv, NEW c \in Callers, NEW id \in Ids, ValidateSession(c, id)
    PROVE  StoreInv'
<1> DEFINE owner == secrets[id].session
           old == accounts[id]
<1>1. /\ MayBegin(c) /\ Exists(id) /\ owner # Nothing /\ old.user \in {Nothing, owner}
      /\ UNCHANGED <<accounts, secrets, groups, minted, issued, halved, renamed>>
  BY DEF ValidateSession
<1>2. owner \in Users /\ old \in Rows /\ Sane(old) /\ id \in 0..MaxAccounts /\ id \in 1..minted
  BY <1>1, RowIs DEF Ids, StoreInv, StoreTyped
<1>3. PICK row : row = [old EXCEPT !.user = owner, !.name = owner, !.session = TRUE]
  OBVIOUS
<1>4. row \in Rows /\ row.name = owner /\ row.user = owner /\ row.session /\ row.linked = old.linked
  BY <1>2, <1>3 DEF Rows
<1>5. PICK step : step = [Idle EXCEPT !.at = "write", !.op = "validate", !.id = id, !.row = row]
  OBVIOUS
<1>6. /\ step \in CallRows /\ step.at = "write" /\ step.id = id /\ step.row = row /\ ~ step.made
      /\ step.previous = NoGrant
  BY <1>2, <1>4, <1>5, NobodysRow, IdleIs DEF CallRows
<1>7. Begin(c, step)
  BY <1>3, <1>5 DEF ValidateSession
<1>8. KnownStep(step)'
  BY <1>1, <1>2, <1>4, <1>6, IdleIs DEF KnownStep, Sane
<1>9. Fit(accounts[id], secrets[id])' => FitsHere(step, accounts[id], secrets[id])'
  BY <1>1, <1>4, <1>6 DEF FitsHere, FindsFit, SavesFit, Fit
<1>10. /\ minted' \in 0..MaxAccounts /\ minted' >= minted /\ issued' \in Nat /\ renamed' \in BOOLEAN
       /\ renamed => renamed'
  BY <1>1, StoreAssumption DEF StoreInv, StoreTyped
<1>. QED BY <1>1, <1>6, <1>7, <1>8, <1>9, <1>10, CallBegins

LEMMA DeleteStep ==
    ASSUME StoreInv, NEW c \in Callers, NEW id \in Ids, DeleteAccount(c, id)
    PROVE  StoreInv'
<1>1. PICK step : step = [Idle EXCEPT !.at = "dropSession", !.op = "delete", !.id = id]
  OBVIOUS
<1>2. /\ MayBegin(c) /\ Exists(id) /\ Begin(c, step)
      /\ UNCHANGED <<accounts, secrets, groups, minted, issued, halved, renamed>>
  BY <1>1 DEF DeleteAccount
<1>3. id \in 0..MaxAccounts /\ id \in 1..minted
  BY <1>2, RowIs DEF Ids, StoreInv, StoreTyped
<1>4. /\ step \in CallRows /\ step.at = "dropSession" /\ step.id = id /\ ~ step.made /\ step.previous = NoGrant
  BY <1>1, <1>3, NobodysRow, IdleIs DEF CallRows
<1>5. KnownStep(step)'
  BY <1>2, <1>3, <1>4, IdleIs DEF KnownStep
<1>6. Fit(accounts[id], secrets[id])' => FitsHere(step, accounts[id], secrets[id])'
  BY <1>4 DEF FitsHere, FindsFit, SavesFit
<1>7. /\ minted' \in 0..MaxAccounts /\ minted' >= minted /\ issued' \in Nat /\ renamed' \in BOOLEAN
      /\ renamed => renamed'
  BY <1>2, StoreAssumption DEF StoreInv, StoreTyped
<1>. QED BY <1>2, <1>4, <1>5, <1>6, <1>7, CallBegins

LEMMA DisconnectStep ==
    ASSUME StoreInv, NEW c \in Callers, NEW id \in Ids, Disconnect(c, id)
    PROVE  StoreInv'
<1> DEFINE old == accounts[id]
<1>1. PICK row : row = [old EXCEPT !.linked = FALSE]
  OBVIOUS
<1>2. PICK step : step = [Idle EXCEPT !.at = "dropGrant", !.op = "disconnect", !.id = id, !.row = row]
  OBVIOUS
<1>3. /\ MayBegin(c) /\ Exists(id) /\ Begin(c, step)
      /\ UNCHANGED <<accounts, secrets, groups, minted, issued, halved, renamed>>
  BY <1>1, <1>2 DEF Disconnect
<1>4. id \in 0..MaxAccounts /\ id \in 1..minted /\ old \in Rows /\ Sane(old)
  BY <1>3, RowIs DEF Ids, StoreInv, StoreTyped
<1>5. row \in Rows /\ row.name = old.name /\ row.user = old.user /\ row.session = old.session /\ ~ row.linked
  BY <1>1, <1>4 DEF Rows
<1>6. /\ step \in CallRows /\ step.at = "dropGrant" /\ step.id = id /\ ~ step.made /\ step.row = row
      /\ step.previous = NoGrant
  BY <1>2, <1>4, <1>5, NobodysRow, IdleIs DEF CallRows
<1>7. KnownStep(step)'
  BY <1>3, <1>4, <1>5, <1>6, IdleIs DEF KnownStep, Sane
<1>8. Fit(accounts[id], secrets[id])' => FitsHere(step, accounts[id], secrets[id])'
  BY <1>3, <1>5, <1>6 DEF FitsHere, FindsFit, SavesFit, Fit
<1>9. /\ minted' \in 0..MaxAccounts /\ minted' >= minted /\ issued' \in Nat /\ renamed' \in BOOLEAN
      /\ renamed => renamed'
  BY <1>3, StoreAssumption DEF StoreInv, StoreTyped
<1>. QED BY <1>3, <1>6, <1>7, <1>8, <1>9, CallBegins

\* A row for a user, as it is made new.
LEMMA NewRow ==
    ASSUME NEW name \in Users, NEW user \in Users \cup {Nothing}, NEW group \in {NoGroup, TheGroup},
           NEW row, row = Account(name, user, group)
    PROVE  row \in Rows /\ row.name = name /\ row.user = user /\ ~ row.session /\ ~ row.linked
BY DEF Account, Rows

\* The next identifier is nobody's.
LEMMA NextIsFree ==
    ASSUME StoreInv, NEW id \in Ids, id = minted + 1
    PROVE  /\ ~ Exists(id) /\ accounts[id] = NoAccount /\ secrets[id] = NoSecrets
           /\ id \in 0..MaxAccounts /\ minted \in Nat
<1>1. minted \in Nat /\ id \in 0..MaxAccounts
  BY DEF StoreInv, StoreTyped, Ids
<1>. QED BY <1>1, RowIs DEF Exists

LEMMA CreateStep ==
    ASSUME StoreInv, NEW c \in Callers, CreateAccount(c)
    PROVE  StoreInv'
<1>0. PICK name \in Users, group \in groups \cup {NoGroup} : \E user \in {Nothing, name} :
        /\ MayBegin(c) /\ minted < MaxAccounts /\ Named(name) = {}
        /\ minted' = minted + 1
        /\ Begin(c, [Idle EXCEPT !.at = "write", !.op = "create", !.id = minted + 1, !.made = TRUE,
                                 !.row = Account(name, user, group)])
        /\ UNCHANGED <<accounts, secrets, groups, issued, halved, renamed>>
  BY DEF CreateAccount
<1>1. PICK user \in {Nothing, name} :
        /\ MayBegin(c) /\ minted < MaxAccounts
        /\ minted' = minted + 1
        /\ Begin(c, [Idle EXCEPT !.at = "write", !.op = "create", !.id = minted + 1, !.made = TRUE,
                                 !.row = Account(name, user, group)])
        /\ UNCHANGED <<accounts, secrets, groups, issued, halved, renamed>>
  BY <1>0
<1>2. PICK id : id = minted + 1
  OBVIOUS
<1>3. PICK row : row = Account(name, user, group)
  OBVIOUS
<1>4. PICK step : step = [Idle EXCEPT !.at = "write", !.op = "create", !.id = id, !.made = TRUE, !.row = row]
  OBVIOUS
<1>5. id \in Ids /\ id \in 1..minted'
  BY <1>1, <1>2, StoreAssumption DEF Ids, StoreInv, StoreTyped
<1>6. row \in Rows /\ row.name = name /\ row.user = user /\ ~ row.session /\ ~ row.linked
  BY <1>3, NewRow DEF StoreInv, StoreTyped
<1>7. /\ step \in CallRows /\ step.at = "write" /\ step.id = id /\ step.row = row
      /\ step.previous = NoGrant
  BY <1>2, <1>4, <1>5, <1>6, NextIsFree, NobodysRow, IdleIs DEF CallRows
<1>8. Begin(c, step)
  BY <1>1, <1>2, <1>3, <1>4
<1>9. KnownStep(step)'
  BY <1>5, <1>6, <1>7, IdleIs DEF KnownStep, Sane
<1>10. Fit(accounts[id], secrets[id])' => FitsHere(step, accounts[id], secrets[id])'
  BY <1>1, <1>2, <1>5, <1>6, <1>7, NextIsFree, NobodysRow DEF FitsHere, FindsFit, SavesFit, Fit
<1>11. /\ minted' \in 0..MaxAccounts /\ minted' >= minted /\ issued' \in Nat /\ renamed' \in BOOLEAN
       /\ ~ Exists(id)
  BY <1>1, <1>2, <1>5, NextIsFree, StoreAssumption DEF StoreInv, StoreTyped
<1>12. MayBegin(c) /\ UNCHANGED <<accounts, secrets, groups, halved, renamed>>
  BY <1>1
<1>. QED BY <1>5, <1>7, <1>8, <1>9, <1>10, <1>11, <1>12, CallBegins

LEMMA CookieStep ==
    ASSUME StoreInv, NEW c \in Callers, CookieLogin(c)
    PROVE  StoreInv'
<1>0. PICK user \in Users, group \in groups \cup {NoGroup} :
        LET same == Named(user)
            id == IF same = {} THEN minted + 1 ELSE CHOOSE k \in same : TRUE
            row == IF same = {} THEN Account(user, user, group)
                   ELSE [accounts[id] EXCEPT !.user = user, !.group = IF group = NoGroup THEN @ ELSE group]
        IN /\ MayBegin(c) /\ id \in Ids
           /\ minted' = IF same = {} THEN id ELSE minted
           /\ Begin(c, [Idle EXCEPT !.at = "loginRow", !.op = "cookie", !.id = id, !.row = row, !.made = same = {}])
           /\ UNCHANGED <<accounts, secrets, groups, issued, halved, renamed>>
  BY DEF CookieLogin
<1>1. PICK namesakes : namesakes = Named(user)
  OBVIOUS
<1>2. PICK id : id = IF namesakes = {} THEN minted + 1 ELSE CHOOSE k \in namesakes : TRUE
  OBVIOUS
<1>3. PICK row : row = IF namesakes = {} THEN Account(user, user, group)
                       ELSE [accounts[id] EXCEPT !.user = user, !.group = IF group = NoGroup THEN @ ELSE group]
  OBVIOUS
<1>4. PICK made : made = (namesakes = {})
  OBVIOUS
<1>5. PICK step : step = [Idle EXCEPT !.at = "loginRow", !.op = "cookie", !.id = id, !.row = row, !.made = made]
  OBVIOUS
<1>6. /\ MayBegin(c) /\ id \in Ids /\ minted' = (IF namesakes = {} THEN id ELSE minted) /\ Begin(c, step)
      /\ UNCHANGED <<accounts, secrets, groups, issued, halved, renamed>>
  BY <1>0, <1>1, <1>2, <1>3, <1>4, <1>5
<1>7. groups \subseteq {TheGroup} /\ minted \in Nat /\ minted \in 0..MaxAccounts
  BY StoreAssumption DEF StoreInv, StoreTyped
<1>8. CASE namesakes = {}
  <2>1. id = minted + 1 /\ row \in Rows /\ row.name = user /\ row.user = user /\ ~ row.session /\ ~ row.linked
    BY <1>2, <1>3, <1>7, <1>8, NewRow
  <2>2. accounts[id] = NoAccount /\ secrets[id] = NoSecrets /\ id \in 0..MaxAccounts /\ ~ Exists(id)
    BY <1>6, <2>1, NextIsFree
  <2>3. /\ step \in CallRows /\ step.at = "loginRow" /\ step.id = id /\ step.row = row /\ step.op = "cookie"
        /\ step.previous = NoGrant
    BY <1>4, <1>5, <2>1, <2>2, NobodysRow, IdleIs DEF CallRows
  <2>4. KnownStep(step)'
    BY <1>6, <1>7, <1>8, <2>1, <2>3, IdleIs DEF KnownStep, Sane
  <2>5. FitsHere(step, accounts[id], secrets[id])'
    BY <1>6, <2>1, <2>2, <2>3, NobodysRow DEF FitsHere, FindsFit, SavesFit, Fit
  <2>6. minted' \in 0..MaxAccounts /\ minted' >= minted /\ issued' \in Nat /\ renamed' \in BOOLEAN
    BY <1>6, <1>7, <1>8, <2>1, <2>2 DEF StoreInv, StoreTyped
  <2>. QED BY <1>6, <2>2, <2>3, <2>4, <2>5, <2>6, CallBegins
<1>9. CASE namesakes # {}
  <2>1. id \in namesakes /\ Exists(id) /\ accounts[id].name = user
    BY <1>1, <1>2, <1>9 DEF Named
  <2>2. accounts[id] \in Rows /\ Sane(accounts[id]) /\ id <= minted
    BY <1>6, <2>1, RowIs
  <2>3. /\ row \in Rows /\ row.name = user /\ row.user = user
        /\ row.session = accounts[id].session /\ row.linked = accounts[id].linked
    <3>1. PICK g \in {NoGroup, TheGroup} : row = [accounts[id] EXCEPT !.user = user, !.group = g]
      BY <1>3, <1>7, <1>9, <2>2 DEF Rows
    <3>. QED BY <2>1, <2>2, <3>1 DEF Rows
  <2>4. /\ step \in CallRows /\ step.at = "loginRow" /\ step.id = id /\ step.row = row /\ step.op = "cookie"
        /\ step.previous = NoGrant /\ ~ step.made
    <3>1. id \in 0..MaxAccounts
      BY <1>6 DEF Ids
    <3>. QED BY <1>4, <1>5, <1>9, <2>3, <3>1, NobodysRow, IdleIs DEF CallRows
  <2>5. KnownStep(step)'
    <3>1. id \in 1..minted'
      BY <1>6, <1>7, <1>9, <2>2 DEF Ids
    <3>. QED BY <2>3, <2>4, <3>1, IdleIs DEF KnownStep, Sane
  <2>6. Fit(accounts[id], secrets[id])' => FitsHere(step, accounts[id], secrets[id])'
    BY <1>6, <2>1, <2>2, <2>3, <2>4 DEF FitsHere, FindsFit, SavesFit, Fit, Sane
  <2>7. minted' \in 0..MaxAccounts /\ minted' >= minted /\ issued' \in Nat /\ renamed' \in BOOLEAN
    BY <1>6, <1>7, <1>9 DEF StoreInv, StoreTyped
  <2>. QED BY <1>6, <2>4, <2>5, <2>6, <2>7, CallBegins
<1>. QED BY <1>8, <1>9


\* The account that a login is for has that user, or his name and no user.
LEMMA CandidateFits ==
    ASSUME StoreInv, NEW user \in Users, NEW id \in Candidates(user)
    PROVE  /\ id \in Ids /\ Exists(id) /\ ~ renamed => accounts[id].user \in {Nothing, user}
           /\ id \in Ids /\ Exists(id)
<1>1. id \in Ids /\ Exists(id) /\ (accounts[id].user = user \/ accounts[id].name = user)
  BY DEF Candidates, Owned, Named
<1>2. Sane(accounts[id])
  BY <1>1, RowIs
<1>. QED BY <1>1, <1>2 DEF Sane

\* A call that is to store a grant begins with an account that is there.
LEMMA GrantBegins ==
    ASSUME StoreInv, NEW c \in Callers, MayBegin(c), NEW op \in {"link", "refresh"}, NEW id \in Ids, Exists(id),
           NEW user \in Users, ~ renamed => accounts[id].user \in {Nothing, user},
           NEW grant, grant = [user |-> user, issue |-> issued + 1],
           NEW made, made = FALSE, NEW step, Begin(c, step), issued' = issued + 1,
           \/ step = [Idle EXCEPT !.at = "linkGrant", !.op = op, !.id = id, !.row = accounts[id],
                                  !.grant = grant, !.previous = secrets[id].grant]
           \/ step = [Idle EXCEPT !.at = "linkGrant", !.op = op, !.id = id, !.row = accounts[id], !.made = made,
                                  !.grant = grant, !.previous = secrets[id].grant],
           UNCHANGED <<accounts, secrets, groups, minted, halved, renamed>>
    PROVE  StoreInv'
<1>1. /\ id \in 0..MaxAccounts /\ id \in 1..minted /\ accounts[id] \in Rows /\ Sane(accounts[id])
      /\ secrets[id].grant \in Grants /\ GrantFits(secrets[id].grant)
  BY RowIs DEF Ids, StoreInv, StoreTyped
<1>2. issued \in Nat /\ minted \in 0..MaxAccounts /\ renamed \in BOOLEAN /\ MaxAccounts \in Nat
  BY StoreAssumption DEF StoreInv, StoreTyped
<1>3. grant \in Grants /\ grant.user = user
  BY <1>2 DEF Grants
<1>4. /\ step \in CallRows /\ step.at = "linkGrant" /\ step.id = id /\ step.row = accounts[id] /\ ~ step.made
      /\ step.grant = grant /\ step.previous = secrets[id].grant
  BY <1>1, <1>3, NobodysRow, IdleIs DEF CallRows
<1>5. KnownStep(step)'
  BY <1>1, <1>3, <1>4 DEF KnownStep, Sane
<1>6. Fit(accounts[id], secrets[id])' => FitsHere(step, accounts[id], secrets[id])'
  BY <1>3, <1>4, UsersAre DEF FitsHere, FindsFit, SavesFit, Fit, Exists
<1>7. minted' \in 0..MaxAccounts /\ minted' >= minted /\ issued' \in Nat /\ renamed' \in BOOLEAN
  BY <1>2
<1>. QED BY <1>4, <1>5, <1>6, <1>7, CallBegins

LEMMA LinkLoginStep ==
    ASSUME StoreInv, NEW c \in Callers, LinkLogin(c)
    PROVE  StoreInv'
<1>0. PICK user \in Users :
        LET same == Candidates(user)
            grant == [user |-> user, issue |-> issued + 1]
            id == IF same = {} THEN minted + 1 ELSE CHOOSE k \in same : TRUE
            row == IF same = {} THEN Account(user, user, NoGroup) ELSE accounts[id]
        IN /\ MayBegin(c) /\ Unambiguous(user) /\ id \in Ids
           /\ issued' = issued + 1
           /\ minted' = IF same = {} THEN id ELSE minted
           /\ Begin(c, [Idle EXCEPT !.at = IF same = {} THEN "linkRow" ELSE "linkGrant", !.op = "link",
                                    !.id = id, !.row = row, !.made = same = {}, !.grant = grant,
                                    !.previous = secrets[id].grant])
           /\ UNCHANGED <<accounts, secrets, groups, halved, renamed>>
  BY DEF LinkLogin
<1>1. PICK same : same = Candidates(user)
  OBVIOUS
<1>2. PICK id : id = IF same = {} THEN minted + 1 ELSE CHOOSE k \in same : TRUE
  OBVIOUS
<1>3. CASE same = {}
  <2>1. PICK row : row = Account(user, user, NoGroup)
    OBVIOUS
  <2>2. PICK grant : grant = [user |-> user, issue |-> issued + 1]
    OBVIOUS
  <2>3. PICK step : step = [Idle EXCEPT !.at = "linkRow", !.op = "link", !.id = id, !.row = row, !.made = TRUE,
                                        !.grant = grant, !.previous = secrets[id].grant]
    OBVIOUS
  <2>4. /\ MayBegin(c) /\ id \in Ids /\ id = minted + 1 /\ minted' = id /\ issued' = issued + 1
        /\ UNCHANGED <<accounts, secrets, groups, halved, renamed>>
    BY <1>0, <1>1, <1>2, <1>3
  <2>5. Begin(c, step)
    BY <1>0, <1>1, <1>2, <1>3, <2>1, <2>2, <2>3
  <2>6. row \in Rows /\ row.name = user /\ row.user = user /\ ~ row.session /\ ~ row.linked
    BY <2>1, NewRow
  <2>7. issued \in Nat /\ minted \in 0..MaxAccounts /\ minted \in Nat /\ renamed \in BOOLEAN /\ MaxAccounts \in Nat
    BY StoreAssumption DEF StoreInv, StoreTyped
  <2>8. grant \in Grants /\ grant.user = user
    BY <2>2, <2>7 DEF Grants
  <2>9. accounts[id] = NoAccount /\ secrets[id] = NoSecrets /\ id \in 0..MaxAccounts /\ ~ Exists(id)
    BY <2>4, NextIsFree
  <2>10. /\ step \in CallRows /\ step.at = "linkRow" /\ step.id = id /\ step.row = row /\ step.made
         /\ step.grant = grant /\ step.previous = NoGrant
    BY <2>3, <2>6, <2>8, <2>9, NobodysRow, IdleIs DEF CallRows
  <2>11. KnownStep(step)'
    BY <2>4, <2>6, <2>7, <2>8, <2>10, IdleIs DEF KnownStep, Sane
  <2>12. FitsHere(step, accounts[id], secrets[id])'
    BY <2>4, <2>6, <2>9, <2>10, NobodysRow DEF FitsHere, FindsFit, SavesFit, Fit
  <2>13. minted' \in 0..MaxAccounts /\ minted' >= minted /\ issued' \in Nat /\ renamed' \in BOOLEAN
    BY <2>4, <2>7, <2>9
  <2>. QED BY <2>4, <2>5, <2>9, <2>10, <2>11, <2>12, <2>13, CallBegins
<1>4. CASE same # {}
  <2>1. id \in Candidates(user)
    BY <1>1, <1>2, <1>4
  <2>2. id \in Ids /\ Exists(id) /\ (~ renamed => accounts[id].user \in {Nothing, user})
    BY <2>1, CandidateFits
  <2>3. PICK made : made = (same = {})
    OBVIOUS
  <2>. PICK grant : grant = [user |-> user, issue |-> issued + 1]
    OBVIOUS
  <2>4. PICK step : step = [Idle EXCEPT !.at = "linkGrant", !.op = "link", !.id = id, !.row = accounts[id],
                              !.made = made, !.grant = grant, !.previous = secrets[id].grant]
    OBVIOUS
  <2>5. /\ MayBegin(c) /\ issued' = issued + 1 /\ minted' = minted
        /\ UNCHANGED <<accounts, secrets, groups, halved, renamed>>
    BY <1>0, <1>1, <1>2, <1>4
  <2>6. Begin(c, step)
    BY <1>0, <1>1, <1>2, <1>4, <2>3, <2>4
  <2>7. made = FALSE
    BY <1>4, <2>3
  <2>. QED BY <2>2, <2>4, <2>5, <2>6, <2>7, GrantBegins
<1>. QED BY <1>3, <1>4

LEMMA RefreshStep ==
    ASSUME StoreInv, NEW c \in Callers, NEW id \in Ids, RefreshGrant(c, id)
    PROVE  StoreInv'
<1>1. PICK user : user = secrets[id].grant.user
  OBVIOUS
<1>. PICK grant : grant = [user |-> user, issue |-> issued + 1]
  OBVIOUS
<1>2. PICK step : step = [Idle EXCEPT !.at = "linkGrant", !.op = "refresh", !.id = id, !.row = accounts[id],
                            !.grant = grant, !.previous = secrets[id].grant]
  OBVIOUS
<1>3. /\ MayBegin(c) /\ Exists(id) /\ secrets[id].grant # NoGrant /\ accounts[id].user \in {Nothing, user}
      /\ issued' = issued + 1 /\ Begin(c, step)
      /\ UNCHANGED <<accounts, secrets, groups, minted, halved, renamed>>
  BY <1>1, <1>2 DEF RefreshGrant
<1>4. user \in Users
  BY <1>1, <1>3, RowIs DEF GrantFits
<1>. QED BY <1>2, <1>3, <1>4, GrantBegins


-----------------------------------------------------------------------------
(* Steps of a call.                                                         *)

LEMMA AsItIs ==
    ASSUME StoreInv, NEW id \in Ids
    PROVE  /\ accounts = [accounts EXCEPT ![id] = accounts[id]] /\ secrets = [secrets EXCEPT ![id] = secrets[id]]
           /\ accounts[id] = NoAccount => secrets[id] = NoSecrets
           /\ accounts[id] # NoAccount => Sane(accounts[id])
           /\ GrantFits(secrets[id].grant) /\ halved \in BOOLEAN
<1>1. accounts \in [Ids -> Rows] /\ secrets \in [Ids -> SecretRows] /\ halved \in BOOLEAN
  BY DEF StoreInv, StoreTyped
<1>2. accounts = [accounts EXCEPT ![id] = accounts[id]] /\ secrets = [secrets EXCEPT ![id] = secrets[id]]
  BY <1>1
<1>. QED BY <1>1, <1>2, RowIs DEF Exists

LEMMA CallIsOver ==
    ASSUME StoreInv, NEW c \in Callers, call[c].at # "idle", NEW id, id = call[c].id,
           NEW a \in Rows, NEW s \in SecretRows, Ends(c),
           accounts' = [accounts EXCEPT ![id] = a], secrets' = [secrets EXCEPT ![id] = s],
           UNCHANGED <<groups, minted, issued, begun, overlapped, renamed>>,
           halved' \in BOOLEAN, halved => halved',
           a = NoAccount => s = NoSecrets, a # NoAccount => Sane(a), GrantFits(s.grant),
           ~ halved' /\ id \notin overlapped => Fit(a, s)
    PROVE  StoreInv'
BY NobodysRow, StepMoves DEF Ends

\* What the step of a call finds: its record, its account and the secrets of it.
LEMMA StepFinds ==
    ASSUME StoreInv, NEW c \in Callers, call[c].at # "idle", NEW k, k = call[c], NEW id, id = call[c].id,
           NEW a, a = accounts[id], NEW s, s = secrets[id]
    PROVE  /\ k \in CallRows /\ KnownCall(k) /\ k.row \in Rows /\ k.grant \in Grants /\ k.previous \in Grants
           /\ id \in Ids /\ a \in Rows /\ s \in SecretRows /\ halved \in BOOLEAN
           /\ a = NoAccount => s = NoSecrets
           /\ a # NoAccount => Sane(a)
           /\ GrantFits(s.grant)
           /\ accounts = [accounts EXCEPT ![id] = a] /\ secrets = [secrets EXCEPT ![id] = s]
           /\ ~ halved /\ id \notin overlapped => PlaceFits(k, a, s)
BY CallIs, AsItIs

LEMMA WriteStep ==
    ASSUME StoreInv, NEW c \in Callers, Write(c)
    PROVE  StoreInv'
<1> DEFINE k == call[c]
           id == call[c].id
           s == secrets[id]
<1>1. /\ k.at = "write" /\ Ends(c)
      /\ UNCHANGED <<secrets, groups, minted, issued, begun, overlapped, halved, renamed>>
      /\ accounts' = accounts \/ accounts' = [accounts EXCEPT ![id] = k.row]
  BY DEF Write, Saved
<1>2. Sane(k.row) /\ k.row # NoAccount
  BY <1>1, StepFinds, UsersAre DEF KnownCall, KnownStep, Sane
<1>3. ~ halved /\ id \notin overlapped => Fit(accounts[id], s) /\ Fit(k.row, s)
  BY <1>1, StepFinds DEF PlaceFits, FitsHere, FindsFit, SavesFit
<1>4. CASE accounts' = accounts
  BY <1>1, <1>3, <1>4, StepFinds, CallIsOver
<1>5. CASE accounts' = [accounts EXCEPT ![id] = k.row]
  <2>1. /\ k.row \in Rows /\ s \in SecretRows /\ halved \in BOOLEAN /\ GrantFits(s.grant)
        /\ secrets = [secrets EXCEPT ![id] = s]
    BY <1>1, StepFinds
  <2>. QED BY <1>1, <1>2, <1>3, <1>5, <2>1, CallIsOver
<1>. QED BY <1>1, <1>4, <1>5

LEMMA DropSessionStep ==
    ASSUME StoreInv, NEW c \in Callers, DropSession(c)
    PROVE  StoreInv'
<1> DEFINE id == call[c].id
           s == secrets[id]
<1>1. /\ call[c].at = "dropSession"
      /\ UNCHANGED <<accounts, groups, minted, issued, begun, overlapped, halved, renamed>>
  BY DEF DropSession
<1>2. CASE UNCHANGED secrets /\ Ends(c)
  <2>1. ~ halved /\ id \notin overlapped => Fit(accounts[id], s)
    BY <1>1, StepFinds DEF PlaceFits, FitsHere, FindsFit
  <2>. QED BY <1>1, <1>2, <2>1, StepFinds, CallIsOver
<1>3. CASE secrets' = [secrets EXCEPT ![id].session = Nothing] /\ Goes(c, "dropRow", NoAccount)
  <2>1. PICK t : t = [s EXCEPT !.session = Nothing]
    OBVIOUS
  <2>2. t \in SecretRows /\ t.grant = s.grant /\ secrets' = [secrets EXCEPT ![id] = t]
    BY <1>1, <1>3, <2>1, StepFinds DEF SecretRows, StoreInv, StoreTyped
  <2>3. s = NoSecrets => t = NoSecrets
    BY <2>1 DEF NoSecrets
  <2>4. PICK k \in CallRows :
          /\ call' = [call EXCEPT ![c] = k] /\ k.at = "dropRow" /\ k.row = NoAccount
          /\ k.op = call[c].op /\ k.id = call[c].id /\ k.made = call[c].made /\ k.grant = call[c].grant
          /\ k.previous = call[c].previous /\ k.before = call[c].before
    BY <1>3, NobodysRow, GoesTo
  <2>5. KnownCall(k)
    BY <1>1, <2>4, StepFinds DEF KnownCall, KnownStep
  <2>6. PlaceFits(k, accounts[id], t)
    BY <2>4 DEF PlaceFits, FitsHere, Recalls, FindsFit, SavesFit
  <2>7. /\ accounts[id] \in Rows /\ halved \in BOOLEAN /\ GrantFits(s.grant)
        /\ accounts[id] = NoAccount => s = NoSecrets
        /\ accounts[id] # NoAccount => Sane(accounts[id])
        /\ accounts = [accounts EXCEPT ![id] = accounts[id]]
    BY <1>1, StepFinds
  <2>. QED BY <1>1, <2>2, <2>3, <2>4, <2>5, <2>6, <2>7, StepMoves
<1>. QED BY <1>2, <1>3 DEF DropSession

\* The removal of an account leaves nothing of it.
LEMMA RemovalStep ==
    ASSUME StoreInv, NEW c \in Callers, call[c].at # "idle", Removed(call[c].id), Ends(c),
           UNCHANGED <<groups, minted, issued, begun, overlapped, renamed>>, halved' \in BOOLEAN, halved => halved'
    PROVE  StoreInv'
<1> DEFINE id == call[c].id
<1>1. accounts' = [accounts EXCEPT ![id] = NoAccount] /\ secrets' = [secrets EXCEPT ![id] = NoSecrets]
  BY DEF Removed
<1>2. GrantFits(NoSecrets.grant)
  BY NobodysRow, IdleIs
<1>. QED BY <1>1, <1>2, NobodysRow, CallIsOver

\* A call ends and leaves its account as it is.
LEMMA NothingStep ==
    ASSUME StoreInv, NEW c \in Callers, call[c].at # "idle", Ends(c), UNCHANGED <<accounts, secrets>>,
           UNCHANGED <<groups, minted, issued, begun, overlapped, renamed>>, halved' \in BOOLEAN, halved => halved',
           ~ halved' => call[c].at \in FindsFit
    PROVE  StoreInv'
<1> DEFINE id == call[c].id
<1>1. ~ halved' /\ id \notin overlapped => Fit(accounts[id], secrets[id])
  BY StepFinds DEF PlaceFits, FitsHere
<1>. QED BY <1>1, StepFinds, CallIsOver

LEMMA DropRowStep ==
    ASSUME StoreInv, NEW c \in Callers, DropRow(c)
    PROVE  StoreInv'
<1>1. /\ call[c].at = "dropRow" /\ Ends(c) /\ UNCHANGED <<groups, minted, issued, begun, overlapped, renamed>>
      /\ \/ Removed(call[c].id) /\ UNCHANGED halved
         \/ UNCHANGED <<accounts, secrets>> /\ halved' = TRUE
  BY DEF DropRow
<1>2. CASE Removed(call[c].id) /\ UNCHANGED halved
  BY <1>1, <1>2, StepFinds, RemovalStep
<1>3. CASE UNCHANGED <<accounts, secrets>> /\ halved' = TRUE
  BY <1>1, <1>3, NothingStep
<1>. QED BY <1>1, <1>2, <1>3

\* What was made is taken away again, or the account stays as it was.
LEMMA UndoStep ==
    ASSUME StoreInv, NEW c \in Callers, LoginUndo(c) \/ LinkTakeBack(c)
    PROVE  StoreInv'
<1>1. /\ call[c].at \in {"loginUndo", "linkTakeBack"} /\ Ends(c)
      /\ UNCHANGED <<groups, minted, issued, begun, overlapped, renamed>>
  BY DEF LoginUndo, LinkTakeBack
<1>2. PICK fails \in BOOLEAN :
        /\ IF TakesBack(c) /\ ~ fails THEN Removed(call[c].id) ELSE UNCHANGED <<accounts, secrets>>
        /\ halved' = (halved \/ (call[c].made /\ fails))
  BY DEF LoginUndo, LinkTakeBack
<1>3. halved' \in BOOLEAN /\ (halved => halved')
  BY <1>1, <1>2, StepFinds
<1>4. CASE TakesBack(c) /\ ~ fails
  <2>1. Removed(call[c].id)
    BY <1>2, <1>4
  <2>. QED BY <1>1, <1>3, <2>1, RemovalStep
<1>5. CASE ~ (TakesBack(c) /\ ~ fails)
  <2>1. UNCHANGED <<accounts, secrets>> /\ call[c].at \in FindsFit
    BY <1>1, <1>2, <1>5 DEF FindsFit
  <2>. QED BY <1>1, <1>3, <2>1, NothingStep
<1>. QED BY <1>4, <1>5


\* The record of a call whose place and row are others, and the rest as before.
Onward(c, k, at, row) ==
    /\ k.at = at /\ k.row = row
    /\ k.op = call[c].op /\ k.id = call[c].id /\ k.made = call[c].made /\ k.grant = call[c].grant
    /\ k.previous = call[c].previous /\ k.before = call[c].before

LEMMA StepGoes ==
    ASSUME StoreInv, NEW c \in Callers, call[c].at # "idle", NEW id, id = call[c].id,
           NEW at \in {"dropRow", "loginSecret", "loginFlag", "loginUndo", "linkGrant", "linkSave", "linkUndo",
                       "linkTakeBack", "unlink"},
           NEW row \in Rows, Goes(c, at, row), NEW a \in Rows, NEW s \in SecretRows,
           accounts' = [accounts EXCEPT ![id] = a], secrets' = [secrets EXCEPT ![id] = s],
           UNCHANGED <<groups, minted, issued, begun, overlapped, renamed>>,
           halved' \in BOOLEAN, halved => halved',
           a = NoAccount => s = NoSecrets, a # NoAccount => Sane(a), GrantFits(s.grant),
           \A k \in CallRows : Onward(c, k, at, row) =>
              KnownCall(k) /\ (~ halved' /\ id \notin overlapped => PlaceFits(k, a, s))
    PROVE  StoreInv'
<1>1. PICK k \in CallRows : call' = [call EXCEPT ![c] = k] /\ Onward(c, k, at, row)
  BY GoesTo DEF Onward
<1>2. KnownCall(k) /\ (~ halved' /\ id \notin overlapped => PlaceFits(k, a, s)) /\ k.id = id /\ k.at = at
  BY <1>1 DEF Onward
<1>. QED BY <1>1, <1>2, StepMoves

LEMMA LoginRowStep ==
    ASSUME StoreInv, NEW c \in Callers, LoginRow(c)
    PROVE  StoreInv'
<1> DEFINE k == call[c]
           id == call[c].id
           a == accounts[id]
           s == secrets[id]
<1>1. /\ k.at = "loginRow" /\ UNCHANGED <<secrets, groups, minted, issued, begun, overlapped, halved, renamed>>
      /\ \/ Goes(c, "loginUndo", NoAccount) /\ accounts' = accounts
         \/ Goes(c, "loginSecret", k.row) /\ accounts' = [accounts EXCEPT ![id] = k.row]
  BY DEF LoginRow, BeforeSecret, Saved
<1>2. /\ KnownCall(k) /\ k.row \in Rows /\ a \in Rows /\ s \in SecretRows /\ GrantFits(s.grant) /\ halved \in BOOLEAN
      /\ accounts = [accounts EXCEPT ![id] = a] /\ secrets = [secrets EXCEPT ![id] = s]
      /\ a = NoAccount => s = NoSecrets
      /\ a # NoAccount => Sane(a)
  BY <1>1, StepFinds
<1>3. ~ halved /\ id \notin overlapped => Fit(a, s) /\ Fit(k.row, s)
  BY <1>1, StepFinds DEF PlaceFits, FitsHere, FindsFit, SavesFit
<1>4. Sane(k.row) /\ k.row # NoAccount
  BY <1>1, <1>2, UsersAre DEF KnownCall, KnownStep, Sane
<1>5. CASE Goes(c, "loginUndo", NoAccount) /\ accounts' = accounts
  <2>1. ASSUME NEW n \in CallRows, Onward(c, n, "loginUndo", NoAccount)
        PROVE  KnownCall(n) /\ (~ halved' /\ id \notin overlapped => PlaceFits(n, a, s))
    BY <1>1, <1>2, <1>3, <2>1
       DEF Onward, KnownCall, KnownStep, PlaceFits, FitsHere, Recalls, FindsFit, SavesFit
  <2>. QED BY <1>1, <1>2, <1>5, <2>1, NobodysRow, StepGoes
<1>6. CASE Goes(c, "loginSecret", k.row) /\ accounts' = [accounts EXCEPT ![id] = k.row]
  <2>0. PICK row \in Rows : row = k.row
    BY <1>2
  <2>1. ASSUME NEW n \in CallRows, Onward(c, n, "loginSecret", row)
        PROVE  KnownCall(n) /\ (~ halved' /\ id \notin overlapped => PlaceFits(n, row, s))
    BY <1>1, <1>2, <1>3, <1>4, <2>0, <2>1
       DEF Onward, KnownCall, KnownStep, PlaceFits, FitsHere, Recalls, FindsFit, SavesFit
  <2>9. /\ UNCHANGED <<groups, minted, issued, begun, overlapped, renamed>> /\ halved' \in BOOLEAN
        /\ (halved => halved') /\ call[c].at # "idle" /\ s \in SecretRows /\ GrantFits(s.grant)
    BY <1>1, <1>2
  <2>2. /\ Goes(c, "loginSecret", row) /\ accounts' = [accounts EXCEPT ![id] = row] /\ Sane(row) /\ row # NoAccount
        /\ row \in Rows /\ secrets' = [secrets EXCEPT ![id] = s]
    BY <1>1, <1>2, <1>4, <1>6, <2>0
  <2>. QED BY <2>1, <2>2, <2>9, StepGoes
<1>. QED BY <1>1, <1>5, <1>6

LEMMA LoginSecretStep ==
    ASSUME StoreInv, NEW c \in Callers, LoginSecret(c)
    PROVE  StoreInv'
<1> DEFINE k == call[c]
           id == call[c].id
           a == accounts[id]
           s == secrets[id]
<1>1. /\ k.at = "loginSecret" /\ UNCHANGED <<accounts, groups, minted, issued, begun, overlapped, halved, renamed>>
      /\ \/ Goes(c, "loginUndo", NoAccount) /\ secrets' = secrets
         \/ /\ Exists(id) /\ secrets' = [secrets EXCEPT ![id].session = k.row.user]
            /\ Goes(c, "loginFlag", [k.row EXCEPT !.session = TRUE])
  BY DEF LoginSecret
<1>2. /\ KnownCall(k) /\ k.row \in Rows /\ a \in Rows /\ s \in SecretRows /\ GrantFits(s.grant) /\ halved \in BOOLEAN
      /\ accounts = [accounts EXCEPT ![id] = a] /\ secrets = [secrets EXCEPT ![id] = s] /\ id \in Ids
      /\ a = NoAccount => s = NoSecrets
      /\ a # NoAccount => Sane(a)
  BY <1>1, StepFinds
<1>3. ~ halved /\ id \notin overlapped => Fit(a, s) /\ Fit(k.row, s) /\ a = k.row
  BY <1>1, StepFinds DEF PlaceFits, FitsHere, FindsFit, SavesFit
<1>4. CASE Goes(c, "loginUndo", NoAccount) /\ secrets' = secrets
  <2>1. ASSUME NEW n \in CallRows, Onward(c, n, "loginUndo", NoAccount)
        PROVE  KnownCall(n) /\ (~ halved' /\ id \notin overlapped => PlaceFits(n, a, s))
    BY <1>1, <1>2, <1>3, <2>1
       DEF Onward, KnownCall, KnownStep, PlaceFits, FitsHere, Recalls, FindsFit, SavesFit
  <2>. QED BY <1>1, <1>2, <1>4, <2>1, NobodysRow, StepGoes
<1>5. CASE /\ Exists(id) /\ secrets' = [secrets EXCEPT ![id].session = k.row.user]
           /\ Goes(c, "loginFlag", [k.row EXCEPT !.session = TRUE])
  <2>1. PICK row : row = [k.row EXCEPT !.session = TRUE]
    OBVIOUS
  <2>2. PICK t : t = [s EXCEPT !.session = k.row.user]
    OBVIOUS
  <2>3. k.row.user \in Users /\ k.row.user # Nothing /\ Sane(k.row)
    BY <1>1, <1>2, UsersAre DEF KnownCall, KnownStep
  <2>4. /\ row \in Rows /\ row.name = k.row.name /\ row.user = k.row.user /\ row.session /\ row.linked = k.row.linked
    BY <1>2, <2>1 DEF Rows
  <2>5. t \in SecretRows /\ t.session = k.row.user /\ t.grant = s.grant
    BY <1>2, <2>2, <2>3 DEF SecretRows
  <2>6. secrets' = [secrets EXCEPT ![id] = t] /\ a # NoAccount
    BY <1>2, <1>5, <2>2 DEF Exists, StoreInv, StoreTyped
  <2>7. ~ halved /\ id \notin overlapped => Fit(a, t) /\ Fit(row, t)
    BY <1>3, <2>3, <2>4, <2>5 DEF Fit
  <2>8. ASSUME NEW n \in CallRows, Onward(c, n, "loginFlag", row)
        PROVE  KnownCall(n) /\ (~ halved' /\ id \notin overlapped => PlaceFits(n, a, t))
    BY <1>1, <1>2, <2>3, <2>4, <2>7, <2>8
       DEF Onward, KnownCall, KnownStep, PlaceFits, FitsHere, Recalls, FindsFit, SavesFit, Sane
  <2>9. Goes(c, "loginFlag", row) /\ GrantFits(t.grant)
    BY <1>2, <1>5, <2>1, <2>5
  <2>. QED BY <1>1, <1>2, <2>4, <2>5, <2>6, <2>8, <2>9, StepGoes
<1>. QED BY <1>1, <1>4, <1>5

LEMMA LoginFlagStep ==
    ASSUME StoreInv, NEW c \in Callers, LoginFlag(c)
    PROVE  StoreInv'
<1> DEFINE k == call[c]
           id == call[c].id
           a == accounts[id]
           s == secrets[id]
<1>1. /\ k.at = "loginFlag" /\ UNCHANGED <<secrets, groups, minted, issued, begun, overlapped, halved, renamed>>
      /\ \/ Goes(c, "loginUndo", NoAccount) /\ accounts' = accounts
         \/ Ends(c) /\ accounts' = [accounts EXCEPT ![id] = k.row]
  BY DEF LoginFlag, Saved
<1>2. /\ KnownCall(k) /\ k.row \in Rows /\ a \in Rows /\ s \in SecretRows /\ GrantFits(s.grant) /\ halved \in BOOLEAN
      /\ accounts = [accounts EXCEPT ![id] = a] /\ secrets = [secrets EXCEPT ![id] = s]
      /\ a = NoAccount => s = NoSecrets
      /\ a # NoAccount => Sane(a)
  BY <1>1, StepFinds
<1>3. ~ halved /\ id \notin overlapped => Fit(a, s) /\ Fit(k.row, s)
  BY <1>1, StepFinds DEF PlaceFits, FitsHere, FindsFit, SavesFit
<1>4. Sane(k.row) /\ k.row # NoAccount
  BY <1>1, <1>2, UsersAre DEF KnownCall, KnownStep, Sane
<1>5. CASE Goes(c, "loginUndo", NoAccount) /\ accounts' = accounts
  <2>1. ASSUME NEW n \in CallRows, Onward(c, n, "loginUndo", NoAccount)
        PROVE  KnownCall(n) /\ (~ halved' /\ id \notin overlapped => PlaceFits(n, a, s))
    BY <1>1, <1>2, <1>3, <2>1
       DEF Onward, KnownCall, KnownStep, PlaceFits, FitsHere, Recalls, FindsFit, SavesFit
  <2>. QED BY <1>1, <1>2, <1>5, <2>1, NobodysRow, StepGoes
<1>6. CASE Ends(c) /\ accounts' = [accounts EXCEPT ![id] = k.row]
  BY <1>1, <1>2, <1>3, <1>4, <1>6, CallIsOver
<1>. QED BY <1>1, <1>5, <1>6

LEMMA LinkRowStep ==
    ASSUME StoreInv, NEW c \in Callers, LinkRow(c)
    PROVE  StoreInv'
<1> DEFINE k == call[c]
           id == call[c].id
           a == accounts[id]
           s == secrets[id]
<1>1. /\ k.at = "linkRow" /\ UNCHANGED <<secrets, groups, minted, issued, begun, overlapped, halved, renamed>>
      /\ \/ Ends(c) /\ accounts' = accounts
         \/ Goes(c, "linkGrant", k.row) /\ accounts' = [accounts EXCEPT ![id] = k.row]
  BY DEF LinkRow, Saved
<1>2. /\ KnownCall(k) /\ k.row \in Rows /\ a \in Rows /\ s \in SecretRows /\ GrantFits(s.grant) /\ halved \in BOOLEAN
      /\ accounts = [accounts EXCEPT ![id] = a] /\ secrets = [secrets EXCEPT ![id] = s]
      /\ a = NoAccount => s = NoSecrets
      /\ a # NoAccount => Sane(a)
  BY <1>1, StepFinds
<1>3. ~ halved /\ id \notin overlapped =>
        /\ Fit(a, s) /\ Fit(k.row, s) /\ (k.row.session => s.session # Nothing) /\ k.previous = s.grant
        /\ ~ renamed => s.session \in {Nothing, k.grant.user}
  BY <1>1, StepFinds DEF PlaceFits, FitsHere, FindsFit, SavesFit
<1>4. Sane(k.row) /\ k.row # NoAccount
  BY <1>1, <1>2, UsersAre DEF KnownCall, KnownStep, Sane
<1>5. CASE Ends(c) /\ accounts' = accounts
  BY <1>1, <1>2, <1>3, <1>5, CallIsOver
<1>6. CASE Goes(c, "linkGrant", k.row) /\ accounts' = [accounts EXCEPT ![id] = k.row]
  <2>0. PICK row \in Rows : row = k.row
    BY <1>2
  <2>1. ASSUME NEW n \in CallRows, Onward(c, n, "linkGrant", row)
        PROVE  KnownCall(n) /\ (~ halved' /\ id \notin overlapped => PlaceFits(n, row, s))
    BY <1>1, <1>2, <1>3, <1>4, <2>0, <2>1
       DEF Onward, KnownCall, KnownStep, PlaceFits, FitsHere, Recalls, FindsFit, SavesFit
  <2>9. /\ UNCHANGED <<groups, minted, issued, begun, overlapped, renamed>> /\ halved' \in BOOLEAN
        /\ (halved => halved') /\ call[c].at # "idle" /\ s \in SecretRows /\ GrantFits(s.grant)
    BY <1>1, <1>2
  <2>2. /\ Goes(c, "linkGrant", row) /\ accounts' = [accounts EXCEPT ![id] = row] /\ Sane(row) /\ row # NoAccount
        /\ row \in Rows /\ secrets' = [secrets EXCEPT ![id] = s]
    BY <1>1, <1>2, <1>4, <1>6, <2>0
  <2>. QED BY <2>1, <2>2, <2>9, StepGoes
<1>. QED BY <1>1, <1>5, <1>6


LEMMA LinkGrantStep ==
    ASSUME StoreInv, NEW c \in Callers, LinkGrant(c)
    PROVE  StoreInv'
<1> DEFINE k == call[c]
           id == call[c].id
           a == accounts[id]
           s == secrets[id]
<1>0. PICK linked : linked = [k.row EXCEPT !.user = k.grant.user, !.name = k.grant.user, !.linked = TRUE]
  OBVIOUS
<1>1. /\ k.at = "linkGrant" /\ UNCHANGED <<accounts, groups, minted, issued, begun, overlapped, halved, renamed>>
      /\ \/ Goes(c, "linkTakeBack", NoAccount) /\ secrets' = secrets
         \/ /\ Exists(id) /\ secrets' = [secrets EXCEPT ![id].grant = k.grant]
            /\ Goes(c, "linkSave", linked)
  BY <1>0 DEF LinkGrant
<1>2. /\ KnownCall(k) /\ k.row \in Rows /\ a \in Rows /\ s \in SecretRows /\ GrantFits(s.grant) /\ halved \in BOOLEAN
      /\ accounts = [accounts EXCEPT ![id] = a] /\ secrets = [secrets EXCEPT ![id] = s] /\ id \in Ids
      /\ k.grant \in Grants
      /\ a = NoAccount => s = NoSecrets
      /\ a # NoAccount => Sane(a)
  BY <1>1, StepFinds
<1>3. ~ halved /\ id \notin overlapped =>
        /\ Fit(a, s) /\ (k.row.session => s.session # Nothing) /\ k.previous = s.grant
        /\ ~ renamed => s.session \in {Nothing, k.grant.user}
        /\ ~ k.made => k.before = <<a, s>>
  BY <1>1, StepFinds DEF PlaceFits, FitsHere, Recalls, FindsFit, SavesFit
<1>4. CASE Goes(c, "linkTakeBack", NoAccount) /\ secrets' = secrets
  <2>1. ASSUME NEW n \in CallRows, Onward(c, n, "linkTakeBack", NoAccount)
        PROVE  KnownCall(n) /\ (~ halved' /\ id \notin overlapped => PlaceFits(n, a, s))
    BY <1>1, <1>2, <1>3, <2>1
       DEF Onward, KnownCall, KnownStep, PlaceFits, FitsHere, Recalls, FindsFit, SavesFit
  <2>. QED BY <1>1, <1>2, <1>4, <2>1, NobodysRow, StepGoes
<1>5. CASE /\ Exists(id) /\ secrets' = [secrets EXCEPT ![id].grant = k.grant]
           /\ Goes(c, "linkSave", linked)
  <2>1. PICK t : t = [s EXCEPT !.grant = k.grant]
    OBVIOUS
  <2>2. k.grant.user \in Users /\ k.grant.user # Nothing /\ Sane(k.row)
    BY <1>1, <1>2, UsersAre DEF KnownCall, KnownStep
  <2>3. /\ linked \in Rows /\ linked.name = k.grant.user /\ linked.user = k.grant.user
        /\ linked.session = k.row.session /\ linked.linked
    BY <1>0, <1>2, <2>2 DEF Rows
  <2>4. t \in SecretRows /\ t.session = s.session /\ t.grant = k.grant
    BY <1>2, <2>1 DEF SecretRows
  <2>5. secrets' = [secrets EXCEPT ![id] = t] /\ a # NoAccount
    BY <1>2, <1>5, <2>1 DEF Exists, StoreInv, StoreTyped
  <2>6. Restored(t, s.grant) = s
    BY <1>2, <2>1 DEF SecretRows, Restored
  <2>7. k.grant # NoGrant /\ GrantFits(t.grant)
    BY <2>2, <2>4, NobodysRow DEF GrantFits
  <2>8. ~ halved /\ id \notin overlapped => Fit(linked, t)
    BY <1>3, <2>2, <2>3, <2>4, <2>7 DEF Fit
  <2>9. ASSUME NEW n \in CallRows, Onward(c, n, "linkSave", linked)
        PROVE  KnownCall(n) /\ (~ halved' /\ id \notin overlapped => PlaceFits(n, a, t))
    <3>1. KnownCall(n)
      BY <1>1, <1>2, <2>2, <2>3, <2>9 DEF Onward, KnownCall, KnownStep, Sane
    <3>2. ASSUME ~ halved, id \notin overlapped PROVE PlaceFits(n, a, t)
      <4>1. Restored(t, n.previous) = s
        BY <1>3, <2>6, <2>9, <3>2 DEF Onward
      <4>. QED BY <1>3, <2>5, <2>8, <2>9, <3>2, <4>1
               DEF Onward, PlaceFits, FitsHere, Recalls, FindsFit, SavesFit
    <3>. QED BY <1>1, <3>1, <3>2
  <2>. QED BY <1>1, <1>2, <1>5, <2>3, <2>4, <2>5, <2>7, <2>9, StepGoes
<1>. QED BY <1>1, <1>4, <1>5

LEMMA LinkSaveStep ==
    ASSUME StoreInv, NEW c \in Callers, LinkSave(c)
    PROVE  StoreInv'
<1> DEFINE k == call[c]
           id == call[c].id
           a == accounts[id]
           s == secrets[id]
<1>1. /\ k.at = "linkSave" /\ UNCHANGED <<secrets, groups, minted, issued, begun, overlapped, halved, renamed>>
      /\ \/ Goes(c, "linkUndo", NoAccount) /\ accounts' = accounts
         \/ Ends(c) /\ accounts' = [accounts EXCEPT ![id] = k.row]
  BY DEF LinkSave, Saved
<1>2. /\ KnownCall(k) /\ k.row \in Rows /\ a \in Rows /\ s \in SecretRows /\ GrantFits(s.grant) /\ halved \in BOOLEAN
      /\ accounts = [accounts EXCEPT ![id] = a] /\ secrets = [secrets EXCEPT ![id] = s]
      /\ a = NoAccount => s = NoSecrets
      /\ a # NoAccount => Sane(a)
  BY <1>1, StepFinds
<1>3. ~ halved /\ id \notin overlapped =>
        /\ Fit(k.row, s) /\ Fit(a, Restored(s, k.previous))
        /\ ~ k.made => k.before = <<a, Restored(s, k.previous)>>
        /\ a # NoAccount
  BY <1>1, StepFinds DEF PlaceFits, FitsHere, Recalls, FindsFit, SavesFit
<1>4. Sane(k.row) /\ k.row # NoAccount
  BY <1>1, <1>2, UsersAre DEF KnownCall, KnownStep, Sane
<1>5. CASE Goes(c, "linkUndo", NoAccount) /\ accounts' = accounts
  <2>1. ASSUME NEW n \in CallRows, Onward(c, n, "linkUndo", NoAccount)
        PROVE  KnownCall(n) /\ (~ halved' /\ id \notin overlapped => PlaceFits(n, a, s))
    BY <1>1, <1>2, <1>3, <2>1
       DEF Onward, KnownCall, KnownStep, PlaceFits, FitsHere, Recalls, FindsFit, SavesFit
  <2>. QED BY <1>1, <1>2, <1>5, <2>1, NobodysRow, StepGoes
<1>6. CASE Ends(c) /\ accounts' = [accounts EXCEPT ![id] = k.row]
  BY <1>1, <1>2, <1>3, <1>4, <1>6, CallIsOver
<1>. QED BY <1>1, <1>5, <1>6

LEMMA LinkUndoStep ==
    ASSUME StoreInv, NEW c \in Callers, LinkUndo(c)
    PROVE  StoreInv'
<1> DEFINE k == call[c]
           id == call[c].id
           a == accounts[id]
           s == secrets[id]
<1>0. PICK fails \in BOOLEAN :
        /\ k.at = "linkUndo" /\ halved' = (halved \/ fails) /\ Goes(c, "linkTakeBack", NoAccount)
        /\ UNCHANGED <<accounts, groups, minted, issued, begun, overlapped, renamed>>
        /\ IF fails \/ ~ Exists(id) THEN UNCHANGED secrets
           ELSE secrets' = [secrets EXCEPT ![id].grant = k.previous]
  BY DEF LinkUndo
<1>2. /\ KnownCall(k) /\ k.row \in Rows /\ a \in Rows /\ s \in SecretRows /\ GrantFits(s.grant) /\ halved \in BOOLEAN
      /\ accounts = [accounts EXCEPT ![id] = a] /\ secrets = [secrets EXCEPT ![id] = s] /\ id \in Ids
      /\ k.previous \in Grants
      /\ a = NoAccount => s = NoSecrets
      /\ a # NoAccount => Sane(a)
  BY <1>0, StepFinds
<1>3. ~ halved /\ id \notin overlapped =>
        /\ Fit(a, Restored(s, k.previous))
        /\ ~ k.made => k.before = <<a, Restored(s, k.previous)>>
        /\ a # NoAccount
  BY <1>0, StepFinds DEF PlaceFits, FitsHere, Recalls, FindsFit, SavesFit
<1>4. /\ UNCHANGED <<groups, minted, issued, begun, overlapped, renamed>> /\ accounts' = [accounts EXCEPT ![id] = a]
      /\ halved' \in BOOLEAN /\ (halved => halved') /\ k.at # "idle" /\ Goes(c, "linkTakeBack", NoAccount)
  BY <1>0, <1>2
<1>5. CASE fails
  <2>1. ASSUME NEW n \in CallRows, Onward(c, n, "linkTakeBack", NoAccount)
        PROVE  KnownCall(n) /\ (~ halved' /\ id \notin overlapped => PlaceFits(n, a, s))
    BY <1>0, <1>2, <1>5, <2>1 DEF Onward, KnownCall, KnownStep
  <2>2. secrets' = [secrets EXCEPT ![id] = s]
    BY <1>0, <1>2, <1>5
  <2>. QED BY <1>2, <1>4, <2>1, <2>2, NobodysRow, StepGoes
<1>6. CASE ~ fails /\ Exists(id)
  <2>1. PICK t : t = Restored(s, k.previous)
    OBVIOUS
  <2>2. t \in SecretRows /\ t.grant = k.previous /\ GrantFits(t.grant) /\ a # NoAccount
    BY <1>2, <1>6, <2>1 DEF SecretRows, Restored, KnownCall, KnownStep, Exists
  <2>3. secrets' = [secrets EXCEPT ![id] = t]
    BY <1>0, <1>2, <1>6, <2>1 DEF Restored, StoreInv, StoreTyped
  <2>4. ASSUME NEW n \in CallRows, Onward(c, n, "linkTakeBack", NoAccount)
        PROVE  KnownCall(n) /\ (~ halved' /\ id \notin overlapped => PlaceFits(n, a, t))
    BY <1>0, <1>2, <1>3, <2>1, <2>4
       DEF Onward, KnownCall, KnownStep, PlaceFits, FitsHere, Recalls, FindsFit, SavesFit
  <2>. QED BY <1>2, <1>4, <2>2, <2>3, <2>4, NobodysRow, StepGoes
<1>7. CASE ~ fails /\ ~ Exists(id)
  <2>1. a = NoAccount /\ s = NoSecrets /\ secrets' = [secrets EXCEPT ![id] = s]
    BY <1>0, <1>2, <1>7 DEF Exists
  <2>2. ASSUME NEW n \in CallRows, Onward(c, n, "linkTakeBack", NoAccount)
        PROVE  KnownCall(n) /\ (~ halved' /\ id \notin overlapped => PlaceFits(n, a, s))
    <3>1. KnownCall(n)
      BY <1>0, <1>2, <2>2 DEF Onward, KnownCall, KnownStep
    \* Only another call takes the row away meanwhile.
    <3>2. halved' \/ id \in overlapped
      BY <1>0, <1>3, <2>1
    <3>. QED BY <3>1, <3>2
  <2>. QED BY <1>2, <1>4, <2>1, <2>2, NobodysRow, StepGoes
<1>. QED BY <1>5, <1>6, <1>7


LEMMA DropGrantStep ==
    ASSUME StoreInv, NEW c \in Callers, DropGrant(c)
    PROVE  StoreInv'
<1> DEFINE k == call[c]
           id == call[c].id
           a == accounts[id]
           s == secrets[id]
<1>1. /\ k.at = "dropGrant" /\ UNCHANGED <<accounts, groups, minted, issued, begun, overlapped, halved, renamed>>
      /\ \/ Ends(c) /\ secrets' = secrets
         \/ secrets' = [secrets EXCEPT ![id].grant = NoGrant] /\ Goes(c, "unlink", k.row)
  BY DEF DropGrant
<1>2. /\ KnownCall(k) /\ k.row \in Rows /\ a \in Rows /\ s \in SecretRows /\ GrantFits(s.grant) /\ halved \in BOOLEAN
      /\ accounts = [accounts EXCEPT ![id] = a] /\ secrets = [secrets EXCEPT ![id] = s] /\ id \in Ids
      /\ a = NoAccount => s = NoSecrets
      /\ a # NoAccount => Sane(a)
  BY <1>1, StepFinds
<1>3. ~ halved /\ id \notin overlapped => Fit(a, s) /\ Fit(k.row, s) /\ ~ k.row.linked
  BY <1>1, StepFinds DEF PlaceFits, FitsHere, FindsFit, SavesFit
<1>4. CASE Ends(c) /\ secrets' = secrets
  BY <1>1, <1>2, <1>3, <1>4, CallIsOver
<1>5. CASE secrets' = [secrets EXCEPT ![id].grant = NoGrant] /\ Goes(c, "unlink", k.row)
  <2>1. PICK t : t = [s EXCEPT !.grant = NoGrant]
    OBVIOUS
  <2>2. PICK row \in Rows : row = k.row
    BY <1>2
  <2>3. /\ t \in SecretRows /\ t.session = s.session /\ t.grant = NoGrant /\ GrantFits(t.grant)
        /\ s = NoSecrets => t = NoSecrets
    BY <1>2, <2>1, NobodysRow DEF SecretRows, GrantFits, NoSecrets
  <2>4. /\ secrets' = [secrets EXCEPT ![id] = t] /\ accounts' = [accounts EXCEPT ![id] = a]
        /\ Goes(c, "unlink", row) /\ row \in Rows
    BY <1>1, <1>2, <1>5, <2>1, <2>2 DEF StoreInv, StoreTyped
  <2>5. ~ halved /\ id \notin overlapped => Fit(row, t)
    BY <1>3, <2>2, <2>3, NobodysRow DEF Fit
  <2>6. ASSUME NEW n \in CallRows, Onward(c, n, "unlink", row)
        PROVE  KnownCall(n) /\ (~ halved' /\ id \notin overlapped => PlaceFits(n, a, t))
    BY <1>1, <1>2, <2>2, <2>5, <2>6
       DEF Onward, KnownCall, KnownStep, PlaceFits, FitsHere, Recalls, FindsFit, SavesFit
  <2>7. /\ UNCHANGED <<groups, minted, issued, begun, overlapped, renamed>> /\ halved' \in BOOLEAN
        /\ (halved => halved') /\ call[c].at # "idle" /\ a \in Rows
        /\ (a = NoAccount => t = NoSecrets) /\ (a # NoAccount => Sane(a))
    BY <1>1, <1>2, <2>3
  <2>. QED BY <2>3, <2>4, <2>6, <2>7, StepGoes
<1>. QED BY <1>1, <1>4, <1>5

LEMMA UnlinkStep ==
    ASSUME StoreInv, NEW c \in Callers, Unlink(c)
    PROVE  StoreInv'
<1> DEFINE k == call[c]
           id == call[c].id
           a == accounts[id]
           s == secrets[id]
<1>1. /\ k.at = "unlink" /\ UNCHANGED <<secrets, groups, minted, issued, begun, overlapped, renamed>> /\ Ends(c)
      /\ \/ accounts' = [accounts EXCEPT ![id] = k.row] /\ UNCHANGED halved
         \/ UNCHANGED accounts /\ halved' = TRUE
  BY DEF Unlink, Saved
<1>2. /\ KnownCall(k) /\ k.row \in Rows /\ a \in Rows /\ s \in SecretRows /\ GrantFits(s.grant) /\ halved \in BOOLEAN
      /\ accounts = [accounts EXCEPT ![id] = a] /\ secrets = [secrets EXCEPT ![id] = s]
      /\ a = NoAccount => s = NoSecrets
      /\ a # NoAccount => Sane(a)
  BY <1>1, StepFinds
<1>3. ~ halved /\ id \notin overlapped => Fit(k.row, s)
  BY <1>1, StepFinds DEF PlaceFits, FitsHere, FindsFit, SavesFit
<1>4. Sane(k.row) /\ k.row # NoAccount
  BY <1>1, <1>2, UsersAre DEF KnownCall, KnownStep, Sane
<1>5. CASE accounts' = [accounts EXCEPT ![id] = k.row] /\ UNCHANGED halved
  BY <1>1, <1>2, <1>3, <1>4, <1>5, CallIsOver
<1>6. CASE UNCHANGED accounts /\ halved' = TRUE
  BY <1>1, <1>6, NothingStep
<1>. QED BY <1>1, <1>5, <1>6

-----------------------------------------------------------------------------
(* Groups.                                                                  *)

\* A call on groups changes the group of accounts that are there, and overlaps with the calls on them.
LEMMA GroupsMove ==
    ASSUME StoreInv, NEW c \in Callers, MayBegin(c), begun' = begun + 1, groups' \subseteq {TheGroup},
           NEW members \in SUBSET Ids, \A id \in members : Exists(id), NEW group \in {NoGroup, TheGroup},
           Regroup(c, members, group)
    PROVE  StoreInv'
<1>1. /\ accounts' = [id \in Ids |-> IF id \in members THEN [accounts[id] EXCEPT !.group = group] ELSE accounts[id]]
      /\ overlapped' = overlapped \cup (members \cap Busy(c))
      /\ UNCHANGED <<secrets, minted, issued, call, halved, renamed>>
  BY DEF Regroup
<1>2. ASSUME NEW id \in Ids
      PROVE  /\ accounts'[id] \in Rows /\ accounts'[id].name = accounts[id].name
             /\ accounts'[id].user = accounts[id].user /\ accounts'[id].session = accounts[id].session
             /\ accounts'[id].linked = accounts[id].linked
             /\ id \notin members => accounts'[id] = accounts[id]
             /\ Exists(id)' <=> Exists(id)
  <2>1. PICK a : a = accounts[id]
    OBVIOUS
  <2>2. a \in Rows /\ (a # NoAccount => a.name \in Users)
    BY <2>1, RowIs DEF Sane, Exists
  <2>3. PICK b : b = [a EXCEPT !.group = group]
    OBVIOUS
  <2>4. b \in Rows /\ b.name = a.name /\ b.user = a.user /\ b.session = a.session /\ b.linked = a.linked
    BY <2>2, <2>3 DEF Rows
  <2>5. accounts'[id] = IF id \in members THEN b ELSE a
    BY <1>1, <2>1, <2>3
  <2>6. id \in members => a # NoAccount /\ b # NoAccount
    BY <2>1, <2>2, <2>4, UsersAre DEF Exists
  <2>. QED BY <2>1, <2>2, <2>4, <2>5, <2>6 DEF Exists
<1>3. ASSUME NEW id \in Ids, id \notin members PROVE accounts'[id] = accounts[id]
  BY <1>2, <1>3
<1>4. StoreTyped'
  <2>1. begun' \in 0..MaxCalls
    BY StoreAssumption DEF StoreInv, StoreTyped, MayBegin
  <2>2. accounts' \in [Ids -> Rows]
    BY <1>1, <1>2
  <2>. QED BY <1>1, <2>1, <2>2 DEF StoreInv, StoreTyped
<1>5. RowsOK'
  <2> SUFFICES ASSUME NEW id \in Ids
               PROVE  /\ Exists(id)' => Sane(accounts[id])' /\ id <= minted'
                      /\ ~ Exists(id)' => secrets'[id] = NoSecrets
                      /\ GrantFits(secrets'[id].grant)
    BY DEF RowsOK, GrantFits
  <2>. QED BY <1>1, <1>2 DEF StoreInv, RowsOK, Sane
<1>6. CallsKnown'
  BY <1>1 DEF StoreInv, CallsKnown, KnownCall, KnownStep, Sane
<1>7. CallsApart'
  BY <1>1 DEF StoreInv, CallsApart
<1>8. AllFit'
  <2> SUFFICES ASSUME ~ halved
               PROVE  /\ \A d \in Callers :
                            call[d].at # "idle" /\ call[d].id \notin overlapped' =>
                              PlaceFits(call[d], accounts[call[d].id], secrets[call[d].id])'
                      /\ \A id \in Ids \ overlapped' :
                            (\A d \in Callers : call[d].at = "idle" \/ call[d].id # id) =>
                              Fit(accounts[id], secrets[id])'
    BY <1>1 DEF AllFit
  <2>1. ASSUME NEW d \in Callers, call[d].at # "idle", call[d].id \notin overlapped'
        PROVE  PlaceFits(call[d], accounts[call[d].id], secrets[call[d].id])'
    <3>1. d # c /\ call[d].id \in Ids /\ call[d].id \in Busy(c)
      BY <2>1, CallIs DEF MayBegin, Busy
    <3>2. call[d].id \notin members /\ call[d].id \notin overlapped
      BY <1>1, <2>1, <3>1
    <3>3. PlaceFits(call[d], accounts[call[d].id], secrets[call[d].id])
      BY <2>1, <3>2, CallIs
    <3>4. accounts'[call[d].id] = accounts[call[d].id]
      BY <1>3, <3>1, <3>2
    <3>. QED BY <1>1, <3>3, <3>4, ZenonT(60) DEF PlaceFits, FitsHere, Recalls, Fit
  <2>2. ASSUME NEW id \in Ids \ overlapped', \A d \in Callers : call[d].at = "idle" \/ call[d].id # id
        PROVE  Fit(accounts[id], secrets[id])'
    <3>1. Fit(accounts[id], secrets[id])
      BY <1>1, <2>2 DEF StoreInv, AllFit
    <3>2. /\ accounts'[id].user = accounts[id].user /\ accounts'[id].session = accounts[id].session
          /\ accounts'[id].linked = accounts[id].linked
      BY <1>2, <2>2
    <3>. QED BY <1>1, <3>1, <3>2 DEF Fit
  <2>. QED BY <2>1, <2>2
<1>. QED BY <1>4, <1>5, <1>6, <1>7, <1>8 DEF StoreInv

LEMMA GroupStep ==
    ASSUME StoreInv, NEW c \in Callers, CreateGroup(c) \/ DeleteGroup(c) \/ MoveAccounts(c)
    PROVE  StoreInv'
<1>1. CASE CreateGroup(c)
  <2>1. PICK members \in SUBSET Ids : members = {}
    OBVIOUS
  <2>2. /\ MayBegin(c) /\ begun' = begun + 1 /\ groups' = {TheGroup}
        /\ UNCHANGED <<accounts, secrets, minted, issued, call, overlapped, halved, renamed>>
    BY <1>1 DEF CreateGroup
  <2>3. accounts = [id \in Ids |-> accounts[id]]
    BY DEF StoreInv, StoreTyped
  <2>4. Regroup(c, members, NoGroup)
    BY <2>1, <2>2, <2>3 DEF Regroup
  <2>. QED BY <2>1, <2>2, <2>4, GroupsMove
<1>2. CASE DeleteGroup(c)
  <2>1. PICK members \in SUBSET Ids : members = {id \in Ids : accounts[id].group = TheGroup}
    OBVIOUS
  <2>2. MayBegin(c) /\ begun' = begun + 1 /\ groups' = {} /\ Regroup(c, members, NoGroup)
    BY <1>2, <2>1 DEF DeleteGroup
  <2>3. \A id \in members : Exists(id)
    BY <2>1, NobodysRow DEF Exists, TheGroup, NoGroup
  <2>. QED BY <2>2, <2>3, GroupsMove
<1>3. CASE MoveAccounts(c)
  <2>1. PICK members \in SUBSET {id \in Ids : Exists(id)} \ {{}}, group \in groups \cup {NoGroup} :
          MayBegin(c) /\ begun' = begun + 1 /\ UNCHANGED groups /\ Regroup(c, members, group)
    BY <1>3 DEF MoveAccounts
  <2>2. groups \subseteq {TheGroup} /\ members \in SUBSET Ids /\ \A id \in members : Exists(id)
    BY <2>1 DEF StoreInv, StoreTyped
  <2>. QED BY <2>1, <2>2, GroupsMove
<1>. QED BY <1>1, <1>2, <1>3


-----------------------------------------------------------------------------
(* The store as a whole.                                                    *)

LEMMA StoreBegins == StoreInit => StoreInv
<1> SUFFICES ASSUME StoreInit PROVE StoreInv
  OBVIOUS
<1>1. PICK user \in Users, any \in BOOLEAN : \E row \in EarlierAccounts(user) :
        /\ row.session \/ row.linked => row.user = user
        /\ accounts = [id \in Ids |-> IF any /\ id = 1 THEN row ELSE NoAccount]
        /\ secrets = [id \in Ids |-> IF any /\ id = 1 THEN EarlierSecrets(row) ELSE NoSecrets]
        /\ minted = 1 /\ issued = 1
        /\ groups = {TheGroup}
        /\ call = [c \in Callers |-> Idle] /\ begun = 0
        /\ overlapped = {} /\ halved = FALSE /\ renamed = FALSE
  BY DEF StoreInit
<1>2. PICK row \in EarlierAccounts(user) :
        /\ row.session \/ row.linked => row.user = user
        /\ accounts = [id \in Ids |-> IF any /\ id = 1 THEN row ELSE NoAccount]
        /\ secrets = [id \in Ids |-> IF any /\ id = 1 THEN EarlierSecrets(row) ELSE NoSecrets]
        /\ minted = 1 /\ issued = 1
        /\ groups = {TheGroup}
        /\ call = [c \in Callers |-> Idle] /\ begun = 0
        /\ overlapped = {} /\ halved = FALSE /\ renamed = FALSE
  BY <1>1
<1>3. row \in Rows /\ row.name = user /\ row.user \in {Nothing, user}
  BY <1>2 DEF EarlierAccounts, Rows
<1>4. PICK s : s = EarlierSecrets(row)
  OBVIOUS
<1>5. /\ s.session = IF row.session THEN row.user ELSE Nothing
      /\ s.grant = IF row.linked THEN [user |-> row.user, issue |-> 1] ELSE NoGrant
      /\ s \in SecretRows
  BY <1>3, <1>4, NobodysRow DEF EarlierSecrets, SecretRows, Grants
<1>6. Fit(row, s) /\ GrantFits(s.grant) /\ Sane(row) /\ row # NoAccount
  <2>1. user # Nothing /\ row # NoAccount
    BY <1>3, UsersAre
  <2>2. row.session => s.session = user
    BY <1>2, <1>5
  <2>3. row.linked => s.grant # NoGrant /\ s.grant.user = user
    BY <1>2, <1>5, <2>1, NobodysRow
  <2>4. s.session \in {Nothing, row.user} /\ s.grant.user \in {Nothing, row.user}
    BY <1>5, NobodysRow
  <2>. QED BY <1>3, <1>5, <2>1, <2>2, <2>3, <2>4 DEF Fit, GrantFits, Sane
<1>7. \A id \in Ids : \/ accounts[id] = NoAccount /\ secrets[id] = NoSecrets
                      \/ accounts[id] = row /\ secrets[id] = s /\ id = 1
  BY <1>2, <1>4
<1>8. StoreTyped
  <2>1. accounts \in [Ids -> Rows]
    BY <1>2, <1>3, NobodysRow
  <2>2. secrets \in [Ids -> SecretRows]
    BY <1>2, <1>4, <1>5, NobodysRow
  <2>3. call \in [Callers -> CallRows]
    BY <1>2, NobodysRow
  <2>4. 1 \in 0..MaxAccounts /\ 0 \in 0..MaxCalls /\ 1 \in Nat
    BY StoreAssumption
  <2>. QED BY <1>2, <2>1, <2>2, <2>3, <2>4 DEF StoreTyped
<1>9. RowsOK
  BY <1>2, <1>6, <1>7, NobodysRow DEF RowsOK, Exists, GrantFits
<1>10. CallsKnown /\ CallsApart
  BY <1>2, NobodysRow DEF CallsKnown, CallsApart
<1>11. AllFit
  BY <1>2, <1>6, <1>7, NobodysRow DEF AllFit
<1>. QED BY <1>8, <1>9, <1>10, <1>11 DEF StoreInv

LEMMA StoreStepLemma == StoreInv /\ [StoreNext]_storeVars => StoreInv'
<1> SUFFICES ASSUME StoreInv, [StoreNext]_storeVars PROVE StoreInv'
  OBVIOUS
<1>1. CASE UNCHANGED storeVars
  <2>1. StoreTyped' /\ RowsOK' /\ CallsKnown' /\ CallsApart'
    BY <1>1 DEF storeVars, StoreInv, StoreTyped, RowsOK, Exists, Sane, CallsKnown, KnownCall, KnownStep, CallsApart
  <2>2. AllFit'
    BY <1>1, SMTT(30) DEF storeVars, StoreInv, AllFit, PlaceFits, FitsHere, Recalls, Fit
  <2>. QED BY <2>1, <2>2 DEF StoreInv
<1>2. ASSUME NEW c \in Callers, StoreCall(c) PROVE StoreInv'
  <2>1. CASE CreateAccount(c) \/ CookieLogin(c) \/ LinkLogin(c)
    BY <2>1, CreateStep, CookieStep, LinkLoginStep
  <2>2. ASSUME NEW id \in Ids,
               \/ UpdateAccount(c, id) \/ RefreshProfile(c, id) \/ RefreshPresence(c, id)
               \/ SetRuntimeStatus(c, id) \/ SetDisplayName(c, id)
               \/ ValidateSession(c, id) \/ DeleteAccount(c, id)
               \/ RefreshGrant(c, id) \/ Disconnect(c, id)
        PROVE  StoreInv'
    BY <2>2, UpdateStep, TouchStep, ValidateStep, DeleteStep, RefreshStep, DisconnectStep
  <2>3. CASE CreateGroup(c) \/ DeleteGroup(c) \/ MoveAccounts(c)
    BY <2>3, GroupStep
  <2>. QED BY <1>2, <2>1, <2>2, <2>3 DEF StoreCall
<1>3. ASSUME NEW c \in Callers, StoreStep(c) PROVE StoreInv'
  BY <1>3, WriteStep, DropSessionStep, DropRowStep, LoginRowStep, LoginSecretStep, LoginFlagStep, UndoStep,
     LinkRowStep, LinkGrantStep, LinkSaveStep, LinkUndoStep, DropGrantStep, UnlinkStep DEF StoreStep
<1>. QED BY <1>1, <1>2, <1>3 DEF StoreNext

LEMMA StoreIsKept == StoreInv => SecretsFitAccounts /\ StoreTypeOK
<1> SUFFICES ASSUME StoreInv PROVE SecretsFitAccounts /\ StoreTypeOK
  OBVIOUS
<1>1. ASSUME ~ halved, NEW id \in Ids \ (overlapped \cup {call[c].id : c \in Callers})
      PROVE  /\ accounts[id].session => secrets[id].session # Nothing
             /\ accounts[id].linked => secrets[id].grant # NoGrant
             /\ ~ renamed => secrets[id].session \in {Nothing, accounts[id].user}
             /\ ~ renamed => secrets[id].grant.user \in {Nothing, accounts[id].user}
  <2>1. \A c \in Callers : call[c].at = "idle" \/ call[c].id # id
    BY <1>1
  <2>2. Fit(accounts[id], secrets[id])
    BY <1>1, <2>1 DEF StoreInv, AllFit
  <2>. QED BY <2>2 DEF Fit
<1>2. StoreTypeOK
  BY RowIs DEF StoreInv, StoreTyped, RowsOK, StoreTypeOK
<1>. QED BY <1>1, <1>2 DEF SecretsFitAccounts

\* A call that has to undo something ends only by undoing it.
LEMMA OnlyTheUndoEnds ==
    ASSUME StoreInv, StoreNext, NEW c \in Callers,
           call[c].at \in {"linkTakeBack", "loginUndo"}, call'[c].at = "idle"
    PROVE  LoginUndo(c) \/ LinkTakeBack(c)
<1>0. call \in [Callers -> CallRows]
  BY DEF StoreInv, StoreTyped
<1>1. PICK d \in Callers : StoreCall(d) \/ StoreStep(d)
  BY DEF StoreNext
<1>2. CASE d # c
  <2>1. \/ call' = call
        \/ \E k : call' = [call EXCEPT ![d] = k]
    <3>1. CASE StoreCall(d)
      <4>1. \A step : Begin(d, step) => \E k : call' = [call EXCEPT ![d] = k]
        BY DEF Begin
      <4>2. CASE CreateAccount(d) \/ CookieLogin(d) \/ LinkLogin(d)
        BY <4>1, <4>2 DEF CreateAccount, CookieLogin, LinkLogin
      <4>3. ASSUME NEW id \in Ids,
                   \/ UpdateAccount(d, id) \/ RefreshProfile(d, id) \/ RefreshPresence(d, id)
                   \/ SetRuntimeStatus(d, id) \/ SetDisplayName(d, id)
                   \/ ValidateSession(d, id) \/ DeleteAccount(d, id)
                   \/ RefreshGrant(d, id) \/ Disconnect(d, id)
            PROVE  \E k : call' = [call EXCEPT ![d] = k]
        BY <4>1, <4>3 DEF UpdateAccount, RefreshProfile, RefreshPresence, SetRuntimeStatus, SetDisplayName, Edits,
                          ValidateSession, DeleteAccount, RefreshGrant, Disconnect
      <4>4. CASE CreateGroup(d) \/ DeleteGroup(d) \/ MoveAccounts(d)
        BY <4>4 DEF CreateGroup, DeleteGroup, MoveAccounts, Regroup
      <4>. QED BY <3>1, <4>2, <4>3, <4>4 DEF StoreCall
    <3>2. CASE StoreStep(d)
      <4>1. \A at, row : Goes(d, at, row) => \E k : call' = [call EXCEPT ![d] = k]
        BY <1>0 DEF Goes
      <4>2. Ends(d) => \E k : call' = [call EXCEPT ![d] = k]
        BY DEF Ends
      <4>. QED BY <3>2, <4>1, <4>2
               DEF StoreStep, Write, DropSession, DropRow, LoginRow, LoginSecret, LoginFlag, LoginUndo,
                   LinkRow, LinkGrant, LinkSave, LinkUndo, LinkTakeBack, DropGrant, Unlink
    <3>. QED BY <1>1, <3>1, <3>2
  <2>2. call'[c] = call[c]
    BY <1>0, <1>2, <2>1
  <2>. QED BY <2>2
<1>3. CASE d = c
  <2>1. ~ StoreCall(c)
    BY DEF StoreCall, CreateAccount, CookieLogin, LinkLogin, UpdateAccount, RefreshProfile, RefreshPresence,
           SetRuntimeStatus, SetDisplayName, Edits, ValidateSession, DeleteAccount, RefreshGrant, Disconnect,
           CreateGroup, DeleteGroup, MoveAccounts, MayBegin
  <2>2. StoreStep(c)
    BY <1>1, <1>3, <2>1
  <2>. QED BY <2>2
           DEF StoreStep, Write, DropSession, DropRow, LoginRow, LoginSecret, LoginFlag, LinkRow, LinkGrant,
               LinkSave, LinkUndo, DropGrant, Unlink
<1>. QED BY <1>2, <1>3

LEMMA UndoneIsAsBefore ==
    ASSUME StoreInv, [StoreNext]_storeVars, NEW c \in Callers,
           call[c].at \in {"linkTakeBack", "loginUndo"}, call'[c].at = "idle",
           call[c].id \notin overlapped, ~ halved', call[c].op = "cookie" => call[c].made
    PROVE  <<accounts'[call[c].id], secrets'[call[c].id]>> = call[c].before
<1> DEFINE k == call[c]
           id == call[c].id
<1>1. LoginUndo(c) \/ LinkTakeBack(c)
  <2>1. StoreNext
    BY DEF storeVars
  <2>. QED BY <2>1, OnlyTheUndoEnds
<1>2. PICK fails \in BOOLEAN :
        /\ IF TakesBack(c) /\ ~ fails THEN Removed(id) ELSE UNCHANGED <<accounts, secrets>>
        /\ halved' = (halved \/ (k.made /\ fails))
  BY <1>1 DEF LoginUndo, LinkTakeBack
<1>3. ~ halved /\ ~ (k.made /\ fails)
  BY <1>2
<1>4. /\ KnownCall(k) /\ id \in Ids /\ PlaceFits(k, accounts[id], secrets[id])
  BY <1>3, CallIs
<1>5. CASE k.made
  <2>1. Removed(id) /\ k.before = <<NoAccount, NoSecrets>>
    BY <1>2, <1>3, <1>4, <1>5 DEF TakesBack, KnownCall
  <2>2. accounts'[id] = NoAccount /\ secrets'[id] = NoSecrets
    BY <1>4, <2>1 DEF Removed, StoreInv, StoreTyped
  <2>. QED BY <2>1, <2>2
<1>6. CASE ~ k.made
  <2>1. k.at = "linkTakeBack"
    BY <1>4, <1>6 DEF KnownCall, KnownStep
  <2>2. k.before = <<accounts[id], secrets[id]>>
    BY <1>4, <1>6, <2>1 DEF PlaceFits, Recalls
  <2>3. UNCHANGED <<accounts, secrets>>
    BY <1>2, <1>6 DEF TakesBack
  <2>. QED BY <2>2, <2>3
<1>. QED BY <1>5, <1>6


-----------------------------------------------------------------------------
(* The schedule (module Scheduler).                                         *)

ScheduleInv ==
    /\ ScheduleTypeOK
    /\ \A i \in TaskIds : stored[i].last <= time

\* The day of a slot, whatever the length of a day.
LEMMA DayOfSlot ==
    ASSUME NEW task \in Task, NEW day \in Int
    PROVE  SlotOn(task, day) \in Int /\ Day(SlotOn(task, day)) = day
<1> DEFINE p == day * DayLength
           n == p + task.at
<1>1. DayLength \in Nat /\ DayLength > 0 /\ task.at \in 0..(DayLength - 1)
  BY SchedulerAssumption DEF Task
<1>2. p \in Int /\ p = DayLength * day
  BY <1>1
<1> HIDE DEF p
<1>3. n \in Int /\ p <= n /\ n < p + DayLength
  BY <1>1, <1>2
<1> HIDE DEF n
<1>4. \A w, q, m \in Int : w > 0 /\ w * q <= m /\ m < w * q + w => m \div w = q
  OBVIOUS
<1>5. n \div DayLength = day
  BY <1>1, <1>2, <1>3, <1>4
<1>. QED BY <1>3, <1>5 DEF n, p, SlotOn, Day

\* The moments of a day.
LEMMA DayOfMoment ==
    ASSUME NEW t \in Nat
    PROVE  Day(t) \in Nat /\ Day(t) * DayLength <= t /\ t < (Day(t) + 1) * DayLength
<1>1. DayLength \in Nat /\ DayLength > 0
  BY SchedulerAssumption
<1>2. \A w \in Nat : w > 0 => t \div w \in Nat /\ (t \div w) * w <= t /\ t < (t \div w + 1) * w
  OBVIOUS
<1>. QED BY <1>1, <1>2 DEF Day

LEMMA Multiples ==
    ASSUME NEW d \in Int, NEW e \in Int, d <= e
    PROVE  d * DayLength <= e * DayLength /\ d * DayLength \in Int /\ e * DayLength \in Int
<1>1. DayLength \in Nat
  BY SchedulerAssumption
<1>2. \A w \in Nat : d * w <= e * w /\ d * w \in Int /\ e * w \in Int
  <2>1. \A w, k \in Nat : d * w <= (d + k) * w /\ d * w \in Int
    OBVIOUS
  <2>2. e - d \in Nat /\ d + (e - d) = e
    OBVIOUS
  <2>. QED BY <2>1, <2>2
<1>. QED BY <1>1, <1>2

\* Slots of later days are later.
LEMMA SlotsInOrder ==
    ASSUME NEW task \in Task, NEW d \in Int, NEW e \in Int
    PROVE  SlotOn(task, d) < SlotOn(task, e) => d < e
<1>1. CASE e <= d
  BY <1>1, Multiples, SchedulerAssumption DEF SlotOn, Task
<1>2. CASE d < e
  BY <1>2
<1>. QED BY <1>1, <1>2

\* A moment at which a task is due for a slot lies on a day that the task is for, not before the slot.
LEMMA DueIsOfADay ==
    ASSUME NEW task \in Task, NEW t \in Nat, NEW s \in DueSlots(task, t)
    PROVE  /\ task.enabled
           /\ \E d \in Nat : s = SlotOn(task, d) /\ d % WeekLength \in task.days /\ d <= Day(t) /\ s <= t
<1>1. Day(t) \in Nat
  BY DayOfMoment
<1>2. task.enabled
  BY DEF DueSlots
<1>3. PICK d \in {Day(t), Day(t) - 1} : DueOn(task, d, t) /\ s = SlotOn(task, d)
  BY DEF DueSlots
<1>4. d \in Nat /\ d <= Day(t) /\ d % WeekLength \in task.days /\ SlotOn(task, d) <= t
  BY <1>1, <1>3 DEF DueOn, InGrace
<1>. QED BY <1>2, <1>3, <1>4

\* A day with a slot after now, not more than a week ahead, is upcoming.
LEMMA UpcomingIs ==
    ASSUME NEW task \in Task, NEW now \in Nat, NEW d \in Nat, d % WeekLength \in task.days,
           now < SlotOn(task, d), d <= Day(now) + WeekLength
    PROVE  d \in UpcomingDays(task, now)
<1>1. Day(now) \in Nat /\ Day(now) * DayLength <= now /\ now < (Day(now) + 1) * DayLength
  BY DayOfMoment
<1>2. Day(now) <= d
  <2> SUFFICES ASSUME d + 1 <= Day(now) PROVE FALSE
    BY <1>1
  <2>1. (d + 1) * DayLength <= Day(now) * DayLength
    BY <1>1, Multiples
  <2>2. (d + 1) * DayLength = d * DayLength + DayLength /\ d * DayLength \in Int /\ DayLength \in Nat
    BY SchedulerAssumption
  <2>3. Day(now) * DayLength \in Int
    BY <1>1, <2>2
  <2>4. SlotOn(task, d) < (d + 1) * DayLength
    BY <2>2 DEF SlotOn, Task
  <2>. QED BY <1>1, <2>1, <2>2, <2>3, <2>4 DEF SlotOn, Task
<1>. QED BY <1>1, <1>2, SchedulerAssumption DEF UpcomingDays

\* next_run_at and due_tasks agree, for any length of the day and the week.
LEMMA ShownIsDue ==
    ASSUME NEW task \in Task, NEW now \in Nat, task.last <= now, NEW next, next = NextRun(task, now)
    PROVE  /\ next # Never => DueSlots(task, next) = {next}
           /\ \A t \in (now + 1)..(IF next = Never THEN now + WeekLength * DayLength ELSE next - 1) :
                 \A s \in DueSlots(task, t) : s <= now
<1> DEFINE U == UpcomingDays(task, now)
<1>0. /\ Day(now) \in Nat /\ WeekLength \in Nat /\ WeekLength > 0 /\ DayLength \in Nat /\ DayLength > 0
      /\ Grace \in Nat
  BY DayOfMoment, SchedulerAssumption
<1>1. U \subseteq Nat /\ \A d \in U : d <= Day(now) + WeekLength /\ d % WeekLength \in task.days /\ SlotOn(task, d) > now
  BY <1>0 DEF UpcomingDays
<1>2. CASE task.enabled /\ U # {}
  <2>1. PICK first : first = CHOOSE d \in U : \A e \in U : d <= e
    OBVIOUS
  <2>2. first \in U /\ \A e \in U : first <= e
    BY <1>1, <1>2, <2>1, LeastIsThere
  <2>3. next = SlotOn(task, first)
    BY <1>2, <2>1 DEF NextRun
  <2>4. first \in Nat /\ next \in Int /\ Day(next) = first /\ next > now
    BY <1>1, <2>2, <2>3, DayOfSlot
  <2>5. next # Never
    BY <2>4 DEF Never
  <2>6. DueSlots(task, next) = {next}
    <3>1. task.last \in Int /\ task.last < next
      BY <2>4 DEF Task, Never
    <3>2. DueOn(task, first, next)
      BY <1>0, <1>1, <2>2, <2>3, <2>4, <3>1 DEF DueOn, InGrace
    <3>. QED BY <1>2, <2>3, <2>4, <3>2 DEF DueSlots
  <2>7. ASSUME NEW t \in (now + 1)..(next - 1), NEW s \in DueSlots(task, t) PROVE s <= now
    <3>1. t \in Nat /\ t < next
      BY <2>4
    <3>2. PICK d \in Nat : s = SlotOn(task, d) /\ d % WeekLength \in task.days /\ s <= t
      BY <3>1, DueIsOfADay
    <3>3. s \in Int
      BY <3>2, DayOfSlot
    <3>4. d < first
      BY <2>3, <2>4, <3>1, <3>2, <3>3, SlotsInOrder
    <3>5. d <= Day(now) + WeekLength /\ d \notin U
      BY <1>0, <1>1, <2>2, <2>4, <3>4
    <3>. QED BY <3>2, <3>3, <3>5, UpcomingIs
  <2>. QED BY <2>5, <2>6, <2>7
<1>3. CASE ~ (task.enabled /\ U # {})
  <2>1. next = Never
    BY <1>3 DEF NextRun
  <2>2. ASSUME NEW t \in (now + 1)..(now + WeekLength * DayLength), NEW s \in DueSlots(task, t) PROVE s <= now
    <3>0. WeekLength * DayLength \in Nat
      BY <1>0
    <3>1. t \in Nat /\ t <= now + WeekLength * DayLength
      BY <3>0
    <3>2. task.enabled
      BY <3>1, DueIsOfADay
    <3>3. PICK d \in Nat : s = SlotOn(task, d) /\ d % WeekLength \in task.days /\ d <= Day(t) /\ s <= t
      BY <3>1, DueIsOfADay
    <3>4. s \in Int
      BY <3>3, DayOfSlot
    <3>5. Day(t) <= Day(now) + WeekLength
      <4>1. /\ Day(t) \in Nat /\ Day(t) * DayLength <= t
            /\ now < (Day(now) + 1) * DayLength
        BY <3>1, DayOfMoment
      <4> SUFFICES ASSUME Day(now) + WeekLength + 1 <= Day(t) PROVE FALSE
        BY <1>0, <4>1
      <4>2. (Day(now) + WeekLength + 1) * DayLength <= Day(t) * DayLength
        BY <1>0, <4>1, Multiples
      <4>3. (Day(now) + WeekLength + 1) * DayLength = (Day(now) + 1) * DayLength + WeekLength * DayLength
        BY <1>0
      <4>4. (Day(now) + 1) * DayLength \in Nat /\ Day(t) * DayLength \in Nat
        BY <1>0, <4>1
      <4>. QED BY <3>0, <3>1, <4>1, <4>2, <4>3, <4>4
    <3>6. d <= Day(now) + WeekLength /\ d \notin U
      BY <1>0, <1>3, <3>1, <3>2, <3>3, <3>5, DayOfMoment
    <3>. QED BY <3>3, <3>4, <3>6, UpcomingIs
  <2>. QED BY <2>1, <2>2
<1>. QED BY <1>2, <1>3

LEMMA ScheduleBegins == SchedulerInit => ScheduleInv
<1> SUFFICES ASSUME SchedulerInit PROVE ScheduleInv
  OBVIOUS
<1>1. NoTask \in Task /\ NoTask.last <= 0
  BY SchedulerAssumption DEF NoTask, Task, Never
<1>. QED BY <1>1, SchedulerAssumption DEF SchedulerInit, ScheduleInv, ScheduleTypeOK

LEMMA ScheduleStep == ScheduleInv /\ [SchedulerNext]_scheduleVars => ScheduleInv'
<1> SUFFICES ASSUME ScheduleInv, [SchedulerNext]_scheduleVars PROVE ScheduleInv'
  OBVIOUS
<1>0. /\ time \in 0..MaxTime /\ saves \in 0..MaxSaves /\ stored \in [TaskIds -> Task]
      /\ {tickDue, ran, found} \subseteq SUBSET (TaskIds \X (0..MaxTime))
      /\ \A i \in TaskIds : stored[i].last <= time
      /\ MaxTime \in Nat /\ MaxSaves \in Nat /\ DayLength \in Nat /\ DayLength > 0
      /\ \A task \in Task : task.last \in Int
  BY SchedulerAssumption DEF ScheduleInv, ScheduleTypeOK, Task, Never
<1>1. CASE UNCHANGED scheduleVars
  BY <1>1 DEF scheduleVars, ScheduleInv, ScheduleTypeOK
<1>2. CASE TimePasses
  BY <1>0, <1>2 DEF TimePasses, ScheduleInv, ScheduleTypeOK
<1>3. CASE BeginRunDue
  <2>1. AllDue \subseteq TaskIds \X (0..MaxTime)
    BY <1>0 DEF AllDue
  <2>. QED BY <1>0, <1>3, <2>1 DEF BeginRunDue, ScheduleInv, ScheduleTypeOK
<1>4. CASE RunDue
  <2>1. \A i \in TaskIds : [stored[i] EXCEPT !.last = time] \in Task
    BY <1>0 DEF Task
  <2>2. \A i \in TaskIds : [stored[i] EXCEPT !.last = time].last = time
    BY <1>0 DEF Task
  <2>3. stored' \in [TaskIds -> Task] /\ \A i \in TaskIds : stored'[i].last <= time
    <3>1. CASE stored' = stored
      BY <1>0, <3>1
    <3>2. CASE ~ (stored' = stored)
      <4>1. stored' = [i \in TaskIds |-> IF \E s \in 0..MaxTime : <<i, s>> \in tickDue
                                        THEN [stored[i] EXCEPT !.last = time] ELSE stored[i]]
        BY <1>4, <3>2 DEF RunDue
      <4>2. \A i \in TaskIds : stored'[i] \in {[stored[i] EXCEPT !.last = time], stored[i]}
        BY <4>1
      <4>3. \A i \in TaskIds : stored'[i] \in Task /\ stored'[i].last <= time
        <5> SUFFICES ASSUME NEW i \in TaskIds PROVE stored'[i] \in Task /\ stored'[i].last <= time
          OBVIOUS
        <5>1. CASE stored'[i] = stored[i]
          BY <1>0, <5>1
        <5>2. CASE stored'[i] = [stored[i] EXCEPT !.last = time]
          BY <1>0, <2>1, <2>2, <5>2
        <5>. QED BY <4>2, <5>1, <5>2
      <4>. QED BY <4>1, <4>3
    <3>. QED BY <3>1, <3>2
  <2>4. ran' \subseteq TaskIds \X (0..MaxTime) /\ tickDue' = {} /\ UNCHANGED <<time, saves, found>>
    BY <1>0, <1>4 DEF RunDue
  <2>. QED BY <1>0, <2>3, <2>4 DEF ScheduleInv, ScheduleTypeOK
<1>5. ASSUME NEW i \in TaskIds, SaveTask(i) PROVE ScheduleInv'
  <2>1. PICK at \in 0..(DayLength - 1), days \in SUBSET (0..(WeekLength - 1)) \ {{}}, enabled \in BOOLEAN :
          stored' = [stored EXCEPT ![i] = [at |-> at, days |-> days, enabled |-> enabled, last |-> Never]]
    BY <1>5 DEF SaveTask
  <2>2. PICK task : task = [at |-> at, days |-> days, enabled |-> enabled, last |-> Never]
    OBVIOUS
  <2>3. task \in Task /\ task.last <= time
    BY <1>0, <2>2 DEF Task, Never
  <2>4. stored' \in [TaskIds -> Task] /\ \A j \in TaskIds : stored'[j].last <= time
    BY <1>0, <2>1, <2>2, <2>3
  <2>. QED BY <1>0, <1>5, <2>4 DEF SaveTask, ScheduleInv, ScheduleTypeOK
<1>6. ASSUME NEW i \in TaskIds, DeleteTask(i) PROVE ScheduleInv'
  <2>1. NoTask \in Task /\ NoTask.last <= time
    BY <1>0 DEF NoTask, Task, Never
  <2>2. stored' \in [TaskIds -> Task] /\ \A j \in TaskIds : stored'[j].last <= time
    BY <1>0, <1>6, <2>1 DEF DeleteTask
  <2>. QED BY <1>0, <1>6, <2>2 DEF DeleteTask, ScheduleInv, ScheduleTypeOK
<1>. QED BY <1>1, <1>2, <1>3, <1>4, <1>5, <1>6 DEF SchedulerNext

LEMMA ScheduleIsShown == ScheduleInv => ShownSlotComesDue
<1> SUFFICES ASSUME ScheduleInv, NEW i \in TaskIds
             PROVE  LET next == NextRun(stored[i], time)
                    IN  /\ next # Never => DueSlots(stored[i], next) = {next}
                        /\ \A t \in (time + 1)..(IF next = Never THEN time + WeekLength * DayLength ELSE next - 1) :
                              \A s \in DueSlots(stored[i], t) : s <= time
  BY DEF ShownSlotComesDue
<1>1. stored[i] \in Task /\ time \in Nat /\ stored[i].last <= time
  BY SchedulerAssumption DEF ScheduleInv, ScheduleTypeOK
<1>. QED BY <1>1, ShownIsDue


-----------------------------------------------------------------------------
(* What the user has in the files of the client.                            *)

FlagFiles == [there : BOOLEAN, cap : Int, own : BOOLEAN]
GlobalFiles == [there : BOOLEAN, cap : Int, volume : Int]
Applications ==
    [at : {"idle", "cap", "globals", "undo"}, cap : Int, volume : {0, Asked}, before : Int,
     touched : BOOLEAN, alone : BOOLEAN]

FilesTyped ==
    /\ flags \in [Folders -> FlagFiles] /\ active \in Folders /\ applying \in [Appliers -> Applications]
    /\ globals \in GlobalFiles /\ globalsKept \in GlobalFiles /\ fileFaults \in Nat /\ outside \in Nat

\* A call that nobody overlapped and that has changed nothing yet finds the cap it has read.
ApplicationFits(k) ==
    /\ k.at = "globals" => k.volume = Asked
    /\ k.at = "cap" => ~ k.touched
    /\ k.at \in {"cap", "globals"} /\ k.alone /\ ~ k.touched => flags[active].cap = k.before
FilesInv == FilesTyped /\ \A u \in Appliers : ApplicationFits(applying[u])

\* What a method of the patcher leaves alone: the flags of the user and the volume.
MethodFits ==
    /\ flags' \in [Folders -> FlagFiles] /\ OwnFlagsStay
    /\ globals' \in GlobalFiles /\ globalsKept' \in GlobalFiles /\ fileFaults' \in Nat
    /\ globals'.volume = globals.volume

-----------------------------------------------------------------------------
LEMMA CapIs ==
    ASSUME FilesTyped, NEW cap \in Int
    PROVE  /\ WithCap(cap) \in FlagFiles /\ WithCap(cap).there /\ WithCap(cap).cap = cap
           /\ WithCap(cap).own = flags[active].own
BY DEF FilesTyped, WithCap, FlagFiles

LEMMA FlagsWritten ==
    ASSUME FilesTyped, NEW cap \in Int, NEW mirrors, WritesFlags(WithCap(cap), mirrors)
    PROVE  flags' \in [Folders -> FlagFiles] /\ OwnFlagsStay /\ flags'[active].cap = cap
<1>1. PICK new \in FlagFiles : new = WithCap(cap) /\ new.there /\ new.cap = cap /\ new.own = flags[active].own
  BY CapIs
<1>2. \A d \in Folders : flags[d] \in FlagFiles
  BY DEF FilesTyped
<1>3. ASSUME NEW d \in Folders
      PROVE  /\ Mirrored(flags[d], new) \in FlagFiles
             /\ flags[d].there => Mirrored(flags[d], new).there /\ Mirrored(flags[d], new).own = flags[d].own
  BY <1>1, <1>2 DEF Mirrored, FlagFiles
<1>4. flags' = [d \in Folders |-> IF d = active THEN new
                                  ELSE IF d \in mirrors THEN Mirrored(flags[d], new) ELSE flags[d]]
  BY <1>1 DEF WritesFlags
<1>5. flags' \in [Folders -> FlagFiles]
  BY <1>1, <1>2, <1>3, <1>4
<1>6. flags'[active].cap = cap
  BY <1>1, <1>4 DEF FilesTyped
<1>7. ASSUME NEW d \in Folders, flags[d].there PROVE flags'[d].there /\ flags'[d].own = flags[d].own
  BY <1>1, <1>3, <1>4, <1>7
<1>. QED BY <1>5, <1>6, <1>7 DEF OwnFlagsStay

LEMMA FlagsLeft == FilesTyped /\ LeavesFlags => flags' \in [Folders -> FlagFiles] /\ OwnFlagsStay
BY DEF FilesTyped, LeavesFlags, OwnFlagsStay

\* What a change of the global settings leaves: the volume.
GlobalsFit == globals' \in GlobalFiles /\ globalsKept' \in GlobalFiles /\ globals'.volume = globals.volume

LEMMA GlobalsChange ==
    ASSUME FilesTyped
    PROVE  /\ LeavesGlobals => GlobalsFit
           /\ CopiesAtMost => GlobalsFit
           /\ RestoresGlobals => GlobalsFit
           /\ \A cap \in Int : CapsGlobals(cap) => GlobalsFit
<1>1. globals \in GlobalFiles /\ globalsKept \in GlobalFiles /\ CopiedOnce \in GlobalFiles
  BY DEF FilesTyped, CopiedOnce
<1>2. \A cap \in Int : /\ [globals EXCEPT !.cap = cap] \in GlobalFiles
                       /\ [globals EXCEPT !.cap = cap].volume = globals.volume
  BY <1>1 DEF GlobalFiles
<1>3. globalsKept.cap \in Int
  BY <1>1 DEF GlobalFiles
<1>4. LeavesGlobals \/ CopiesAtMost => GlobalsFit
  BY <1>1 DEF LeavesGlobals, CopiesAtMost, GlobalsFit
<1>5. RestoresGlobals => GlobalsFit
  BY <1>1, <1>2, <1>3 DEF RestoresGlobals, OnlyCapDiffers, GlobalsFit
<1>6. \A cap \in Int : CapsGlobals(cap) => GlobalsFit
  <2> SUFFICES ASSUME NEW cap \in Int, CapsGlobals(cap) PROVE GlobalsFit
    OBVIOUS
  <2>1. PICK capped \in GlobalFiles : capped = [globals EXCEPT !.cap = cap] /\ capped.volume = globals.volume
    BY <1>2
  <2>2. \/ globalsKept' = CopiedOnce /\ globals' = capped
        \/ UNCHANGED <<globals, globalsKept>>
    BY <2>1 DEF CapsGlobals
  <2>. QED BY <1>1, <2>1, <2>2 DEF GlobalsFit
<1>. QED BY <1>4, <1>5, <1>6

LEMMA WorksIs ==
    ASSUME FilesTyped, NEW cap \in Int, NEW mirrors, Works(WithCap(cap), mirrors)
    PROVE  flags' \in [Folders -> FlagFiles] /\ OwnFlagsStay /\ flags'[active].cap = cap /\ fileFaults' \in Nat
<1>1. IsFiniteSet(Mirrors \ mirrors)
  BY FS_Subset, ClientSettingsAssumption DEF Mirrors
<1>2. Cardinality(Mirrors \ mirrors) \in Nat
  BY <1>1, FS_CardinalityType
<1>. QED BY <1>2, FlagsWritten DEF Works, FilesTyped

LEMMA RefusedIs ==
    ASSUME FilesTyped, NEW cap \in Int, NEW asked, RefusedFirst \/ RefusedLast(WithCap(cap), asked)
    PROVE  MethodFits /\ fileFaults' # fileFaults
<1>1. CASE RefusedFirst
  BY <1>1, FlagsLeft, GlobalsChange DEF RefusedFirst, WriteRefused, MethodFits, GlobalsFit, FilesTyped
<1>2. CASE RefusedLast(WithCap(cap), asked)
  <2>1. flags' \in [Folders -> FlagFiles] /\ OwnFlagsStay
    BY <1>2, FlagsWritten DEF RefusedLast
  <2>2. GlobalsFit
    BY <1>2, GlobalsChange DEF RefusedLast
  <2>. QED BY <1>2, <2>1, <2>2 DEF RefusedLast, WriteRefused, MethodFits, GlobalsFit, FilesTyped
<1>. QED BY <1>1, <1>2

\* The methods leave the flags of the user and the volume, and those that are not refused the cap
\* they were asked for.
LEMMA SetFits ==
    ASSUME FilesTyped, NEW cap \in Int
    PROVE  /\ SetFpsCap(cap) => MethodFits /\ flags'[active].cap = cap
           /\ SetFpsCapFails(cap) => MethodFits /\ fileFaults' # fileFaults
<1>1. ASSUME SetFpsCap(cap) PROVE MethodFits /\ flags'[active].cap = cap
  <2>1. PICK mirrors \in SUBSET Mirrors :
          Works(WithCap(cap), mirrors) /\ (IF cap > 0 THEN CapsGlobals(cap) ELSE LeavesGlobals)
    BY <1>1 DEF SetFpsCap
  <2>2. GlobalsFit
    BY <2>1, GlobalsChange
  <2>. QED BY <2>1, <2>2, WorksIs DEF MethodFits, GlobalsFit
<1>2. ASSUME SetFpsCapFails(cap) PROVE MethodFits /\ fileFaults' # fileFaults
  BY <1>2, RefusedIs DEF SetFpsCapFails
<1>. QED BY <1>1, <1>2

LEMMA RemoveFits ==
    ASSUME FilesTyped
    PROVE  /\ RemoveFpsCap => MethodFits /\ flags'[active].cap = Uncapped
           /\ RemoveFpsCapFails => MethodFits /\ fileFaults' # fileFaults
<1>0. Uncapped \in Int
  BY DEF Uncapped
<1>1. ASSUME RemoveFpsCap PROVE MethodFits /\ flags'[active].cap = Uncapped
  <2>1. GlobalsFit
    BY <1>1, GlobalsChange DEF RemoveFpsCap
  <2>2. CASE HasCap
    <3>1. PICK mirrors \in SUBSET Mirrors : Works(WithCap(Uncapped), mirrors)
      BY <1>1, <2>2 DEF RemoveFpsCap
    <3>. QED BY <1>0, <2>1, <3>1, WorksIs DEF MethodFits, GlobalsFit
  <2>3. CASE ~ HasCap
    <3>1. LeavesFlags /\ UNCHANGED fileFaults
      BY <1>1, <2>3 DEF RemoveFpsCap
    <3>2. flags'[active].cap = Uncapped
      BY <2>3, <3>1 DEF HasCap, LeavesFlags
    <3>. QED BY <2>1, <3>1, <3>2, FlagsLeft DEF MethodFits, GlobalsFit, FilesTyped
  <2>. QED BY <2>2, <2>3
<1>2. ASSUME RemoveFpsCapFails PROVE MethodFits /\ fileFaults' # fileFaults
  BY <1>0, <1>2, RefusedIs DEF RemoveFpsCapFails
<1>. QED BY <1>1, <1>2

LEMMA PatchFits ==
    ASSUME FilesTyped, NEW cap \in Int, PatchLaunchSettings(cap) \/ PatchLaunchSettingsFails(cap)
    PROVE  MethodFits
<1>1. PICK asked \in Int : Patched(cap) = WithCap(asked)
  BY DEF Patched, Uncapped
<1>2. CASE PatchLaunchSettings(cap)
  <2>1. PICK mirrors \in SUBSET Mirrors :
          Works(WithCap(asked), mirrors) /\ (IF cap = 0 THEN RestoresGlobals ELSE CapsGlobals(cap))
    BY <1>1, <1>2 DEF PatchLaunchSettings
  <2>2. GlobalsFit
    BY <2>1, GlobalsChange
  <2>. QED BY <2>1, <2>2, WorksIs DEF MethodFits, GlobalsFit
<1>3. CASE PatchLaunchSettingsFails(cap)
  BY <1>1, <1>3, RefusedIs DEF PatchLaunchSettingsFails
<1>. QED BY <1>2, <1>3


-----------------------------------------------------------------------------
(* What the steps of a call, of the client and of an update change.         *)

\* Whoever is under way while another changes the files is no longer alone.
LEMMA OthersNotAlone ==
    ASSUME FilesInv, NEW k \in Applications
    PROVE  NotAlone(k) \in Applications /\ ~ (NotAlone(k).at # "idle" /\ NotAlone(k).alone)
           /\ (ApplicationFits(k) => ApplicationFits(NotAlone(k))')
<1>1. PICK n : n = NotAlone(k)
  OBVIOUS
<1>2. CASE k.at = "idle"
  BY <1>2 DEF NotAlone, ApplicationFits
<1>3. CASE k.at # "idle"
  <2>1. /\ n \in Applications /\ ~ n.alone /\ n.at = k.at /\ n.volume = k.volume /\ n.touched = k.touched
    BY <1>1, <1>3 DEF NotAlone, Applications
  <2>. QED BY <1>1, <2>1 DEF ApplicationFits
<1>. QED BY <1>2, <1>3

\* A step of a call: its record changes, and the others are not alone.
LEMMA CallSteps ==
    ASSUME FilesInv, NEW u \in Appliers, NEW k \in Applications, Steps(u, k), ApplicationFits(k)',
           UNCHANGED <<active, outside>>, flags' \in [Folders -> FlagFiles], globals' \in GlobalFiles,
           globalsKept' \in GlobalFiles, fileFaults' \in Nat
    PROVE  FilesInv' /\ applying'[u] = k /\ \A v \in Appliers \ {u} : applying[v].at # "idle" => applying'[v].at # "idle"
<1>1. applying' = [v \in Appliers |-> IF v = u THEN k ELSE NotAlone(applying[v])]
  BY DEF Steps
<1>2. applying'[u] = k /\ \A v \in Appliers \ {u} : applying'[v] = NotAlone(applying[v])
  BY <1>1
<1>3. \A v \in Appliers : applying[v] \in Applications /\ ApplicationFits(applying[v])
  BY DEF FilesInv, FilesTyped
<1>4. applying' \in [Appliers -> Applications]
  BY <1>1, <1>3, OthersNotAlone
<1>5. \A v \in Appliers : ApplicationFits(applying[v])'
  BY <1>2, <1>3, OthersNotAlone DEF ApplicationFits
<1>6. \A v \in Appliers \ {u} : applying[v].at # "idle" => applying'[v].at # "idle"
  BY <1>2, <1>3 DEF NotAlone, Applications
<1>. QED BY <1>2, <1>4, <1>5, <1>6 DEF FilesInv, FilesTyped


FilesAct == OwnFlagsStay /\ VolumesStay /\ RefusalIsUndone

\* What RefusalIsUndone says of a call that ends.
EndsWell(u) ==
    /\ applying[u].at = "undo" \/ (applying[u].volume = Asked /\ globals'.volume # Asked)
    /\ applying[u].alone /\ ~ (applying[u].at = "undo" /\ fileFaults' # fileFaults)
    => flags'[active].cap = applying[u].before

LEMMA CallHolds ==
    ASSUME FilesInv, NEW u \in Appliers, NEW k \in Applications, Steps(u, k), ApplicationFits(k)',
           UNCHANGED <<active, outside>>, flags' \in [Folders -> FlagFiles], globals' \in GlobalFiles,
           globalsKept' \in GlobalFiles, fileFaults' \in Nat, OwnFlagsStay,
           globals'.volume = globals.volume \/ globals'.volume = Asked,
           k.at = "idle" => EndsWell(u)
    PROVE  FilesInv' /\ FilesAct
<1>1. FilesInv' /\ applying'[u] = k /\ \A v \in Appliers \ {u} : applying[v].at # "idle" => applying'[v].at # "idle"
  BY CallSteps
<1>2. RefusalIsUndone
  <2> SUFFICES ASSUME NEW v \in Appliers, applying[v].at # "idle", applying'[v].at = "idle",
                      applying[v].at = "undo" \/ (applying[v].volume = Asked /\ globals'.volume # Asked),
                      applying[v].alone, ~ (applying[v].at = "undo" /\ fileFaults' # fileFaults)
               PROVE  flags'[active].cap = applying[v].before
    BY <1>1 DEF RefusalIsUndone
  <2>1. v = u
    BY <1>1
  <2>2. k.at = "idle"
    BY <1>1, <2>1
  <2>. QED BY <2>1, <2>2 DEF EndsWell
<1>3. VolumesStay
  BY DEF VolumesStay
<1>. QED BY <1>1, <1>2, <1>3 DEF FilesAct

LEMMA CallRecord ==
    ASSUME FilesInv, NEW u \in Appliers
    PROVE  /\ applying[u] \in Applications /\ applying[u].cap \in Int /\ applying[u].before \in Int
           /\ applying[u].volume \in {0, Asked} /\ ApplicationFits(applying[u])
           /\ NotApplying \in Applications /\ NotApplying.at = "idle" /\ ApplicationFits(NotApplying)'
           /\ FilesTyped
<1>1. applying[u] \in Applications /\ ApplicationFits(applying[u]) /\ FilesTyped
  BY DEF FilesInv, FilesTyped
<1>2. applying[u].cap \in Int /\ applying[u].before \in Int /\ applying[u].volume \in {0, Asked}
  BY <1>1 DEF Applications
<1>3. NotApplying \in Applications /\ NotApplying.at = "idle" /\ ApplicationFits(NotApplying)'
  BY DEF NotApplying, Applications, Uncapped, ApplicationFits
<1>. QED BY <1>1, <1>2, <1>3

\* A call that has changed something goes on.
LEMMA CallGoesOn ==
    ASSUME FilesInv, NEW u \in Appliers, NEW at \in {"globals", "undo"}, After(u, at),
           at = "globals" => applying[u].volume = Asked
    PROVE  \E k \in Applications : Steps(u, k) /\ k.at = at /\ ApplicationFits(k)'
<1>1. PICK k : k = [applying[u] EXCEPT !.at = at, !.touched = TRUE]
  OBVIOUS
<1>2. k \in Applications /\ k.at = at /\ k.touched /\ k.volume = applying[u].volume
  BY <1>1, CallRecord DEF Applications
<1>3. Steps(u, k)
  BY <1>1 DEF After
<1>4. ApplicationFits(k)'
  BY <1>2 DEF ApplicationFits
<1>. QED BY <1>2, <1>3, <1>4

LEMMA ApplyCapHolds ==
    ASSUME FilesInv, NEW u \in Appliers, ApplyCap(u) \/ ApplyCapFails(u)
    PROVE  FilesInv' /\ FilesAct
<1>1. applying[u].at = "cap" /\ UNCHANGED <<active, outside>> /\ MethodFits
  BY CallRecord, SetFits, RemoveFits DEF ApplyCap, ApplyCapFails
<1>2. \/ applying[u].volume = 0 /\ ApplyEnds(u)
      \/ applying[u].volume # 0 /\ After(u, "globals")
      \/ After(u, "undo")
  BY DEF ApplyCap, ApplyCapFails
<1>3. CASE applying[u].volume = 0 /\ ApplyEnds(u)
  <2>1. EndsWell(u)
    BY <1>1, <1>3 DEF EndsWell, Asked
  <2>. QED BY <1>1, <1>3, <2>1, CallRecord, CallHolds DEF ApplyEnds, MethodFits
<1>4. CASE \/ applying[u].volume # 0 /\ After(u, "globals")
           \/ After(u, "undo")
  <2>1. PICK k \in Applications : Steps(u, k) /\ k.at \in {"globals", "undo"} /\ ApplicationFits(k)'
    BY <1>4, CallRecord, CallGoesOn
  <2>. QED BY <1>1, <2>1, CallHolds DEF MethodFits
<1>. QED BY <1>2, <1>3, <1>4

LEMMA ApplyGlobalsHolds ==
    ASSUME FilesInv, NEW u \in Appliers, ApplyGlobals(u) \/ ApplyGlobalsFails(u)
    PROVE  FilesInv' /\ FilesAct
<1>0. /\ applying[u].at = "globals" /\ UNCHANGED <<active, outside>> /\ LeavesFlags
      /\ applying[u].volume = Asked /\ globals \in GlobalFiles /\ globalsKept \in GlobalFiles /\ fileFaults \in Nat
      /\ flags' \in [Folders -> FlagFiles] /\ OwnFlagsStay /\ CopiedOnce \in GlobalFiles
  BY CallRecord, FlagsLeft
     DEF ApplyGlobals, ApplyGlobalsFails, ApplyGlobalSettings, ApplyGlobalSettingsFails, ApplicationFits, FilesTyped,
         CopiedOnce
<1>1. CASE ApplyGlobals(u)
  <2>0. PICK loud : loud = [globals EXCEPT !.volume = Asked]
    OBVIOUS
  <2>1. loud \in GlobalFiles /\ loud.volume = Asked
    BY <1>0, <2>0 DEF GlobalFiles, Asked
  <2>2. globals' = loud /\ globalsKept' = CopiedOnce /\ fileFaults' = fileFaults /\ ApplyEnds(u)
    BY <1>0, <1>1, <2>0 DEF ApplyGlobals, ApplyGlobalSettings
  <2>3. EndsWell(u)
    BY <1>0, <2>1, <2>2 DEF EndsWell
  <2>. QED BY <1>0, <2>1, <2>2, <2>3, CallRecord, CallHolds DEF ApplyEnds
<1>2. CASE ApplyGlobalsFails(u)
  <2>1. /\ globals' = globals /\ globalsKept' \in GlobalFiles /\ fileFaults' \in Nat
    BY <1>0, <1>2 DEF ApplyGlobalsFails, ApplyGlobalSettingsFails, LeavesGlobals, CopiesAtMost
  <2>2. CASE applying[u].touched
    <3>1. PICK k \in Applications : Steps(u, k) /\ k.at = "undo" /\ ApplicationFits(k)'
      BY <1>2, <2>2, CallGoesOn DEF ApplyGlobalsFails
    <3>. QED BY <1>0, <2>1, <3>1, CallHolds
  <2>3. CASE ~ applying[u].touched
    <3>1. ApplyEnds(u)
      BY <1>2, <2>3 DEF ApplyGlobalsFails
    <3>2. EndsWell(u)
      BY <1>0, <2>3, CallRecord DEF EndsWell, ApplicationFits, LeavesFlags
    <3>. QED BY <1>0, <2>1, <3>1, <3>2, CallRecord, CallHolds DEF ApplyEnds
  <2>. QED BY <2>2, <2>3
<1>. QED BY <1>1, <1>2

LEMMA UndoCapHolds ==
    ASSUME FilesInv, NEW u \in Appliers, UndoCap(u) \/ UndoCapFails(u)
    PROVE  FilesInv' /\ FilesAct
<1>1. applying[u].at = "undo" /\ UNCHANGED <<active, outside>> /\ ApplyEnds(u)
  BY DEF UndoCap, UndoCapFails
<1>2. MethodFits /\ (fileFaults' # fileFaults \/ flags'[active].cap = applying[u].before)
  <2>1. CASE UndoCap(u) /\ applying[u].before = Uncapped
    BY <2>1, CallRecord, RemoveFits DEF UndoCap
  <2>2. CASE UndoCap(u) /\ applying[u].before # Uncapped
    BY <2>2, CallRecord, SetFits DEF UndoCap
  <2>3. CASE UndoCapFails(u)
    BY <2>3, CallRecord, SetFits, RemoveFits DEF UndoCapFails
  <2>. QED BY <2>1, <2>2, <2>3
<1>3. EndsWell(u)
  BY <1>1, <1>2 DEF EndsWell
<1>. QED BY <1>1, <1>2, <1>3, CallRecord, CallHolds DEF ApplyEnds, MethodFits

LEMMA BeginHolds ==
    ASSUME FilesInv, NEW u \in Appliers, NEW cap \in Int, NEW volume \in {0, Asked}, BeginApply(u, cap, volume)
    PROVE  FilesInv' /\ FilesAct
<1>1. PICK at \in {"globals", "cap"} : at = IF cap = Keeps THEN "globals" ELSE "cap"
  OBVIOUS
<1>2. PICK k : k = [NotApplying EXCEPT !.at = at, !.cap = cap, !.volume = volume, !.before = flags[active].cap]
  OBVIOUS
<1>3. /\ applying[u].at = "idle" /\ (cap # Keeps \/ volume # 0) /\ applying' = [applying EXCEPT ![u] = k]
      /\ UNCHANGED <<flags, globals, globalsKept, active, fileFaults, outside>>
  BY <1>1, <1>2 DEF BeginApply
<1>4. flags[active].cap \in Int
  BY DEF FilesInv, FilesTyped, FlagFiles
<1>5. /\ k \in Applications /\ k.at = at /\ k.volume = volume /\ k.before = flags[active].cap /\ ~ k.touched
  BY <1>2, <1>4 DEF NotApplying, Applications, Uncapped
<1>6. ApplicationFits(k)'
  BY <1>1, <1>3, <1>5 DEF ApplicationFits
<1>7. applying'[u] = k /\ \A v \in Appliers \ {u} : applying'[v] = applying[v]
  BY <1>3 DEF FilesInv, FilesTyped
<1>8. FilesInv'
  <2>1. \A v \in Appliers : ApplicationFits(applying[v])'
    BY <1>3, <1>6, <1>7 DEF FilesInv, ApplicationFits
  <2>. QED BY <1>3, <1>5, <2>1 DEF FilesInv, FilesTyped
<1>9. FilesAct
  BY <1>3, <1>7 DEF FilesAct, OwnFlagsStay, VolumesStay, RefusalIsUndone
<1>. QED BY <1>8, <1>9

\* Somebody else changes the files: whoever is under way is no longer alone, and none of them ends.
LEMMA OthersHold ==
    ASSUME FilesInv, NobodyIsAlone, outside' \in Nat, active' \in Folders, flags' \in [Folders -> FlagFiles],
           globals' \in GlobalFiles, globalsKept' \in GlobalFiles, fileFaults' \in Nat, OwnFlagsStay,
           globals'.volume = globals.volume
    PROVE  FilesInv' /\ FilesAct
<1>1. \A v \in Appliers : applying[v] \in Applications /\ ApplicationFits(applying[v])
  BY DEF FilesInv, FilesTyped
<1>2. applying' \in [Appliers -> Applications] /\ \A v \in Appliers : applying'[v] = NotAlone(applying[v])
  BY <1>1, OthersNotAlone DEF NobodyIsAlone
<1>3. \A v \in Appliers : ApplicationFits(applying[v])'
  BY <1>1, <1>2, OthersNotAlone DEF ApplicationFits
<1>4. \A v \in Appliers : applying[v].at # "idle" => applying'[v].at # "idle"
  BY <1>1, <1>2 DEF NotAlone, Applications
<1>5. FilesInv'
  BY <1>2, <1>3 DEF FilesInv, FilesTyped
<1>6. FilesAct
  BY <1>4 DEF FilesAct, VolumesStay, RefusalIsUndone
<1>. QED BY <1>5, <1>6


LEMMA FilesBegin == ClientSettingsInit => FilesInv
<1> SUFFICES ASSUME ClientSettingsInit PROVE FilesInv
  OBVIOUS
<1>1. NotApplying \in Applications /\ NotApplying.at = "idle" /\ ApplicationFits(NotApplying)
  BY DEF NotApplying, Applications, Uncapped, ApplicationFits
<1>2. applying \in [Appliers -> Applications] /\ \A u \in Appliers : ApplicationFits(applying[u])
  BY <1>1 DEF ClientSettingsInit
<1>3. PICK own : own = [NoFlags EXCEPT !.there = TRUE, !.own = TRUE]
  OBVIOUS
<1>4. NoFlags \in FlagFiles /\ own \in FlagFiles
  <2>1. NoFlags = [there |-> FALSE, cap |-> -1, own |-> FALSE]
    BY DEF NoFlags, Uncapped
  <2>2. own = [there |-> TRUE, cap |-> -1, own |-> TRUE]
    BY <1>3, <2>1
  <2>. QED BY <2>1, <2>2 DEF FlagFiles
<1>5. flags \in [Folders -> FlagFiles]
  BY <1>3, <1>4 DEF ClientSettingsInit
<1>6. NoGlobals \in GlobalFiles
  BY DEF NoGlobals, GlobalFiles, Uncapped
<1>7. globals \in GlobalFiles /\ globalsKept \in GlobalFiles
  <2>1. CASE globals = NoGlobals
    BY <1>6, <2>1 DEF ClientSettingsInit
  <2>2. CASE globals \in [there : {TRUE}, cap : ClientCaps, volume : {1}]
    <3>1. PICK cap \in ClientCaps : globals = [there |-> TRUE, cap |-> cap, volume |-> 1]
      BY <2>2
    <3>2. cap \in Int
      BY ClientSettingsAssumption
    <3>. QED BY <1>6, <3>1, <3>2 DEF ClientSettingsInit, GlobalFiles
  <2>. QED BY <2>1, <2>2 DEF ClientSettingsInit
<1>. QED BY <1>2, <1>5, <1>7 DEF ClientSettingsInit, FilesInv, FilesTyped

LEMMA SavesHold ==
    ASSUME FilesInv, NEW cap \in ClientCaps, NEW volume \in Volumes, ClientSaves(cap, volume)
    PROVE  FilesInv' /\ FilesAct
<1>1. /\ UNCHANGED <<flags, globalsKept, active, applying, fileFaults>>
      /\ outside' = outside + 1 /\ outside \in Nat
  BY DEF ClientSaves, Outside, FilesInv, FilesTyped
<1>2. globals' \in GlobalFiles
  BY ClientSettingsAssumption DEF ClientSaves, GlobalFiles, Volumes
<1>3. \A u \in Appliers : ApplicationFits(applying[u])'
  BY <1>1 DEF FilesInv, ApplicationFits
<1>4. FilesInv'
  BY <1>1, <1>2, <1>3 DEF FilesInv, FilesTyped
<1>5. FilesAct
  BY <1>1 DEF FilesAct, OwnFlagsStay, VolumesStay, RefusalIsUndone
<1>. QED BY <1>4, <1>5

LEMMA FilesStep == FilesInv /\ [ClientSettingsNext]_clientFileVars => FilesInv' /\ FilesAct
<1> SUFFICES ASSUME FilesInv, [ClientSettingsNext]_clientFileVars PROVE FilesInv' /\ FilesAct
  OBVIOUS
<1>0. FrameCaps \subseteq Int /\ Keeps \in Int /\ Default \in Int /\ FilesTyped
  BY ClientSettingsAssumption DEF Keeps, Default, FilesInv
<1>1. ASSUME NEW u \in Appliers, NEW cap \in FrameCaps \union {Keeps, Default}, NEW volume \in {0, Asked},
             BeginApply(u, cap, volume)
      PROVE  FilesInv' /\ FilesAct
  BY <1>0, <1>1, BeginHolds
<1>2. ASSUME NEW u \in Appliers,
             \/ ApplyCap(u) \/ ApplyCapFails(u) \/ ApplyGlobals(u) \/ ApplyGlobalsFails(u)
             \/ UndoCap(u) \/ UndoCapFails(u)
      PROVE  FilesInv' /\ FilesAct
  BY <1>2, ApplyCapHolds, ApplyGlobalsHolds, UndoCapHolds
<1>3. ASSUME NEW cap \in FrameCaps \union {0}, LaunchPatches(cap) PROVE FilesInv' /\ FilesAct
  <2>1. MethodFits
    BY <1>0, <1>3, PatchFits DEF LaunchPatches
  <2>. QED BY <1>0, <1>3, <2>1, OthersHold DEF LaunchPatches, Outside, MethodFits, FilesTyped
<1>4. ASSUME NEW cap \in FrameCaps \union {0, Default}, ScreenSetsCap(cap) PROVE FilesInv' /\ FilesAct
  <2>1. MethodFits
    BY <1>0, <1>4, SetFits, RemoveFits DEF ScreenSetsCap
  <2>. QED BY <1>0, <1>4, <2>1, OthersHold DEF ScreenSetsCap, Outside, MethodFits, FilesTyped
<1>5. ASSUME NEW d \in Folders, RobloxUpdates(d) PROVE FilesInv' /\ FilesAct
  <2>1. OwnFlagsStay
    BY <1>5 DEF RobloxUpdates, OwnFlagsStay
  <2>. QED BY <1>0, <1>5, <2>1, OthersHold DEF RobloxUpdates, Outside, FilesTyped
<1>6. ASSUME UNCHANGED clientFileVars PROVE FilesInv' /\ FilesAct
  <2>1. UNCHANGED <<flags, globals, globalsKept, active, applying, fileFaults, outside>>
    BY <1>6 DEF clientFileVars
  <2>2. \A u \in Appliers : ApplicationFits(applying[u])'
    BY <2>1 DEF FilesInv, ApplicationFits
  <2>3. FilesInv'
    BY <2>1, <2>2 DEF FilesInv, FilesTyped
  <2>4. FilesAct
    BY <2>1 DEF FilesAct, OwnFlagsStay, VolumesStay, RefusalIsUndone
  <2>. QED BY <2>3, <2>4
<1>. QED BY <1>1, <1>2, <1>3, <1>4, <1>5, <1>6, SavesHold DEF ClientSettingsNext


-----------------------------------------------------------------------------
(* The layouts of the windows (module WindowLayouts).                       *)

Clients ==
    [there : BOOLEAN, owner : Owners \union {Unbound}, age : Int, shown : BOOLEAN, focused : BOOLEAN,
     spot : Spots \union {Opening}, moved : BOOLEAN]
Rounds ==
    [at : {"idle", "forget", "restore", "capture", "close"},
     seen : [ProcessIds -> [owner : Owners \union {Unbound}, age : Int]], new : SUBSET ProcessIds]
WindowsTyped ==
    /\ window \in [ProcessIds -> Clients] /\ layout \in [Owners -> Spots \union {Opening, NoSpot}]
    /\ remember \in BOOLEAN /\ known \subseteq ProcessIds /\ round \in Rounds

\* Who waits to be put back has a layout.
WaitFits(p) == toRestore[p] # NoneWaits => toRestore[p].owner \in Owners /\ layout[toRestore[p].owner] # NoSpot
BeingQueued(p) == round.at = "restore" /\ p \in round.new

\* Why the opening place of a window is not kept: the window has been moved, is not seen yet, waits to
\* be put back or is about to, or there is nothing to overwrite, or nothing is kept at all.
PlaceFollowed(p) ==
    /\ window[p].owner # Unbound
    /\ window[p].moved \/ window[p].spot = Opening
    /\ toRestore[p] # NoneWaits => toRestore[p].owner = window[p].owner
    /\ \/ window[p].moved \/ p \notin known \/ toRestore[p] # NoneWaits \/ BeingQueued(p)
       \/ layout[window[p].owner] \notin Spots \/ ~ remember

\* What a round has seen is of the clients that are still there.
RoundFits ==
    round.at # "idle" =>
        /\ There \subseteq known
        /\ \A p \in There : round.seen[p].owner = window[p].owner \/ (round.seen[p].owner = Unbound /\ p \in excused)
SwitchedExcuses ==
    (round.at \in {"restore", "capture"} /\ ~ remember) \/ (round.at = "forget" /\ remember) => There \subseteq excused
TwoExcused == \A p, q \in There : p # q /\ window[p].owner = window[q].owner => p \in excused

WindowInv ==
    /\ WindowsTyped /\ RoundFits /\ SwitchedExcuses /\ TwoExcused
    /\ \A p \in ProcessIds : WaitFits(p)
    /\ \A p \in There \ excused : PlaceFollowed(p)
WindowAct == LayoutIsKept /\ RestoredAsItsOwn

LEMMA NoRoundIs == NoRound \in Rounds /\ NoRound.at = "idle"
<1>1. NoRound = [at |-> "idle", seen |-> [p \in ProcessIds |-> [owner |-> Unbound, age |-> 0]], new |-> {}]
  BY DEF NoRound
<1>2. [p \in ProcessIds |-> [owner |-> Unbound, age |-> 0]]
        \in [ProcessIds -> [owner : Owners \union {Unbound}, age : Int]]
  OBVIOUS
<1>. QED BY <1>1, <1>2 DEF Rounds

LEMMA WindowsBegin == WindowInit => WindowInv
<1> SUFFICES ASSUME WindowInit PROVE WindowInv
  OBVIOUS
<1>1. NoClient \in Clients /\ ~ NoClient.there
  BY DEF NoClient, Clients, Unbound, Opening
<1>2. There = {}
  BY <1>1 DEF WindowInit, There
<1>3. WindowsTyped
  BY <1>1, NoRoundIs DEF WindowInit, WindowsTyped
<1>. QED BY <1>2, <1>3 DEF WindowInit, WindowInv, RoundFits, SwitchedExcuses, TwoExcused, WaitFits, NoRound

\* Nothing that a layout, a round or a restore depends on changes: a window may, if it was moved or
\* stays where it is.
LEMMA SameWindows ==
    ASSUME WindowInv, UNCHANGED <<layout, toRestore, remember, round, known>>, excused \subseteq excused',
           window' \in [ProcessIds -> Clients],
           \A p \in There' :
               /\ p \in There /\ window'[p].owner = window[p].owner
               /\ window[p].moved => window'[p].moved
               /\ window'[p].moved \/ window'[p].spot = window[p].spot
    PROVE  WindowInv'
<1>1. There' \subseteq There
  OBVIOUS
<1>2. WindowsTyped' /\ (\A p \in ProcessIds : WaitFits(p)')
  BY DEF WindowInv, WindowsTyped, WaitFits
<1>3. RoundFits' /\ SwitchedExcuses'
  BY <1>1 DEF WindowInv, RoundFits, SwitchedExcuses
<1>4. TwoExcused'
  BY <1>1 DEF WindowInv, TwoExcused
<1>5. ASSUME NEW p \in There' \ excused' PROVE PlaceFollowed(p)'
  <2>1. p \in There \ excused /\ PlaceFollowed(p)
    BY <1>1, <1>5 DEF WindowInv
  <2>2. /\ window'[p].owner = window[p].owner /\ window[p].moved => window'[p].moved
        /\ window'[p].moved \/ window'[p].spot = window[p].spot
    BY <1>5
  <2>. QED BY <2>1, <2>2 DEF PlaceFollowed, BeingQueued
<1>. QED BY <1>2, <1>3, <1>4, <1>5 DEF WindowInv

LEMMA QuietRound == WindowInv /\ UNCHANGED <<layout, round>> => WindowAct
BY WindowAssumption DEF WindowInv, WindowsTyped, WindowAct, LayoutIsKept, RestoredAsItsOwn, Opening

\* A window changes that stays where it is, or is moved on purpose.
LEMMA WindowChanges ==
    ASSUME WindowInv, NEW p \in ProcessIds, NEW w \in Clients, window' = [window EXCEPT ![p] = w],
           UNCHANGED <<layout, toRestore, remember, round, known, excused>>,
           w.there => /\ window[p].there /\ w.owner = window[p].owner /\ (window[p].moved => w.moved)
                      /\ w.moved \/ w.spot = window[p].spot
    PROVE  WindowInv' /\ WindowAct
<1>1. window' \in [ProcessIds -> Clients] /\ window'[p] = w /\ \A q \in ProcessIds \ {p} : window'[q] = window[q]
  BY DEF WindowInv, WindowsTyped
<1>2. \A q \in There' :
         /\ q \in There /\ window'[q].owner = window[q].owner
         /\ window[q].moved => window'[q].moved
         /\ window'[q].moved \/ window'[q].spot = window[q].spot
  BY <1>1 DEF There
<1>. QED BY <1>1, <1>2, SameWindows, QuietRound

LEMMA AWindowHolds ==
    ASSUME WindowInv, NEW p \in ProcessIds,
           \/ WindowEnds(p) \/ WindowShows(p) \/ UserFocuses(p) \/ ScreenRestores(p)
           \/ \E spot \in Spots : WindowMoves(p, spot)
    PROVE  WindowInv' /\ WindowAct
<1>0. window[p] \in Clients
  BY DEF WindowInv, WindowsTyped
<1>1. CASE WindowEnds(p)
  <2>1. NoClient \in Clients /\ ~ NoClient.there
    BY DEF NoClient, Clients, Unbound, Opening
  <2>. QED BY <1>1, <2>1, WindowChanges DEF WindowEnds
<1>2. CASE WindowShows(p)
  <2>1. PICK w : w = [window[p] EXCEPT !.shown = TRUE]
    OBVIOUS
  <2>2. /\ w \in Clients /\ w.there = window[p].there /\ w.owner = window[p].owner
        /\ w.moved = window[p].moved /\ w.spot = window[p].spot
    BY <1>0, <2>1 DEF Clients
  <2>3. window' = [window EXCEPT ![p] = w] /\ UNCHANGED <<layout, toRestore, remember, round, known, excused>>
    BY <1>2, <2>1 DEF WindowShows
  <2>. QED BY <2>2, <2>3, WindowChanges
<1>3. CASE UserFocuses(p)
  <2>1. PICK w : w = [window[p] EXCEPT !.focused = ~ window[p].focused]
    OBVIOUS
  <2>2. /\ w \in Clients /\ w.there = window[p].there /\ w.owner = window[p].owner
        /\ w.moved = window[p].moved /\ w.spot = window[p].spot
    BY <1>0, <2>1 DEF Clients
  <2>3. window' = [window EXCEPT ![p] = w] /\ UNCHANGED <<layout, toRestore, remember, round, known, excused>>
    BY <1>3, <2>1 DEF UserFocuses
  <2>. QED BY <2>2, <2>3, WindowChanges
<1>4. ASSUME NEW spot \in Spots \union {Opening},
             window' = [window EXCEPT ![p].spot = spot, ![p].moved = TRUE],
             UNCHANGED <<layout, toRestore, remember, round, known, excused>>
      PROVE  WindowInv' /\ WindowAct
  <2>1. PICK w : w = [window[p] EXCEPT !.spot = spot, !.moved = TRUE]
    OBVIOUS
  <2>2. w \in Clients /\ w.there = window[p].there /\ w.owner = window[p].owner /\ w.moved
    BY <1>0, <2>1 DEF Clients
  <2>3. window' = [window EXCEPT ![p] = w]
    BY <1>0, <1>4, <2>1 DEF WindowInv, WindowsTyped
  <2>. QED BY <1>4, <2>2, <2>3, WindowChanges
<1>5. CASE ScreenRestores(p)
  <2>1. layout[window[p].owner] \in Spots \union {Opening}
    BY <1>0, <1>5 DEF ScreenRestores, WindowInv, WindowsTyped, Clients
  <2>. QED BY <1>4, <1>5, <2>1 DEF ScreenRestores
<1>6. CASE \E spot \in Spots : WindowMoves(p, spot)
  BY <1>4, <1>6 DEF WindowMoves
<1>. QED BY <1>1, <1>2, <1>3, <1>5, <1>6

LEMMA OpensHold ==
    ASSUME WindowInv, NEW p \in ProcessIds, NEW owner \in Owners \union {Unbound}, ClientOpens(p, owner)
    PROVE  WindowInv' /\ WindowAct
<1>1. PICK w : w = [NoClient EXCEPT !.there = TRUE, !.owner = owner]
  OBVIOUS
<1>2. w \in Clients /\ w.there /\ w.owner = owner /\ ~ w.moved /\ w.spot = Opening
  <2>1. w = [there |-> TRUE, owner |-> owner, age |-> 0, shown |-> FALSE, focused |-> FALSE, spot |-> Opening,
             moved |-> FALSE]
    BY <1>1 DEF NoClient
  <2>. QED BY <2>1 DEF Clients, Opening
<1>3. /\ window' = [window EXCEPT ![p] = w] /\ p \notin There /\ round.at = "idle"
      /\ UNCHANGED <<layout, toRestore, remember, round, known>>
  BY <1>1 DEF ClientOpens, There
<1>4. /\ window' \in [ProcessIds -> Clients] /\ window'[p] = w
      /\ \A q \in ProcessIds \ {p} : window'[q] = window[q]
  BY <1>2, <1>3 DEF WindowInv, WindowsTyped
<1>5. There' = There \union {p} /\ There \subseteq ProcessIds
  BY <1>2, <1>4 DEF There
<1>6. \/ excused' = excused \union {p} \union ClientsOf(owner)
      \/ /\ excused' = excused \ {p} /\ ClientsOf(owner) = {} /\ owner # Unbound /\ p \notin known
         /\ toRestore[p] = NoneWaits
  BY DEF ClientOpens
<1>7. WindowsTyped' /\ RoundFits' /\ SwitchedExcuses' /\ (\A q \in ProcessIds : WaitFits(q)')
  BY <1>3, <1>4 DEF WindowInv, WindowsTyped, RoundFits, SwitchedExcuses, WaitFits
<1>8. TwoExcused'
  <2> SUFFICES ASSUME NEW q \in There', NEW r \in There', q # r, window'[q].owner = window'[r].owner
               PROVE  q \in excused'
    BY DEF TwoExcused
  <2>1. CASE q # p /\ r # p
    BY <1>4, <1>5, <1>6, <2>1 DEF WindowInv, TwoExcused
  <2>2. CASE q # p /\ r = p
    BY <1>2, <1>4, <1>5, <1>6, <2>2 DEF ClientsOf
  <2>3. CASE q = p
    <3>1. r \in ClientsOf(owner)
      BY <1>2, <1>4, <1>5, <2>3 DEF ClientsOf
    <3>. QED BY <1>6, <2>3, <3>1
  <2>. QED BY <2>1, <2>2, <2>3
<1>9. ASSUME NEW q \in There' \ excused' PROVE PlaceFollowed(q)'
  <2>1. CASE q = p
    BY <1>2, <1>3, <1>4, <1>6, <1>9, <2>1 DEF PlaceFollowed
  <2>2. CASE q # p
    <3>1. q \in There \ excused /\ window'[q] = window[q] /\ PlaceFollowed(q)
      BY <1>4, <1>5, <1>6, <1>9, <2>2 DEF WindowInv
    <3>. QED BY <1>3, <3>1 DEF PlaceFollowed, BeingQueued
  <2>. QED BY <2>1, <2>2
<1>. QED BY <1>3, <1>7, <1>8, <1>9, QuietRound DEF WindowInv

LEMMA BindsHold ==
    ASSUME WindowInv, NEW p \in ProcessIds, NEW owner \in Owners, BindClient(p, owner)
    PROVE  WindowInv' /\ WindowAct
<1>1. PICK w : w = [window[p] EXCEPT !.owner = owner]
  OBVIOUS
<1>2. /\ window' = [window EXCEPT ![p] = w] /\ p \in There /\ window[p].owner = Unbound
      /\ excused' = excused \union ClientsOf(owner) /\ UNCHANGED <<layout, toRestore, remember, round, known>>
  BY <1>1 DEF BindClient, There
<1>3. window[p] \in Clients /\ w \in Clients /\ w.there /\ w.owner = owner
  BY <1>1, <1>2 DEF WindowInv, WindowsTyped, Clients, There
<1>4. /\ window' \in [ProcessIds -> Clients] /\ window'[p] = w
      /\ \A q \in ProcessIds \ {p} : window'[q] = window[q]
  BY <1>2, <1>3 DEF WindowInv, WindowsTyped
<1>5. There' = There /\ p \in excused
  BY <1>2, <1>3, <1>4 DEF There, WindowInv, PlaceFollowed
<1>6. WindowsTyped' /\ SwitchedExcuses' /\ (\A q \in ProcessIds : WaitFits(q)')
  BY <1>2, <1>4, <1>5 DEF WindowInv, WindowsTyped, SwitchedExcuses, WaitFits
<1>7. RoundFits'
  BY <1>2, <1>4, <1>5 DEF WindowInv, RoundFits
<1>8. TwoExcused'
  <2> SUFFICES ASSUME NEW q \in There, NEW r \in There, q # r, window'[q].owner = window'[r].owner
               PROVE  q \in excused'
    BY <1>5 DEF TwoExcused
  <2>1. CASE q # p /\ r # p
    BY <1>2, <1>4, <1>5, <2>1 DEF WindowInv, TwoExcused, There
  <2>2. CASE q # p /\ r = p
    BY <1>2, <1>3, <1>4, <2>2 DEF ClientsOf, There
  <2>. QED BY <1>2, <1>5, <2>1, <2>2
<1>9. ASSUME NEW q \in There' \ excused' PROVE PlaceFollowed(q)'
  <2>1. q \in There \ excused /\ q # p /\ window'[q] = window[q] /\ PlaceFollowed(q)
    BY <1>2, <1>4, <1>5, <1>9 DEF WindowInv, There
  <2>. QED BY <1>2, <2>1 DEF PlaceFollowed, BeingQueued
<1>. QED BY <1>2, <1>6, <1>7, <1>8, <1>9, QuietRound DEF WindowInv

LEMMA TimeHolds ==
    ASSUME WindowInv, Remembers \/ TimeGoesBy \/ UNCHANGED windowVars
    PROVE  WindowInv' /\ WindowAct
<1>1. CASE Remembers
  <2>1. /\ excused' = excused \union There /\ There' = There /\ remember' = ~ remember
        /\ UNCHANGED <<window, layout, toRestore, round, known>>
    BY <1>1 DEF Remembers, There
  <2>2. WindowsTyped' /\ RoundFits' /\ SwitchedExcuses' /\ TwoExcused' /\ (\A p \in ProcessIds : WaitFits(p)')
    BY <2>1 DEF WindowInv, WindowsTyped, RoundFits, SwitchedExcuses, TwoExcused, WaitFits
  <2>. QED BY <2>1, <2>2, QuietRound DEF WindowInv
<1>2. CASE TimeGoesBy
  <2>1. UNCHANGED <<layout, toRestore, remember, round, known, excused>>
    BY <1>2 DEF TimeGoesBy
  <2>2. ASSUME NEW p \in ProcessIds
        PROVE  /\ window'[p] \in Clients /\ window'[p].there = window[p].there
               /\ window'[p].owner = window[p].owner /\ window'[p].moved = window[p].moved
               /\ window'[p].spot = window[p].spot
    <3>1. window[p] \in Clients
      BY DEF WindowInv, WindowsTyped
    <3>2. window'[p] = IF window[p].there THEN [window[p] EXCEPT !.age = @ + 1] ELSE window[p]
      BY <1>2 DEF TimeGoesBy
    <3>. QED BY <3>1, <3>2 DEF Clients
  <2>3. window' \in [ProcessIds -> Clients]
    BY <1>2, <2>2 DEF TimeGoesBy
  <2>. QED BY <2>1, <2>2, <2>3, SameWindows, QuietRound DEF There
<1>3. CASE UNCHANGED windowVars
  <2>1. UNCHANGED <<window, layout, toRestore, remember, round, known, excused>>
    BY <1>3 DEF windowVars
  <2>. QED BY <2>1, SameWindows, QuietRound DEF There, WindowInv, WindowsTyped
<1>. QED BY <1>1, <1>2, <1>3

\* A scan: what was not there before is about to be queued.
LEMMA ScanHolds == WindowInv /\ ScanClients => WindowInv' /\ WindowAct
<1> SUFFICES ASSUME WindowInv, ScanClients PROVE WindowInv' /\ WindowAct
  OBVIOUS
<1>1. PICK at : at = IF remember THEN "restore" ELSE "forget"
  OBVIOUS
<1>2. /\ round.at = "idle" /\ known' = There /\ UNCHANGED <<window, layout, toRestore, remember, excused>>
      /\ round' = [at |-> at, seen |-> [p \in ProcessIds |-> SeenAs(p)], new |-> There \ known]
  BY <1>1 DEF ScanClients
<1>3. /\ round'.at = at /\ round'.new = There \ known /\ There \subseteq ProcessIds /\ There' = There
      /\ \A p \in ProcessIds : round'.seen[p].owner = window[p].owner
  BY <1>2 DEF SeenAs, There
<1>4. WindowsTyped' /\ TwoExcused' /\ (\A p \in ProcessIds : WaitFits(p)')
  <2>1. \A p \in ProcessIds : SeenAs(p) \in [owner : Owners \union {Unbound}, age : Int]
    BY DEF SeenAs, WindowInv, WindowsTyped, Clients
  <2>2. round' \in Rounds
    BY <1>1, <1>2, <1>3, <2>1 DEF Rounds
  <2>. QED BY <1>2, <1>3, <2>2 DEF WindowInv, WindowsTyped, TwoExcused, WaitFits
<1>5. RoundFits' /\ SwitchedExcuses'
  BY <1>1, <1>2, <1>3 DEF RoundFits, SwitchedExcuses, WindowInv, WindowsTyped
<1>6. ASSUME NEW p \in There \ excused PROVE PlaceFollowed(p)'
  <2>1. PlaceFollowed(p)
    BY DEF WindowInv
  <2>2. p \notin known /\ remember => BeingQueued(p)'
    BY <1>1, <1>3 DEF BeingQueued
  <2>3. ~ BeingQueued(p)
    BY <1>2 DEF BeingQueued
  <2>. QED BY <1>2, <2>1, <2>2, <2>3 DEF PlaceFollowed
<1>7. WindowAct
  BY <1>1, <1>2, <1>3, WindowAssumption DEF WindowAct, LayoutIsKept, RestoredAsItsOwn, WindowInv, WindowsTyped, Opening
<1>. QED BY <1>2, <1>3, <1>4, <1>5, <1>6, <1>7 DEF WindowInv

LEMMA RoundGoesOn ==
    ASSUME WindowInv, NEW at \in {"capture", "close"}, NEW r, r = [round EXCEPT !.at = at]
    PROVE  r \in Rounds /\ r.at = at /\ r.seen = round.seen /\ r.new = round.new
BY DEF WindowInv, WindowsTyped, Rounds

LEMMA ForgetHolds == WindowInv /\ ForgetRestores => WindowInv' /\ WindowAct
<1> SUFFICES ASSUME WindowInv, ForgetRestores PROVE WindowInv' /\ WindowAct
  OBVIOUS
<1>1. PICK r : r = [round EXCEPT !.at = "close"]
  OBVIOUS
<1>2. /\ round.at = "forget" /\ round' = r /\ UNCHANGED <<window, layout, remember, known, excused>>
      /\ \A p \in ProcessIds : toRestore'[p] = NoneWaits
  BY <1>1 DEF ForgetRestores
<1>3. round'.at = "close" /\ round'.seen = round.seen /\ round'.new = round.new /\ There' = There /\ There \subseteq ProcessIds
      /\ round' \in Rounds
  <2>1. r \in Rounds /\ r.at = "close" /\ r.seen = round.seen /\ r.new = round.new
    BY <1>1, RoundGoesOn
  <2>. QED BY <1>2, <2>1 DEF There
<1>4. WindowsTyped' /\ TwoExcused' /\ (\A p \in ProcessIds : WaitFits(p)') /\ RoundFits' /\ SwitchedExcuses'
  BY <1>2, <1>3 DEF WindowInv, WindowsTyped, TwoExcused, WaitFits, RoundFits, SwitchedExcuses
<1>5. ASSUME NEW p \in There \ excused PROVE PlaceFollowed(p)'
  <2>1. PlaceFollowed(p) /\ ~ remember
    BY <1>2 DEF WindowInv, SwitchedExcuses, WindowsTyped
  <2>. QED BY <1>2, <1>3, <2>1 DEF PlaceFollowed
<1>6. WindowAct
  BY <1>2, <1>3, WindowAssumption DEF WindowAct, LayoutIsKept, RestoredAsItsOwn, WindowInv, WindowsTyped, Opening
<1>. QED BY <1>2, <1>3, <1>4, <1>5, <1>6 DEF WindowInv

\* What waits after the queue: for its own account, if its client is not excused.
LEMMA QueueFits ==
    ASSUME WindowInv, round.at = "restore", NEW p \in ProcessIds
    PROVE  /\ Queued[p] # NoneWaits => Queued[p].owner \in Owners /\ layout[Queued[p].owner] # NoSpot
           /\ p \in There \ excused =>
                 /\ Queued[p] # NoneWaits => Queued[p].owner = window[p].owner
                 /\ \/ window[p].moved \/ Queued[p] # NoneWaits
                    \/ layout[window[p].owner] \notin Spots \/ ~ remember
<1>1. PICK waiting : waiting = [owner |-> round.seen[p].owner, until |-> clock + RestoreTime]
  OBVIOUS
<1>2. /\ waiting.owner = round.seen[p].owner
      /\ Queued[p] = IF p \in round.new /\ round.seen[p].owner # Unbound /\ layout[round.seen[p].owner] # NoSpot
                     THEN waiting ELSE toRestore[p]
  BY <1>1 DEF Queued
<1>3. round.seen[p].owner \in Owners \union {Unbound}
  BY DEF WindowInv, WindowsTyped, Rounds
<1>4. Queued[p] # NoneWaits => Queued[p].owner \in Owners /\ layout[Queued[p].owner] # NoSpot
  BY <1>2, <1>3 DEF WindowInv, WaitFits
<1>5. ASSUME p \in There \ excused
      PROVE  /\ Queued[p] # NoneWaits => Queued[p].owner = window[p].owner
             /\ \/ window[p].moved \/ Queued[p] # NoneWaits
                \/ layout[window[p].owner] \notin Spots \/ ~ remember
  <2>1. round.seen[p].owner = window[p].owner /\ p \in known /\ PlaceFollowed(p)
    BY <1>5 DEF WindowInv, RoundFits
  <2>2. NoSpot \notin Spots /\ NoneWaits.owner = Unbound
    BY WindowAssumption DEF NoSpot, NoneWaits
  <2>3. CASE p \in round.new
    BY <1>2, <2>1, <2>2, <2>3 DEF PlaceFollowed
  <2>4. CASE p \notin round.new
    BY <1>2, <2>1, <2>4 DEF PlaceFollowed, BeingQueued
  <2>. QED BY <2>3, <2>4
<1>. QED BY <1>4, <1>5

LEMMA RestoreHolds == WindowInv /\ RestoreWindows => WindowInv' /\ WindowAct
<1> SUFFICES ASSUME WindowInv, RestoreWindows PROVE WindowInv' /\ WindowAct
  OBVIOUS
<1>1. PICK r : r = [round EXCEPT !.at = "capture"]
  OBVIOUS
<1>2. PICK late : late = {p \in ProcessIds : Queued[p] # NoneWaits /\ clock > Queued[p].until}
  OBVIOUS
<1>3. PICK done : done = {p \in ProcessIds \ late : Queued[p] # NoneWaits /\ Positioned(p)}
  OBVIOUS
<1>4. /\ round.at = "restore" /\ round' = r /\ UNCHANGED <<layout, remember, known>>
      /\ toRestore' = [p \in ProcessIds |-> IF p \in late \union done THEN NoneWaits ELSE Queued[p]]
      /\ window' = [p \in ProcessIds |-> IF p \in done
                      THEN [window[p] EXCEPT !.spot = layout[Queued[p].owner], !.moved = TRUE] ELSE window[p]]
      /\ excused' = excused \union late
  BY <1>1, <1>2, <1>3 DEF RestoreWindows
<1>5. round' \in Rounds /\ round'.at = "capture" /\ round'.seen = round.seen
  BY <1>1, <1>4, RoundGoesOn
<1>6. ASSUME NEW p \in ProcessIds
      PROVE  /\ window'[p] \in Clients /\ window'[p].there = window[p].there /\ window'[p].owner = window[p].owner
             /\ p \in done => window'[p].moved /\ window'[p].spot = layout[Queued[p].owner]
             /\ p \notin done => window'[p] = window[p]
  <2>1. window[p] \in Clients
    BY DEF WindowInv, WindowsTyped
  <2>2. CASE p \in done
    <3>1. PICK w : w = [window[p] EXCEPT !.spot = layout[Queued[p].owner], !.moved = TRUE]
      OBVIOUS
    <3>2. layout[Queued[p].owner] \in Spots \union {Opening}
      BY <1>3, <1>4, <2>2, QueueFits DEF WindowInv, WindowsTyped
    <3>3. /\ w \in Clients /\ w.there = window[p].there /\ w.owner = window[p].owner /\ w.moved
          /\ w.spot = layout[Queued[p].owner]
      BY <2>1, <3>1, <3>2 DEF Clients
    <3>. QED BY <1>4, <2>2, <3>1, <3>3
  <2>3. CASE p \notin done
    BY <1>4, <2>1, <2>3
  <2>. QED BY <2>2, <2>3
<1>7. window' \in [ProcessIds -> Clients] /\ There' = There /\ There \subseteq ProcessIds
  BY <1>4, <1>6 DEF There
<1>8. WindowsTyped'
  BY <1>4, <1>5, <1>7 DEF WindowInv, WindowsTyped
<1>9. RoundFits' /\ SwitchedExcuses' /\ TwoExcused'
  <2>1. (\A p \in There : window'[p].owner = window[p].owner) /\ excused \subseteq excused'
    BY <1>4, <1>6, <1>7
  <2>2. RoundFits'
    BY <1>4, <1>5, <1>7, <2>1 DEF WindowInv, RoundFits
  <2>3. SwitchedExcuses'
    BY <1>4, <1>5, <1>7, <2>1 DEF WindowInv, SwitchedExcuses
  <2>4. TwoExcused'
    BY <1>7, <2>1 DEF WindowInv, TwoExcused
  <2>. QED BY <2>2, <2>3, <2>4
<1>10. ASSUME NEW p \in ProcessIds PROVE WaitFits(p)'
  BY <1>4, QueueFits DEF WaitFits
<1>11. ASSUME NEW p \in There \ excused' PROVE PlaceFollowed(p)'
  <2>1. p \in There \ excused /\ PlaceFollowed(p) /\ p \notin late /\ p \in ProcessIds
    BY <1>4, <1>7, <1>11 DEF WindowInv
  <2>2. /\ Queued[p] # NoneWaits => Queued[p].owner = window[p].owner
        /\ \/ window[p].moved \/ Queued[p] # NoneWaits
           \/ layout[window[p].owner] \notin Spots \/ ~ remember
    BY <1>4, <2>1, QueueFits
  <2>3. CASE p \in done
    BY <1>4, <1>6, <2>1, <2>3 DEF PlaceFollowed
  <2>4. CASE p \notin done
    <3>1. toRestore'[p] = Queued[p] /\ window'[p] = window[p]
      BY <1>4, <1>6, <2>1, <2>4
    <3>. QED BY <1>4, <2>1, <2>2, <3>1 DEF PlaceFollowed
  <2>. QED BY <2>3, <2>4
<1>12. WindowAct
  <2>1. RestoredAsItsOwn
    <3> SUFFICES ASSUME NEW p \in There \ excused, window'[p].spot # window[p].spot
                 PROVE  \E a \in Owners : window[p].owner = a /\ window'[p].spot = layout[a]
      BY DEF RestoredAsItsOwn
    <3>1. p \in done /\ Queued[p] # NoneWaits
      BY <1>3, <1>6, <1>7
    <3>. QED BY <1>4, <1>6, <1>7, <3>1, QueueFits
  <2>2. LayoutIsKept
    BY <1>4, WindowAssumption DEF LayoutIsKept, Opening
  <2>. QED BY <2>1, <2>2 DEF WindowAct
<1>. QED BY <1>7, <1>8, <1>9, <1>10, <1>11, <1>12 DEF WindowInv

LEMMA CaptureHolds == WindowInv /\ CaptureWindows => WindowInv' /\ WindowAct
<1> SUFFICES ASSUME WindowInv, CaptureWindows PROVE WindowInv' /\ WindowAct
  OBVIOUS
<1>1. PICK r : r = [round EXCEPT !.at = "close"]
  OBVIOUS
<1>2. /\ round.at = "capture" /\ round' = r /\ UNCHANGED <<window, toRestore, remember, known, excused>>
      /\ layout' \in [Owners -> Spots \union {Opening, NoSpot}]
      /\ \A a \in Owners : IF Captured(a) = {} THEN layout'[a] = layout[a]
                           ELSE \E p \in Captured(a) : layout'[a] = window[p].spot
  BY <1>1 DEF CaptureWindows
<1>3. round' \in Rounds /\ round'.at = "close" /\ round'.seen = round.seen /\ There' = There /\ There \subseteq ProcessIds
  BY <1>1, <1>2, RoundGoesOn DEF There
\* Whoever is captured is there, and has the account the round has seen.
<1>4. ASSUME NEW a \in Owners, NEW p \in Captured(a)
      PROVE  p \in There /\ window[p].owner = a /\ toRestore[p] = NoneWaits /\ p \in known /\ window[p] \in Clients
  <2>1. p \in There /\ round.seen[p].owner = a /\ a # Unbound /\ toRestore[p] = NoneWaits
    BY DEF Captured, MayCapture, Positioned, There
  <2>. QED BY <1>2, <2>1 DEF WindowInv, RoundFits, WindowsTyped, There
<1>5. WindowsTyped' /\ RoundFits' /\ SwitchedExcuses' /\ TwoExcused'
  BY <1>2, <1>3 DEF WindowInv, WindowsTyped, RoundFits, SwitchedExcuses, TwoExcused
<1>6. ASSUME NEW a \in Owners, layout[a] # NoSpot PROVE layout'[a] # NoSpot
  <2>1. NoSpot \notin Spots \union {Opening}
    BY WindowAssumption DEF NoSpot, Opening
  <2>. QED BY <1>2, <1>4, <1>6, <2>1 DEF Clients
<1>7. ASSUME NEW p \in ProcessIds PROVE WaitFits(p)'
  BY <1>2, <1>6 DEF WindowInv, WaitFits
<1>8. ASSUME NEW p \in There \ excused PROVE PlaceFollowed(p)'
  <2>1. PlaceFollowed(p) /\ window[p].owner \in Owners /\ p \in known
    BY <1>2, <1>3 DEF WindowInv, WindowsTyped, Clients, PlaceFollowed, RoundFits
  <2>2. PICK a \in Owners : a = window[p].owner
    BY <2>1
  <2>3. CASE layout'[a] \in Spots /\ layout[a] \notin Spots
    <3>1. PICK q \in Captured(a) : layout'[a] = window[q].spot
      BY <1>2, <2>3
    <3>2. q = p
      BY <1>4, <2>2, <1>8 DEF WindowInv, TwoExcused
    <3>3. window[p].spot # Opening
      BY <2>3, <3>1, <3>2, WindowAssumption DEF Opening
    <3>. QED BY <1>2, <2>1, <3>3 DEF PlaceFollowed
  <2>4. CASE ~ (layout'[a] \in Spots /\ layout[a] \notin Spots)
    BY <1>2, <1>3, <2>1, <2>2, <2>4 DEF PlaceFollowed, BeingQueued
  <2>. QED BY <2>3, <2>4
<1>9. LayoutIsKept
  <2> SUFFICES ASSUME NEW a \in Owners, layout[a] \in Spots, layout'[a] = Opening
               PROVE  \E p \in There : window[p].owner = a /\ (p \in excused \/ window'[p].moved)
    BY DEF LayoutIsKept
  <2>1. PICK p \in Captured(a) : layout'[a] = window[p].spot
    BY <1>2, WindowAssumption DEF Opening
  <2>2. p \in There /\ window[p].owner = a /\ toRestore[p] = NoneWaits /\ p \in known
    BY <1>4
  <2>3. p \notin excused => PlaceFollowed(p) /\ remember
    BY <1>2, <2>2 DEF WindowInv, SwitchedExcuses, WindowsTyped
  <2>4. p \notin excused => window[p].moved
    BY <1>2, <2>2, <2>3 DEF PlaceFollowed, BeingQueued
  <2>. QED BY <1>2, <2>2, <2>4
<1>10. WindowAct
  BY <1>2, <1>9 DEF WindowAct, RestoredAsItsOwn
<1>. QED BY <1>2, <1>3, <1>5, <1>7, <1>8, <1>10 DEF WindowInv

LEMMA ClosesHold == WindowInv /\ CloseByRules => WindowInv' /\ WindowAct
<1> SUFFICES ASSUME WindowInv, CloseByRules PROVE WindowInv' /\ WindowAct
  OBVIOUS
<1>1. PICK closed \in SUBSET ProcessIds :
         window' = [p \in ProcessIds |-> IF p \in closed THEN NoClient ELSE window[p]]
  BY DEF CloseByRules
<1>2. /\ round.at = "close" /\ round' = NoRound /\ UNCHANGED <<layout, toRestore, remember, known, excused>>
  BY DEF CloseByRules
<1>3. NoClient \in Clients /\ ~ NoClient.there
  BY DEF NoClient, Clients, Unbound, Opening
<1>4. /\ window' \in [ProcessIds -> Clients]
      /\ \A p \in There' : p \in There /\ p \in ProcessIds /\ window'[p] = window[p]
  BY <1>1, <1>3 DEF WindowInv, WindowsTyped, There
<1>5. WindowsTyped' /\ RoundFits' /\ SwitchedExcuses' /\ TwoExcused' /\ (\A p \in ProcessIds : WaitFits(p)')
  BY <1>2, <1>4, NoRoundIs DEF WindowInv, WindowsTyped, RoundFits, SwitchedExcuses, TwoExcused, WaitFits
<1>6. ASSUME NEW p \in There' \ excused' PROVE PlaceFollowed(p)'
  <2>1. p \in There \ excused /\ window'[p] = window[p] /\ PlaceFollowed(p)
    BY <1>2, <1>4, <1>6 DEF WindowInv
  <2>. QED BY <1>2, <2>1 DEF PlaceFollowed, BeingQueued
<1>7. WindowAct
  BY <1>2, WindowAssumption DEF WindowAct, LayoutIsKept, RestoredAsItsOwn, Opening
<1>. QED BY <1>5, <1>6, <1>7 DEF WindowInv

\* A screen saves where the window is: it counts as moved, and the client of no other account has it.
LEMMA SavesHolds ==
    ASSUME WindowInv, NEW p \in ProcessIds, ScreenSaves(p)
    PROVE  WindowInv' /\ WindowAct
<1>1. PICK a \in Owners : a = window[p].owner
  BY DEF ScreenSaves, WindowInv, WindowsTyped, Clients
<1>2. PICK w : w = [window[p] EXCEPT !.moved = TRUE]
  OBVIOUS
<1>3. /\ window[p] \in Clients /\ w \in Clients /\ w.there = window[p].there /\ w.owner = a
      /\ w.moved /\ w.spot = window[p].spot
  <2>1. window[p] \in Clients
    BY DEF WindowInv, WindowsTyped
  <2>. QED BY <1>1, <1>2, <2>1 DEF Clients
<1>4. /\ p \in There /\ window' = [window EXCEPT ![p] = w] /\ layout' = [layout EXCEPT ![a] = window[p].spot]
      /\ UNCHANGED <<toRestore, remember, round, known, excused>>
  <2>1. window' = [window EXCEPT ![p] = w]
    BY <1>2, <1>3 DEF ScreenSaves, WindowInv, WindowsTyped
  <2>. QED BY <1>1, <2>1 DEF ScreenSaves, Positioned, There
<1>5. /\ window' \in [ProcessIds -> Clients] /\ window'[p] = w
      /\ \A q \in ProcessIds \ {p} : window'[q] = window[q]
  BY <1>3, <1>4 DEF WindowInv, WindowsTyped
<1>6. /\ layout' \in [Owners -> Spots \union {Opening, NoSpot}] /\ layout'[a] = window[p].spot
      /\ \A b \in Owners \ {a} : layout'[b] = layout[b]
  BY <1>3, <1>4 DEF WindowInv, WindowsTyped, Clients
<1>7. There' = There /\ There \subseteq ProcessIds
  BY <1>3, <1>5 DEF There
<1>8. WindowsTyped' /\ SwitchedExcuses'
  BY <1>4, <1>5, <1>6, <1>7 DEF WindowInv, WindowsTyped, SwitchedExcuses
<1>9. \A q \in ProcessIds : window'[q].owner = window[q].owner
  BY <1>1, <1>3, <1>5
<1>10. RoundFits' /\ TwoExcused'
  BY <1>4, <1>7, <1>9 DEF WindowInv, RoundFits, TwoExcused
<1>11. ASSUME NEW q \in ProcessIds PROVE WaitFits(q)'
  <2>1. NoSpot \notin Spots \union {Opening}
    BY WindowAssumption DEF NoSpot, Opening
  <2>2. \A b \in Owners : layout[b] # NoSpot => layout'[b] # NoSpot
    BY <1>3, <1>6, <2>1 DEF Clients
  <2>. QED BY <1>4, <2>2 DEF WindowInv, WaitFits
<1>12. ASSUME NEW q \in There \ excused PROVE PlaceFollowed(q)'
  <2>1. PlaceFollowed(q) /\ q \in ProcessIds
    BY <1>7 DEF WindowInv
  <2>2. CASE q = p
    BY <1>1, <1>3, <1>4, <1>5, <2>1, <2>2 DEF PlaceFollowed
  <2>3. CASE q # p
    <3>1. window[q].owner # a /\ window[q].owner \in Owners
      BY <1>1, <1>4, <2>1, <2>3, <1>12 DEF WindowInv, TwoExcused, WindowsTyped, Clients, PlaceFollowed
    <3>2. window'[q] = window[q] /\ layout'[window[q].owner] = layout[window[q].owner]
      BY <1>5, <1>6, <2>1, <2>3, <3>1
    <3>. QED BY <1>4, <2>1, <3>2 DEF PlaceFollowed, BeingQueued
  <2>. QED BY <2>2, <2>3
<1>13. WindowAct
  <2>1. LayoutIsKept
    <3> SUFFICES ASSUME NEW b \in Owners, layout[b] \in Spots, layout'[b] = Opening
                 PROVE  \E q \in There : window[q].owner = b /\ (q \in excused \/ window'[q].moved)
      BY DEF LayoutIsKept
    <3>1. b = a
      BY <1>6, WindowAssumption DEF Opening
    <3>. QED BY <1>1, <1>3, <1>4, <1>5, <3>1
  <2>. QED BY <1>4, <2>1 DEF WindowAct, RestoredAsItsOwn
<1>. QED BY <1>4, <1>7, <1>8, <1>10, <1>11, <1>12, <1>13 DEF WindowInv

LEMMA WindowStep == WindowInv /\ [WindowNext]_windowVars => WindowInv' /\ WindowAct
BY AWindowHolds, OpensHold, BindsHold, TimeHolds, ScanHolds, ForgetHolds, RestoreHolds, CaptureHolds, ClosesHold,
   SavesHolds DEF WindowNext

(***************************************************************************)
(* The files of an update.                                                 *)
(***************************************************************************)

DownloadRecord == [pc : {"idle", "writing", "written", "staged"}, release : Releases \cup {NoFile}]

HelperPlaces ==
    {"none", "waits", "copying", "copied", "checked", "saving", "saved", "moving", "moved", "cleaned", "tidied"}

HelperRecord == [pc : HelperPlaces, digest : Releases \cup {NoFile}]

\* What always holds, whoever is at work: types, and that nothing noted of a staged file is torn.
UpdateTyped ==
    /\ published \in Releases /\ running \in Releases \cup {NoFile}
    /\ files \in [UpdateFile -> FileContent]
    /\ download \in [Downloaders -> DownloadRecord]
    /\ helper \in [Helpers -> HelperRecord]

NotesFit == files["manifest"] # Torn /\ files["pending"] # Torn

\* The rest holds as long as one helper at most is at work: this one.
OneHelper == \A g, h \in Helpers : helper[g] # NoHelper /\ helper[h] # NoHelper => g = h

TheHelper(f) ==
    IF \E h \in Helpers : f[h] # NoHelper THEN f[CHOOSE h \in Helpers : f[h] # NoHelper] ELSE NoHelper

Worker == TheHelper(helper)

\* A content that is whole is no older than the executable and than what the helper installs.
Newer(c) == c \in Releases => c >= files["target"] /\ c >= Worker.digest

BeforeMove == {"waits", "copying", "copied", "checked", "saving", "saved"}
AfterMove == {"moved", "cleaned", "tidied"}

\* Nothing is newer than what was published.
OnlyPublished ==
    /\ UpdateTyped
    /\ \A f \in UpdateFile : files[f] <= published
    /\ \A d \in Downloaders : download[d].release <= published
    /\ Worker.digest <= published

\* The executable that runs is the one at its place, and only the move leaves none there.
TargetFits ==
    /\ running # NoFile => running = files["target"]
    /\ Worker.pc \in BeforeMove \cup AfterMove => Whole("target")
    /\ Whole("target") \/ Whole("backup")

\* The helper installs what was checked, over what it has saved, and never something older.
HelperFits ==
    /\ Worker.pc # "none" => Worker.digest \in Releases /\ Worker.digest >= files["target"]
    /\ Worker.pc \in {"checked", "saving", "saved", "moving"} => files["incoming"] = Worker.digest
    /\ Worker.pc = "saved" => files["backup"] = files["target"]
    /\ Worker.pc = "moving" => /\ running = NoFile /\ files["target"] = NoFile
                               /\ Whole("backup") /\ files["backup"] <= Worker.digest

\* What is staged, and what a download in progress can still stage, is not older; what is
\* noted of it is never torn.
DownloadsFit ==
    /\ files["manifest"] # Torn /\ files["pending"] # Torn
    /\ Newer(files["staged"])
    /\ \A d \in Downloaders : download[d].pc # "idle" =>
          /\ running # NoFile /\ download[d].release \in Releases
          /\ Newer(download[d].release) /\ Newer(files["part"])

UpdateInv == OneHelper /\ OnlyPublished /\ TargetFits /\ HelperFits /\ DownloadsFit

UpdateKept == UpdateTyped /\ NotesFit /\ together \in 0..MaxTogether /\ (together = 0 => UpdateInv)

-----------------------------------------------------------------------------

LEMMA ReleaseNumbers ==
    /\ NoFile = 0 /\ Torn = -1 /\ NoFile \notin Releases /\ Torn \notin Releases /\ 1 \in Releases
    /\ Releases \subseteq Nat /\ \A r \in Releases : r >= 1
    /\ \A c \in FileContent : c \in Int /\ (c \in Releases \/ c = NoFile \/ c = Torn)
    /\ Releases \cup {NoFile} \subseteq FileContent
BY UpdaterAssumption DEF NoFile, Torn, Releases, FileContent

LEMMA UpdateFiles ==
    UpdateFile = {"part", "staged", "manifest", "pending", "incoming", "target", "backup"}
BY DEF UpdateFile

\* One file has another content.
LEMMA FilePut ==
    ASSUME UpdateTyped, NEW f \in UpdateFile, NEW c \in FileContent, Puts(f, c)
    PROVE  /\ files' \in [UpdateFile -> FileContent] /\ files'[f] = c
           /\ \A g \in UpdateFile \ {f} : files'[g] = files[g]
BY DEF UpdateTyped, Puts

\* Who is at work.
LEMMA OneIsAtWork ==
    ASSUME NEW f, NEW h \in Helpers, f[h] # NoHelper, \A g \in Helpers : f[g] # NoHelper => g = h
    PROVE  TheHelper(f) = f[h]
<1>1. (CHOOSE g \in Helpers : f[g] # NoHelper) = h
  OBVIOUS
<1>. QED BY <1>1 DEF TheHelper

LEMMA NoneIsAtWork ==
    ASSUME NEW f, \A g \in Helpers : f[g] = NoHelper
    PROVE  TheHelper(f) = NoHelper
BY DEF TheHelper

LEMMA SameHelpers ==
    ASSUME helper' = helper, OneHelper
    PROVE  Worker' = Worker /\ OneHelper'
BY DEF Worker, OneHelper

LEMMA UpdaterStart == UpdaterInit => UpdateInv
<1> SUFFICES ASSUME UpdaterInit PROVE UpdateInv
  OBVIOUS
<1>. USE ReleaseNumbers
<1>1. /\ files \in [UpdateFile -> FileContent] /\ files["target"] = 1 /\ running = 1 /\ published = 1
      /\ \A f \in UpdateFile : f # "target" => files[f] = NoFile
  BY DEF UpdaterInit, FileContent, UpdateFile
<1>2. /\ helper \in [Helpers -> HelperRecord] /\ OneHelper
      /\ Worker = NoHelper /\ Worker.pc = "none" /\ Worker.digest = NoFile
  <2>1. \A h \in Helpers : helper[h] = NoHelper
    BY DEF UpdaterInit
  <2>2. Worker = NoHelper
    BY <2>1, NoneIsAtWork DEF Worker
  <2>. QED BY <2>1, <2>2 DEF UpdaterInit, OneHelper, NoHelper, HelperRecord, HelperPlaces
<1>3. download = [d \in Downloaders |-> NoDownload] /\ NoDownload.pc = "idle" /\ NoDownload.release = NoFile
  BY DEF UpdaterInit, NoDownload
<1>4. OnlyPublished
  <2>1. UpdateTyped
    BY <1>1, <1>2, <1>3 DEF UpdateTyped, NoDownload, DownloadRecord
  <2>. QED BY <1>1, <1>2, <1>3, <2>1 DEF OnlyPublished
<1>5. TargetFits /\ HelperFits
  BY <1>1, <1>2 DEF TargetFits, HelperFits, Whole, UpdateFile, BeforeMove, AfterMove
<1>6. DownloadsFit
  BY <1>1, <1>2, <1>3, UpdateFiles DEF DownloadsFit, Newer
<1>. QED BY <1>2, <1>4, <1>5, <1>6 DEF UpdateInv

\* What the variables of an update are.
LEMMA UpdateKinds ==
    ASSUME UpdateInv
    PROVE  /\ UpdateTyped /\ published \in Releases /\ running \in Releases \cup {NoFile}
           /\ files \in [UpdateFile -> FileContent] /\ \A f \in UpdateFile : files[f] \in FileContent
           /\ download \in [Downloaders -> DownloadRecord]
           /\ \A d \in Downloaders : download[d].release \in FileContent
           /\ helper \in [Helpers -> HelperRecord] /\ OneHelper
           /\ Worker \in HelperRecord /\ Worker.digest \in FileContent
<1>1. UpdateTyped /\ OneHelper
  BY DEF UpdateInv, OnlyPublished
<1>2. NoHelper \in HelperRecord
  BY DEF NoHelper, HelperRecord, HelperPlaces
<1>3. Worker \in HelperRecord
  <2>1. CASE \A h \in Helpers : helper[h] = NoHelper
    BY <1>2, <2>1, NoneIsAtWork DEF Worker
  <2>2. ASSUME NEW h \in Helpers, helper[h] # NoHelper PROVE Worker \in HelperRecord
    BY <1>1, <2>2, OneIsAtWork DEF Worker, OneHelper, UpdateTyped
  <2>. QED BY <2>1, <2>2
<1>. QED BY <1>1, <1>3, ReleaseNumbers DEF UpdateTyped, DownloadRecord, HelperRecord

\* The executable at its place may be started, and a release may appear.
LEMMA OutsideStep ==
    ASSUME UpdateInv, PublishRelease \/ StartApplication
    PROVE  UpdateInv'
<1>. USE ReleaseNumbers
<1>1. /\ UNCHANGED <<files, download, helper>> /\ published' \in Releases /\ published <= published'
      /\ Worker' = Worker /\ OneHelper'
  BY UpdaterAssumption, SameHelpers DEF UpdateInv, OnlyPublished, UpdateTyped, PublishRelease, StartApplication, Releases
<1>2. \/ running' = running
      \/ running = NoFile /\ Whole("target") /\ running' = files["target"]
  BY DEF PublishRelease, StartApplication
<1>3. running' \in Releases \cup {NoFile}
  BY <1>2 DEF UpdateInv, OnlyPublished, UpdateTyped, Whole
<1>4. OnlyPublished'
  <2>1. UpdateTyped'
    BY <1>1, <1>3 DEF UpdateInv, OnlyPublished, UpdateTyped
  <2>2. \A c \in FileContent : c <= published => c <= published'
    BY <1>1 DEF UpdateInv, OnlyPublished, UpdateTyped
  <2>3. /\ Worker.digest \in FileContent /\ \A f \in UpdateFile : files[f] \in FileContent
        /\ \A d \in Downloaders : download[d].release \in FileContent
    BY UpdateKinds
  <2>. QED BY <1>1, <2>1, <2>2, <2>3 DEF UpdateInv, OnlyPublished
<1>5. TargetFits'
  BY <1>1, <1>2 DEF UpdateInv, TargetFits, Whole
<1>6. HelperFits'
  BY <1>1, <1>2 DEF UpdateInv, HelperFits, Whole
<1>7. DownloadsFit'
  BY <1>1, <1>2 DEF UpdateInv, DownloadsFit, Newer
<1>. QED BY <1>1, <1>4, <1>5, <1>6, <1>7 DEF UpdateInv

\* Files that were published keep the bounds.
LEMMA BoundsStay ==
    ASSUME UpdateInv, UNCHANGED <<published, helper>>, Worker' = Worker,
           files' \in [UpdateFile -> FileContent], \A f \in UpdateFile : files'[f] <= published,
           download' \in [Downloaders -> DownloadRecord], running' \in Releases \cup {NoFile},
           \A d \in Downloaders : download'[d].release <= published
    PROVE  OnlyPublished'
BY DEF UpdateInv, OnlyPublished, UpdateTyped, DownloadRecord

\* A download, and what is scheduled, do not concern the helper.
LEMMA InstallStays ==
    ASSUME UpdateInv, running' = running, Worker' = Worker,
           \A f \in {"target", "incoming", "backup"} : files'[f] = files[f]
    PROVE  TargetFits' /\ HelperFits'
<1>1. /\ files'["target"] = files["target"] /\ files'["incoming"] = files["incoming"]
      /\ files'["backup"] = files["backup"]
  OBVIOUS
<1>2. TargetFits'
  BY <1>1 DEF UpdateInv, TargetFits, Whole
<1>3. HelperFits'
  BY <1>1 DEF UpdateInv, HelperFits, Whole
<1>. QED BY <1>2, <1>3

\* A call of download_latest goes to another place.
LEMMA CallMoves ==
    ASSUME UpdateInv, NEW d \in Downloaders, NEW pc \in {"idle", "writing", "written", "staged"},
           NEW r \in Releases \cup {NoFile}, Call(d, pc, r)
    PROVE  /\ download' \in [Downloaders -> DownloadRecord]
           /\ download'[d].pc = pc /\ download'[d].release = r
           /\ \A e \in Downloaders \ {d} : download'[e] = download[e]
BY UpdateKinds DEF Call, DownloadRecord

\* No file and a torn one are not new, and not too new.
LEMMA NothingThere ==
    ASSUME UpdateInv
    PROVE  /\ published <= published /\ NoFile <= published /\ Torn <= published
           /\ Newer(NoFile) /\ Newer(Torn)
<1>1. published \in Nat /\ published >= 1
  BY UpdateKinds, ReleaseNumbers
<1>2. NoFile = 0 /\ Torn = -1
  BY ReleaseNumbers
<1>3. published <= published /\ NoFile <= published /\ Torn <= published
  BY <1>1, <1>2
<1>4. Newer(NoFile) /\ Newer(Torn)
  BY ReleaseNumbers DEF Newer
<1>. QED BY <1>3, <1>4

\* A call that goes on stages nothing old, whatever the .part file holds by now.
LEMMA DownloadGoesOn ==
    ASSUME UpdateInv, UNCHANGED <<published, running, helper>>, running # NoFile,
           NEW d \in Downloaders, NEW pc \in {"idle", "writing", "written", "staged"},
           NEW r \in Releases \cup {NoFile}, Call(d, pc, r), r <= published,
           pc # "idle" => r \in Releases /\ Newer(r),
           files' \in [UpdateFile -> FileContent], \A f \in UpdateFile : files'[f] <= published,
           \A f \in {"target", "incoming", "backup"} : files'[f] = files[f],
           Newer(files'["staged"]), Newer(files'["part"]),
           files'["manifest"] # Torn, files'["pending"] # Torn
    PROVE  UpdateInv'
<1>0. Worker' = Worker /\ OneHelper'
  BY SameHelpers, UpdateKinds
<1>1. /\ download' \in [Downloaders -> DownloadRecord]
      /\ download'[d].pc = pc /\ download'[d].release = r
      /\ \A e \in Downloaders \ {d} : download'[e] = download[e]
  BY CallMoves
<1>2. OnlyPublished'
  BY <1>0, <1>1, BoundsStay, UpdateKinds DEF UpdateInv, OnlyPublished
<1>3. TargetFits' /\ HelperFits'
  BY <1>0, InstallStays
<1>4. DownloadsFit'
  <2>1. files'["target"] = files["target"] /\ running' # NoFile
    OBVIOUS
  <2>. QED BY <1>0, <1>1, <2>1 DEF UpdateInv, DownloadsFit, Newer
<1>. QED BY <1>0, <1>2, <1>3, <1>4 DEF UpdateInv

LEMMA BeginDownloadStep ==
    ASSUME UpdateInv, NEW d \in Downloaders, BeginDownload(d)
    PROVE  UpdateInv'
<1>1. /\ files' \in [UpdateFile -> FileContent] /\ files'["part"] = Torn
      /\ \A g \in UpdateFile \ {"part"} : files'[g] = files[g]
  BY FilePut, UpdateKinds, UpdateFiles, ReleaseNumbers DEF BeginDownload, FileContent
<1>2. /\ UNCHANGED <<published, running, helper>> /\ running # NoFile
      /\ Call(d, "writing", published) /\ published \in Releases /\ published <= published
  BY UpdateKinds, NothingThere DEF BeginDownload
<1>3. Newer(published)
  BY UpdateFiles DEF UpdateInv, OnlyPublished, Newer
<1>4. Newer(files'["staged"]) /\ Newer(files'["part"])
  BY <1>1, UpdateFiles, ReleaseNumbers DEF UpdateInv, DownloadsFit, Newer
<1>5. \A f \in UpdateFile : files'[f] <= published
  BY <1>1, NothingThere DEF UpdateInv, OnlyPublished
<1>6. files'["manifest"] # Torn /\ files'["pending"] # Torn
  BY <1>1, UpdateFiles DEF UpdateInv, DownloadsFit
<1>. QED BY <1>1, <1>2, <1>3, <1>4, <1>5, <1>6, UpdateFiles, DownloadGoesOn

\* What holds of a call in progress.
LEMMA CallInProgress ==
    ASSUME UpdateInv, NEW d \in Downloaders, download[d].pc # "idle"
    PROVE  /\ running # NoFile /\ download[d].release \in Releases /\ download[d].release <= published
           /\ Newer(download[d].release) /\ Newer(files["part"])
BY DEF UpdateInv, DownloadsFit, OnlyPublished

\* The bytes that a call leaves in the .part file are those of the release it downloads.
LEMMA PartWrittenStep ==
    ASSUME UpdateInv, NEW d \in Downloaders, PartWritten(d)
    PROVE  UpdateInv'
<1>. DEFINE r == download[d].release
<1>1. /\ UNCHANGED <<published, running, helper>> /\ running # NoFile
      /\ Call(d, "written", r) /\ r \in Releases /\ r <= published /\ Newer(r) /\ Newer(files["part"])
  BY CallInProgress DEF PartWritten
<1>2. /\ files' \in [UpdateFile -> FileContent] /\ files'["part"] \in {r, files["part"]}
      /\ \A g \in UpdateFile \ {"part"} : files'[g] = files[g]
  <2>1. CASE Puts("part", r)
    BY <1>1, <2>1, FilePut, UpdateKinds, UpdateFiles, ReleaseNumbers
  <2>2. CASE UNCHANGED files
    BY <2>2, UpdateKinds
  <2>. QED BY <2>1, <2>2 DEF PartWritten
<1>3. Newer(files'["part"]) /\ Newer(files'["staged"])
  BY <1>1, <1>2, UpdateFiles DEF UpdateInv, DownloadsFit
<1>4. \A f \in UpdateFile : files'[f] <= published
  BY <1>1, <1>2 DEF UpdateInv, OnlyPublished
<1>5. files'["manifest"] # Torn /\ files'["pending"] # Torn
  BY <1>2, UpdateFiles DEF UpdateInv, DownloadsFit
<1>. QED BY <1>1, <1>2, <1>3, <1>4, <1>5, UpdateFiles, DownloadGoesOn

\* What is staged is what the .part file holds now: of this release or of another call's.
LEMMA StagePartStep ==
    ASSUME UpdateInv, NEW d \in Downloaders, StagePart(d)
    PROVE  UpdateInv'
<1>. DEFINE r == download[d].release
<1>1. /\ UNCHANGED <<published, running, helper>> /\ running # NoFile
      /\ r \in Releases /\ r <= published /\ Newer(r) /\ Newer(files["part"])
  BY CallInProgress DEF StagePart
<1>2. /\ Newer(NoFile) /\ NoFile <= published
  BY NothingThere
<1>3. CASE Call(d, "idle", NoFile) /\ UNCHANGED files
  BY <1>1, <1>2, <1>3, UpdateKinds, UpdateFiles, DownloadGoesOn DEF UpdateInv, DownloadsFit, OnlyPublished
<1>4. CASE /\ files' = [files EXCEPT !["staged"] = files["part"], !["part"] = NoFile]
           /\ Call(d, "staged", r)
  <2>1. /\ files' \in [UpdateFile -> FileContent] /\ files'["part"] = NoFile /\ files'["staged"] = files["part"]
        /\ \A g \in UpdateFile \ {"part", "staged"} : files'[g] = files[g]
    BY <1>4, UpdateKinds, UpdateFiles, ReleaseNumbers
  <2>2. \A f \in UpdateFile : files'[f] <= published
    BY <1>2, <2>1, UpdateFiles DEF UpdateInv, OnlyPublished
  <2>3. files'["manifest"] # Torn /\ files'["pending"] # Torn
    BY <2>1, UpdateFiles DEF UpdateInv, DownloadsFit
  <2>. QED BY <1>1, <1>2, <1>4, <2>1, <2>2, <2>3, UpdateFiles, DownloadGoesOn
<1>. QED BY <1>3, <1>4 DEF StagePart

LEMMA WriteStagedManifestStep ==
    ASSUME UpdateInv, NEW d \in Downloaders, WriteStagedManifest(d)
    PROVE  UpdateInv'
<1>. DEFINE r == download[d].release
<1>1. /\ UNCHANGED <<published, running, helper>> /\ running # NoFile
      /\ r \in Releases /\ r <= published /\ Newer(files["part"])
  BY CallInProgress DEF WriteStagedManifest
<1>2. /\ files' \in [UpdateFile -> FileContent] /\ files'["manifest"] = r
      /\ \A g \in UpdateFile \ {"manifest"} : files'[g] = files[g]
  BY <1>1, FilePut, UpdateKinds, UpdateFiles, ReleaseNumbers DEF WriteStagedManifest
<1>3. Newer(files'["part"]) /\ Newer(files'["staged"]) /\ NoFile <= published
  BY <1>1, <1>2, NothingThere, UpdateFiles DEF UpdateInv, DownloadsFit
<1>4. \A f \in UpdateFile : files'[f] <= published
  BY <1>1, <1>2 DEF UpdateInv, OnlyPublished
<1>5. files'["manifest"] # Torn /\ files'["pending"] # Torn
  BY <1>1, <1>2, UpdateFiles, ReleaseNumbers DEF UpdateInv, DownloadsFit
<1>. QED BY <1>1, <1>2, <1>3, <1>4, <1>5, UpdateFiles, DownloadGoesOn DEF WriteStagedManifest

-----------------------------------------------------------------------------
\* Scheduling and the ends of the application.

LEMMA ScheduleInstallStep ==
    ASSUME UpdateInv, ScheduleInstall \/ CancelStaged
    PROVE  UpdateInv'
<1>0. helper' = helper /\ Worker' = Worker /\ OneHelper'
  BY SameHelpers, UpdateKinds DEF ScheduleInstall, CancelStaged
<1>1. /\ UNCHANGED <<published, running, download, helper>>
      /\ files' \in [UpdateFile -> FileContent]
      /\ \A f \in UpdateFile \ {"pending", "manifest", "staged"} : files'[f] = files[f]
      /\ \A f \in UpdateFile : files'[f] \in {files[f], files["manifest"], NoFile}
      /\ files'["staged"] \in {files["staged"], NoFile}
  <2>1. CASE ScheduleInstall
    BY <2>1, FilePut, UpdateKinds, UpdateFiles DEF ScheduleInstall
  <2>2. CASE CancelStaged
    <3>1. PICK given \in {{"pending"}, {"pending", "manifest"}, {"pending", "manifest", "staged"}} :
             files' = [f \in UpdateFile |-> IF f \in given THEN NoFile ELSE files[f]]
      BY <2>2 DEF CancelStaged
    <3>2. given \subseteq {"pending", "manifest", "staged"}
      OBVIOUS
    <3>. QED BY <2>2, <3>1, <3>2, UpdateKinds, UpdateFiles, ReleaseNumbers DEF CancelStaged
  <2>. QED BY <2>1, <2>2
<1>2. \A f \in UpdateFile : files'[f] <= published
  BY <1>1, NothingThere, UpdateFiles DEF UpdateInv, OnlyPublished
<1>3. OnlyPublished'
  BY <1>0, <1>1, <1>2, BoundsStay, UpdateKinds DEF UpdateInv, OnlyPublished
<1>4. TargetFits' /\ HelperFits'
  BY <1>0, <1>1, InstallStays, UpdateFiles
<1>5. DownloadsFit'
  <2>1. files'["target"] = files["target"] /\ files'["part"] = files["part"]
    BY <1>1, UpdateFiles
  <2>2. Newer(files'["staged"])
    BY <1>1, NothingThere DEF UpdateInv, DownloadsFit
  <2>3. files'["manifest"] # Torn /\ files'["pending"] # Torn
    BY <1>1, UpdateFiles, ReleaseNumbers DEF UpdateInv, DownloadsFit
  <2>. QED BY <1>0, <1>1, <2>1, <2>2, <2>3 DEF UpdateInv, DownloadsFit, Newer
<1>. QED BY <1>0, <1>3, <1>4, <1>5 DEF UpdateInv

\* The application ends.  The helper that was started, when no other is at work, is to install
\* what is staged.
LEMMA ExitStep ==
    ASSUME UpdateInv, Exit \/ PowerFails, OneHelper'
    PROVE  UpdateInv'
<1>1. /\ running' = NoFile /\ UNCHANGED <<published, files>>
      /\ \A d \in Downloaders : download'[d].pc = "idle" /\ download'[d].release = NoFile
      /\ download' \in [Downloaders -> DownloadRecord]
  BY DEF Exit, PowerFails, NoDownload, DownloadRecord
<1>2. /\ helper' \in [Helpers -> HelperRecord]
      /\ \/ Worker' = Worker
         \/ Worker' = NoHelper
         \/ /\ Worker' = [pc |-> "waits", digest |-> files["pending"]] /\ PendingMatches /\ running # NoFile
  <2>1. CASE helper' = helper
    BY <2>1, SameHelpers, UpdateKinds
  <2>2. CASE PowerFails
    <3>1. \A h \in Helpers : helper'[h] = NoHelper
      BY <2>2 DEF PowerFails
    <3>2. Worker' = NoHelper
      BY <3>1, NoneIsAtWork DEF Worker
    <3>. QED BY <2>2, <3>2 DEF PowerFails, NoHelper, HelperRecord, HelperPlaces
  <2>3. ASSUME NEW h \in Helpers, StartHelper(h), PendingMatches, running # NoFile
        PROVE  /\ helper' \in [Helpers -> HelperRecord]
               /\ Worker' = [pc |-> "waits", digest |-> files["pending"]]
    <3>1. files["pending"] \in Releases
      BY <2>3, UpdateKinds, UpdateFiles, ReleaseNumbers DEF PendingMatches, UpdateInv, DownloadsFit
    <3>2. /\ helper' \in [Helpers -> HelperRecord]
          /\ helper'[h] = [pc |-> "waits", digest |-> files["pending"]]
      BY <2>3, <3>1, UpdateKinds DEF StartHelper, HelperRecord, HelperPlaces
    <3>3. helper'[h] # NoHelper
      BY <3>2 DEF NoHelper
    <3>4. TheHelper(helper') = helper'[h]
      BY <3>3, OneIsAtWork DEF OneHelper
    <3>. QED BY <3>2, <3>4 DEF Worker
  <2>. QED BY <2>1, <2>2, <2>3 DEF Exit, AppliesPending
<1>3. /\ Worker' \in HelperRecord /\ Worker'.digest <= published
      /\ \A f \in UpdateFile : files[f] <= published
  <2>1. /\ NoHelper \in HelperRecord /\ NoHelper.digest = NoFile
    BY DEF NoHelper, HelperRecord, HelperPlaces
  <2>2. PendingMatches => files["pending"] \in Releases
    BY UpdateKinds, UpdateFiles, ReleaseNumbers DEF PendingMatches, UpdateInv, DownloadsFit
  <2>3. \A digest \in Releases : [pc |-> "waits", digest |-> digest] \in HelperRecord
    BY DEF HelperRecord, HelperPlaces
  <2>. QED BY <1>2, <2>1, <2>2, <2>3, UpdateKinds, NothingThere, UpdateFiles DEF UpdateInv, OnlyPublished
<1>4. OnlyPublished'
  BY <1>1, <1>2, <1>3, NothingThere, UpdateKinds, ReleaseNumbers
     DEF OnlyPublished, UpdateTyped
<1>5. CASE Worker' = Worker \/ Worker' = NoHelper
  <2>1. Worker' = NoHelper => Worker'.pc = "none" /\ Worker'.digest = NoFile
    BY DEF NoHelper
  <2>2. TargetFits'
    BY <1>1, <1>5, <2>1 DEF UpdateInv, TargetFits, Whole, BeforeMove, AfterMove
  <2>3. HelperFits'
    BY <1>1, <1>5, <2>1 DEF UpdateInv, HelperFits, Whole
  <2>4. Newer(files["staged"])'
    <3>1. Worker'.digest \in {Worker.digest, 0} /\ \A r \in Releases : r >= 0
      BY <1>5, <2>1, ReleaseNumbers
    <3>. QED BY <1>1, <3>1 DEF UpdateInv, DownloadsFit, Newer
  <2>5. DownloadsFit'
    BY <1>1, <2>4 DEF UpdateInv, DownloadsFit
  <2>. QED BY <1>4, <2>2, <2>3, <2>5 DEF UpdateInv
<1>6. CASE Worker' = [pc |-> "waits", digest |-> files["pending"]] /\ PendingMatches /\ running # NoFile
  <2>1. /\ Worker'.pc = "waits" /\ Worker'.digest = files["staged"] /\ files["staged"] \in Releases
        /\ Whole("target")
    <3>1. files["staged"] \in Releases
      BY <1>6, UpdateKinds, UpdateFiles, ReleaseNumbers DEF PendingMatches, UpdateInv, DownloadsFit
    <3>2. Whole("target")
      BY <1>6, UpdateKinds DEF UpdateInv, TargetFits, Whole
    <3>. QED BY <1>6, <3>1, <3>2 DEF PendingMatches
  <2>2. TargetFits'
    BY <1>1, <2>1 DEF UpdateInv, TargetFits, Whole
  <2>3. HelperFits'
    BY <1>1, <2>1 DEF UpdateInv, DownloadsFit, Newer, HelperFits
  <2>4. Newer(files["staged"])'
    <3>1. \A r \in Releases : r >= r
      BY ReleaseNumbers
    <3>. QED BY <1>1, <2>1, <3>1 DEF UpdateInv, DownloadsFit, Newer
  <2>5. DownloadsFit'
    BY <1>1, <2>4 DEF UpdateInv, DownloadsFit
  <2>. QED BY <1>4, <2>2, <2>3, <2>5 DEF UpdateInv
<1>. QED BY <1>2, <1>5, <1>6

-----------------------------------------------------------------------------
\* The script of the helper.

\* A helper goes to another statement with the digest it was given, or ends.
HelperNext(h, pc) ==
    IF pc = "none" THEN helper' = [helper EXCEPT ![h] = NoHelper] ELSE helper' = [helper EXCEPT ![h].pc = pc]

LEMMA HelperPlace ==
    ASSUME UpdateInv, NEW h \in Helpers, helper[h].pc # "none", NEW pc \in HelperPlaces, HelperNext(h, pc)
    PROVE  /\ helper' \in [Helpers -> HelperRecord] /\ OneHelper' /\ Worker = helper[h]
           /\ Worker' \in HelperRecord /\ Worker'.pc = pc
           /\ Worker'.digest \in {Worker.digest, NoFile} /\ Worker'.digest <= published
           /\ pc # "none" => Worker'.digest = Worker.digest
<1>1. /\ helper[h] # NoHelper /\ helper[h] \in HelperRecord /\ NoHelper \in HelperRecord
      /\ \A g \in Helpers \ {h} : helper[g] = NoHelper
  BY UpdateKinds DEF NoHelper, OneHelper, HelperRecord, HelperPlaces
<1>2. Worker = helper[h] /\ Worker.digest <= published /\ NoFile <= published
  BY <1>1, OneIsAtWork, NothingThere DEF Worker, UpdateInv, OnlyPublished
<1>3. CASE pc # "none"
  <2>1. helper' = [helper EXCEPT ![h].pc = pc]
    BY <1>3 DEF HelperNext
  <2>2. /\ helper' \in [Helpers -> HelperRecord]
        /\ helper'[h] \in HelperRecord /\ helper'[h].pc = pc /\ helper'[h].digest = helper[h].digest
        /\ \A g \in Helpers \ {h} : helper'[g] = helper[g]
    BY <1>1, <2>1, UpdateKinds DEF HelperRecord
  <2>3. helper'[h] # NoHelper
    BY <1>3, <2>2 DEF NoHelper
  <2>4. TheHelper(helper') = helper'[h] /\ OneHelper'
    BY <1>1, <2>2, <2>3, OneIsAtWork DEF OneHelper
  <2>. QED BY <1>2, <2>2, <2>4 DEF Worker
<1>4. CASE pc = "none"
  <2>1. /\ helper' \in [Helpers -> HelperRecord] /\ \A g \in Helpers : helper'[g] = NoHelper
    BY <1>1, <1>4, UpdateKinds DEF HelperNext
  <2>2. TheHelper(helper') = NoHelper /\ OneHelper'
    BY <2>1, NoneIsAtWork DEF OneHelper
  <2>. QED BY <1>1, <1>2, <1>4, <2>1, <2>2 DEF Worker, NoHelper
<1>. QED BY <1>3, <1>4

\* Until the move the helper writes files no download and no executable is in.
LEMMA HelperGoesOn ==
    ASSUME UpdateInv, UNCHANGED <<published, download>>,
           NEW h \in Helpers, helper[h].pc # "none", NEW pc \in HelperPlaces, HelperNext(h, pc),
           files' \in [UpdateFile -> FileContent], \A f \in UpdateFile : files'[f] <= published,
           files'["target"] = files["target"], files'["part"] = files["part"],
           files'["staged"] \in {files["staged"], NoFile},
           files'["manifest"] # Torn, files'["pending"] # Torn,
           \/ running' = running
           \/ running = NoFile /\ Whole("target") /\ running' = files["target"]
    PROVE  OnlyPublished' /\ DownloadsFit'
<1>1. /\ helper' \in [Helpers -> HelperRecord] /\ Worker' \in HelperRecord
      /\ Worker'.digest \in {Worker.digest, NoFile} /\ Worker'.digest <= published
  BY HelperPlace
<1>2. running' \in Releases \cup {NoFile}
  BY UpdateKinds DEF Whole
<1>3. OnlyPublished'
  BY <1>1, <1>2, UpdateKinds DEF UpdateInv, OnlyPublished, UpdateTyped
<1>4. \A r \in Releases : r >= NoFile
  BY ReleaseNumbers
<1>5. Newer(files'["staged"])
  BY NothingThere DEF UpdateInv, DownloadsFit
<1>6. \A c \in FileContent : Newer(c) => (c \in Releases => c >= files'["target"] /\ c >= Worker'.digest)
  BY <1>1, <1>4 DEF Newer
<1>7. /\ files'["staged"] \in FileContent /\ files'["part"] \in FileContent
      /\ \A d \in Downloaders : download'[d].release \in FileContent
  BY UpdateKinds, UpdateFiles
<1>8. Newer(files["staged"])'
  BY <1>5, <1>6, <1>7 DEF Newer
<1>9. \A d \in Downloaders : download'[d].pc # "idle" =>
          /\ running' # NoFile /\ download'[d].release \in Releases
          /\ Newer(download[d].release)' /\ Newer(files["part"])'
  <2> SUFFICES ASSUME NEW d \in Downloaders, download[d].pc # "idle"
               PROVE  /\ running' # NoFile /\ download'[d].release \in Releases
                      /\ Newer(download[d].release)' /\ Newer(files["part"])'
    OBVIOUS
  <2>1. /\ running # NoFile /\ download[d].release \in Releases
        /\ Newer(download[d].release) /\ Newer(files["part"])
    BY CallInProgress
  <2>2. Newer(download[d].release)' /\ Newer(files["part"])'
    BY <1>6, <1>7, <2>1 DEF Newer
  <2>. QED BY <2>1, <2>2
<1>. QED BY <1>3, <1>8, <1>9 DEF DownloadsFit

\* The copy is made beside the executable and checked.
LEMMA CopyFileStep ==
    ASSUME UpdateInv, NEW h \in Helpers, HelperWaits(h) \/ HelperCopies(h) \/ HelperChecks(h)
    PROVE  UpdateInv' /\ files'["target"] = files["target"]
<1>1. UNCHANGED <<published, running, download>>
  BY DEF HelperWaits, HelperCopies, HelperChecks
<1>2. /\ files' \in [UpdateFile -> FileContent]
      /\ files'["incoming"] \in {Torn, NoFile, files["staged"], files["incoming"]}
      /\ \A f \in UpdateFile \ {"incoming"} : files'[f] = files[f]
  <2>1. CASE UNCHANGED files
    BY <2>1, UpdateKinds, UpdateFiles
  <2>2. CASE \E c \in {Torn, NoFile, files["staged"]} : Puts("incoming", c)
    BY <2>2, FilePut, UpdateKinds, UpdateFiles, ReleaseNumbers DEF FileContent
  <2>. QED BY <2>1, <2>2 DEF HelperWaits, HelperCopies, HelperChecks, HelperFails
<1>3. PICK pc \in {"none", "copying", "copied", "checked"} :
         /\ HelperNext(h, pc)
         /\ pc = "checked" => files'["incoming"] = helper[h].digest
         /\ helper[h].pc \in {"waits", "copying", "copied"}
  BY UpdateFiles DEF HelperWaits, HelperCopies, HelperChecks, HelperAt, HelperGoes, HelperEnds, HelperFails,
                     HelperNext, CopyIsGood
<1>4. /\ OneHelper' /\ Worker = helper[h]
      /\ Worker'.pc = pc /\ (pc # "none" => Worker'.digest = Worker.digest)
  BY <1>3, HelperPlace DEF HelperPlaces
<1>5. \A f \in UpdateFile : files'[f] <= published
  BY <1>2, NothingThere, UpdateFiles DEF UpdateInv, OnlyPublished
<1>6. OnlyPublished' /\ DownloadsFit'
  <2>1. /\ files'["target"] = files["target"] /\ files'["part"] = files["part"]
        /\ files'["staged"] = files["staged"] /\ files'["manifest"] # Torn /\ files'["pending"] # Torn
    BY <1>2, UpdateFiles DEF UpdateInv, DownloadsFit
  <2>2. pc \in HelperPlaces
    BY DEF HelperPlaces
  <2>. QED BY <1>1, <1>2, <1>3, <1>5, <2>1, <2>2, HelperGoesOn
<1>7. TargetFits'
  BY <1>1, <1>2, <1>3, <1>4, UpdateFiles DEF UpdateInv, TargetFits, Whole, BeforeMove
<1>8. HelperFits'
  BY <1>2, <1>3, <1>4, UpdateFiles DEF UpdateInv, HelperFits
<1>. QED BY <1>2, <1>4, <1>6, <1>7, <1>8, UpdateFiles DEF UpdateInv

\* The executable is saved while it is whole.
LEMMA SaveStep ==
    ASSUME UpdateInv, NEW h \in Helpers, HelperSaves(h)
    PROVE  UpdateInv' /\ files'["target"] = files["target"]
<1>1. UNCHANGED <<published, running, download>>
  BY DEF HelperSaves
<1>2. PICK pc \in {"none", "saving", "saved"}, c \in {Torn, files["target"], files["backup"]} :
         /\ HelperNext(h, pc) /\ (Puts("backup", c) \/ (UNCHANGED files /\ c = files["backup"]))
         /\ helper[h].pc \in {"checked", "saving"} /\ (pc = "saved" => c = files["target"])
  BY DEF HelperSaves, HelperAt, HelperGoes, HelperEnds, HelperFails, HelperNext
<1>3. /\ files' \in [UpdateFile -> FileContent] /\ files'["backup"] = c
      /\ \A f \in UpdateFile \ {"backup"} : files'[f] = files[f]
  BY <1>2, FilePut, UpdateKinds, UpdateFiles, ReleaseNumbers DEF FileContent
<1>4. /\ OneHelper' /\ Worker = helper[h]
      /\ Worker'.pc = pc /\ (pc # "none" => Worker'.digest = Worker.digest)
  BY <1>2, HelperPlace DEF HelperPlaces
<1>5. \A f \in UpdateFile : files'[f] <= published
  BY <1>2, <1>3, NothingThere, UpdateFiles DEF UpdateInv, OnlyPublished
<1>6. OnlyPublished' /\ DownloadsFit'
  <2>1. /\ files'["target"] = files["target"] /\ files'["part"] = files["part"]
        /\ files'["staged"] = files["staged"] /\ files'["manifest"] # Torn /\ files'["pending"] # Torn
    BY <1>3, UpdateFiles DEF UpdateInv, DownloadsFit
  <2>2. pc \in HelperPlaces
    BY DEF HelperPlaces
  <2>. QED BY <1>1, <1>2, <1>3, <1>5, <2>1, <2>2, HelperGoesOn
<1>7. TargetFits'
  BY <1>1, <1>2, <1>3, <1>4, UpdateFiles DEF UpdateInv, TargetFits, Whole, BeforeMove
<1>8. HelperFits'
  BY <1>2, <1>3, <1>4, UpdateFiles DEF UpdateInv, HelperFits
<1>. QED BY <1>3, <1>4, <1>6, <1>7, <1>8, UpdateFiles DEF UpdateInv

\* A content that is put at the executable's place is a release, and not older than the backup.
LEMMA MoveStep ==
    ASSUME UpdateInv, NEW h \in Helpers, HelperMoves(h)
    PROVE  UpdateInv' /\ NeverOlder
<1>1. UNCHANGED <<published, running, download>>
  BY DEF HelperMoves
<1>2. CASE HelperAt(h, "saved") /\ running = NoFile /\ HelperGoes(h, "moving") /\ Puts("target", NoFile)
  <2>1. /\ files' \in [UpdateFile -> FileContent] /\ files'["target"] = NoFile
        /\ \A f \in UpdateFile \ {"target"} : files'[f] = files[f]
    BY <1>2, FilePut, UpdateKinds, UpdateFiles, ReleaseNumbers DEF FileContent
  <2>2. /\ Worker'.pc = "moving" /\ Worker'.digest = Worker.digest /\ Worker.pc = "saved"
        /\ helper' \in [Helpers -> HelperRecord] /\ OneHelper'
    <3>1. HelperNext(h, "moving") /\ helper[h].pc = "saved" /\ "moving" \in HelperPlaces
      BY <1>2 DEF HelperPlaces, HelperAt, HelperGoes, HelperNext
    <3>. QED BY <3>1, HelperPlace
  <2>3. /\ Worker.digest \in Releases /\ Worker.digest >= files["target"] /\ files["incoming"] = Worker.digest
        /\ files["backup"] = files["target"] /\ files["target"] \in Releases
    BY <2>2 DEF UpdateInv, HelperFits, TargetFits, BeforeMove, Whole
  <2>4. OnlyPublished'
    <3>1. \A f \in UpdateFile : files'[f] <= published
      BY <2>1, NothingThere, UpdateFiles DEF UpdateInv, OnlyPublished
    <3>. QED BY <1>1, <2>1, <2>2, <3>1, UpdateKinds DEF UpdateInv, OnlyPublished, UpdateTyped
  <2>5. TargetFits'
    BY <1>1, <1>2, <2>1, <2>2, <2>3, UpdateFiles DEF TargetFits, Whole, BeforeMove, AfterMove
  <2>6. HelperFits'
    <3>1. Worker.digest \in Nat /\ files["target"] \in Nat /\ NoFile = 0
      BY <2>3, ReleaseNumbers
    <3>2. Worker.digest >= NoFile /\ files["backup"] <= Worker.digest
      BY <2>3, <3>1
    <3>. QED BY <1>1, <1>2, <2>1, <2>2, <2>3, <3>2, UpdateFiles DEF HelperFits, Whole
  <2>7. DownloadsFit'
    <3>1. \A r \in Releases : r >= NoFile
      BY ReleaseNumbers
    <3>2. \A d \in Downloaders : download[d].pc = "idle"
      BY <1>2 DEF UpdateInv, DownloadsFit
    <3>. QED BY <1>1, <2>1, <2>2, <3>1, <3>2, UpdateFiles DEF UpdateInv, DownloadsFit, Newer
  <2>8. NeverOlder
    BY <2>1 DEF NeverOlder
  <2>. QED BY <2>2, <2>4, <2>5, <2>6, <2>7, <2>8 DEF UpdateInv
<1>3. CASE (HelperAt(h, "saved") \/ HelperAt(h, "moving")) /\ HelperFails(h)
  <2>1. /\ HelperNext(h, "none") /\ helper[h].pc \in {"saved", "moving"} /\ "none" \in HelperPlaces
        /\ files' = files
    BY <1>3 DEF HelperAt, HelperFails, HelperEnds, HelperNext, HelperPlaces
  <2>2. Worker'.pc = "none" /\ OneHelper' /\ Worker = helper[h]
    BY <2>1, HelperPlace
  <2>3. OnlyPublished' /\ DownloadsFit'
    BY <1>1, <2>1, UpdateKinds, HelperGoesOn DEF UpdateInv, OnlyPublished, DownloadsFit
  <2>4. TargetFits' /\ HelperFits'
    BY <1>1, <2>1, <2>2 DEF UpdateInv, TargetFits, HelperFits, Whole, BeforeMove, AfterMove
  <2>. QED BY <2>1, <2>2, <2>3, <2>4 DEF UpdateInv, NeverOlder
<1>4. CASE /\ HelperAt(h, "moving") /\ HelperGoes(h, "moved")
           /\ files' = [files EXCEPT !["target"] = files["incoming"], !["incoming"] = NoFile]
  <2>1. /\ files' \in [UpdateFile -> FileContent]
        /\ files'["target"] = files["incoming"] /\ files'["incoming"] = NoFile
        /\ \A f \in UpdateFile \ {"target", "incoming"} : files'[f] = files[f]
    BY <1>4, UpdateKinds, UpdateFiles, ReleaseNumbers
  <2>2. /\ Worker'.pc = "moved" /\ Worker'.digest = Worker.digest /\ Worker.pc = "moving"
        /\ helper' \in [Helpers -> HelperRecord] /\ OneHelper'
    <3>1. HelperNext(h, "moved") /\ helper[h].pc = "moving" /\ "moved" \in HelperPlaces
      BY <1>4 DEF HelperPlaces, HelperAt, HelperGoes, HelperNext
    <3>. QED BY <3>1, HelperPlace
  <2>3. /\ Worker.digest \in Releases /\ files["incoming"] = Worker.digest
        /\ running = NoFile /\ files["target"] = NoFile /\ Whole("backup") /\ files["backup"] <= Worker.digest
    BY <2>2 DEF UpdateInv, HelperFits
  <2>4. OnlyPublished'
    <3>1. \A f \in UpdateFile : files'[f] <= published
      BY <2>1, NothingThere, UpdateFiles DEF UpdateInv, OnlyPublished
    <3>. QED BY <1>1, <2>1, <2>2, <3>1, UpdateKinds DEF UpdateInv, OnlyPublished, UpdateTyped
  <2>5. TargetFits'
    BY <1>1, <2>1, <2>3, UpdateFiles DEF TargetFits, Whole
  <2>6. \A r \in Releases : r >= r
    BY ReleaseNumbers
  <2>7. HelperFits'
    BY <2>1, <2>2, <2>3, <2>6 DEF HelperFits
  <2>8. DownloadsFit'
    <3>1. \A d \in Downloaders : download[d].pc = "idle"
      BY <2>3 DEF UpdateInv, DownloadsFit
    <3>. QED BY <1>1, <2>1, <2>2, <2>3, <3>1, UpdateFiles DEF UpdateInv, DownloadsFit, Newer
  <2>9. NeverOlder
    <3>1. files["backup"] \in Int /\ Worker.digest \in Int
      BY UpdateKinds, UpdateFiles, ReleaseNumbers
    <3>2. Worker.digest >= files["backup"]
      BY <2>3, <3>1
    <3>. QED BY <2>1, <2>3, <3>2 DEF NeverOlder
  <2>. QED BY <2>2, <2>4, <2>5, <2>7, <2>8, <2>9 DEF UpdateInv
<1>. QED BY <1>2, <1>3, <1>4 DEF HelperMoves

LEMMA TidyStep ==
    ASSUME UpdateInv, NEW h \in Helpers, HelperTidies(h)
    PROVE  UpdateInv' /\ files'["target"] = files["target"]
<1>1. UNCHANGED <<published, download>>
  BY DEF HelperTidies
<1>2. PICK next \in {<<"moved", "cleaned", "staged">>, <<"cleaned", "tidied", "manifest">>,
                     <<"tidied", "none", "pending">>} :
         /\ HelperAt(h, next[1])
         /\ IF next[2] = "none" THEN HelperEnds(h) ELSE HelperGoes(h, next[2])
         /\ Puts(next[3], NoFile) \/ UNCHANGED files
         /\ IF next[2] = "none" /\ running = NoFile /\ Whole("target")
            THEN running' = files["target"] ELSE UNCHANGED running
  BY DEF HelperTidies
<1>3. /\ next[1] \in AfterMove /\ next[2] \in {"cleaned", "tidied", "none"}
      /\ next[3] \in {"staged", "manifest", "pending"}
  BY DEF AfterMove
<1>. DEFINE pc == next[2]
<1>4. pc \in HelperPlaces /\ HelperNext(h, pc) /\ helper[h].pc \in AfterMove /\ helper[h].pc # "none"
  BY <1>2, <1>3 DEF HelperPlaces, HelperAt, HelperGoes, HelperEnds, HelperNext, AfterMove
<1>5. /\ OneHelper' /\ Worker = helper[h]
      /\ Worker'.pc = pc /\ (pc # "none" => Worker'.digest = Worker.digest)
  BY <1>4, HelperPlace
<1>6. /\ files' \in [UpdateFile -> FileContent]
      /\ \A f \in UpdateFile \ {"staged", "manifest", "pending"} : files'[f] = files[f]
      /\ \A f \in {"staged", "manifest", "pending"} : files'[f] \in {files[f], NoFile}
  <2>1. CASE UNCHANGED files
    BY <2>1, UpdateKinds, UpdateFiles
  <2>2. CASE Puts(next[3], NoFile)
    <3>1. next[3] \in UpdateFile /\ NoFile \in FileContent
      BY <1>3, UpdateFiles, ReleaseNumbers
    <3>2. /\ files' \in [UpdateFile -> FileContent] /\ files'[next[3]] = NoFile
          /\ \A g \in UpdateFile \ {next[3]} : files'[g] = files[g]
      BY <2>2, <3>1, FilePut, UpdateKinds
    <3>. QED BY <1>3, <3>2, UpdateFiles
  <2>. QED BY <1>2, <2>1, <2>2
<1>7. \/ running' = running
      \/ running = NoFile /\ Whole("target") /\ running' = files["target"]
  BY <1>2
<1>8. \A f \in UpdateFile : files'[f] <= published
  BY <1>6, NothingThere, UpdateFiles DEF UpdateInv, OnlyPublished
<1>9. /\ files'["target"] = files["target"] /\ files'["part"] = files["part"]
      /\ files'["backup"] = files["backup"] /\ files'["incoming"] = files["incoming"]
      /\ files'["staged"] \in {files["staged"], NoFile}
      /\ files'["manifest"] # Torn /\ files'["pending"] # Torn
  BY <1>6, UpdateFiles, ReleaseNumbers DEF UpdateInv, DownloadsFit
<1>. HIDE DEF pc
<1>10. OnlyPublished' /\ DownloadsFit'
  BY <1>1, <1>4, <1>6, <1>7, <1>8, <1>9, HelperGoesOn
<1>11. TargetFits'
  BY <1>4, <1>5, <1>7, <1>9 DEF UpdateInv, TargetFits, Whole
<1>12. HelperFits'
  <2>1. pc \in {"cleaned", "tidied", "none"}
    BY <1>3 DEF pc
  <2>. QED BY <1>4, <1>5, <1>9, <2>1 DEF UpdateInv, HelperFits, AfterMove
<1>. QED BY <1>5, <1>9, <1>10, <1>11, <1>12 DEF UpdateInv

-----------------------------------------------------------------------------

\* As long as one helper at most is at work.
LEMMA AloneStep ==
    ASSUME UpdateInv, UpdateSteps, OneHelper'
    PROVE  UpdateInv' /\ NeverOlder
<1>1. files'["target"] = files["target"] => NeverOlder
  BY DEF NeverOlder
<1>3. CASE \E d \in Downloaders : BeginDownload(d) \/ PartWritten(d) \/ StagePart(d) \/ WriteStagedManifest(d)
  <2>1. UpdateInv'
    BY <1>3, BeginDownloadStep, PartWrittenStep, StagePartStep, WriteStagedManifestStep
  <2>2. files'["target"] = files["target"]
    <3>1. "target" \in UpdateFile \ {"part", "staged", "manifest"} /\ files \in [UpdateFile -> FileContent]
      BY UpdateKinds, UpdateFiles
    <3>. QED BY <1>3, <3>1 DEF BeginDownload, PartWritten, StagePart, WriteStagedManifest, Puts
  <2>. QED BY <1>1, <2>1, <2>2
<1>4. CASE ScheduleInstall \/ CancelStaged
  <2>1. files'["target"] = files["target"]
    BY <1>4, UpdateKinds, UpdateFiles DEF ScheduleInstall, CancelStaged, Puts
  <2>. QED BY <1>1, <1>4, <2>1, ScheduleInstallStep
<1>5. CASE PublishRelease \/ StartApplication \/ Exit \/ PowerFails
  BY <1>1, <1>5, OutsideStep, ExitStep DEF PublishRelease, StartApplication, Exit, PowerFails
<1>6. ASSUME NEW h \in Helpers,
             \/ HelperWaits(h) \/ HelperCopies(h) \/ HelperChecks(h) \/ HelperSaves(h)
             \/ HelperMoves(h) \/ HelperTidies(h)
      PROVE  UpdateInv' /\ NeverOlder
  BY <1>1, <1>6, CopyFileStep, SaveStep, MoveStep, TidyStep
<1>. QED BY <1>3, <1>4, <1>5, <1>6 DEF UpdateSteps

\* Types, whoever is at work.
LEMMA UpdateTypedStep ==
    ASSUME UpdateTyped, NotesFit, UpdateSteps \/ ExitOfOne
    PROVE  UpdateTyped' /\ NotesFit'
<1>. USE ReleaseNumbers, UpdateFiles
<1>0. /\ NoHelper \in HelperRecord /\ NoDownload \in DownloadRecord
      /\ \A f \in UpdateFile : files[f] \in FileContent
      /\ \A d \in Downloaders : download[d] \in DownloadRecord /\ download[d].release \in FileContent \ {Torn}
  <2>1. NoHelper \in HelperRecord /\ NoDownload \in DownloadRecord
    BY DEF NoHelper, NoDownload, HelperRecord, HelperPlaces, DownloadRecord
  <2>2. \A f \in UpdateFile : files[f] \in FileContent
    BY DEF UpdateTyped
  <2>3. \A d \in Downloaders : download[d] \in DownloadRecord
    BY DEF UpdateTyped
  <2>4. \A r \in DownloadRecord : r.release \in FileContent \ {Torn}
    <3>1. \A r \in DownloadRecord : r.release \in Releases \cup {NoFile}
      BY DEF DownloadRecord
    <3>2. \A c \in Releases \cup {NoFile} : c \in FileContent \ {Torn}
      BY ReleaseNumbers DEF FileContent, NoFile, Torn
    <3>. QED BY <3>1, <3>2
  <2>. QED BY <2>1, <2>2, <2>3, <2>4
<1>1. CASE PublishRelease \/ StartApplication
  BY <1>1, UpdaterAssumption DEF PublishRelease, StartApplication, UpdateTyped, NotesFit, Whole, Releases
<1>2. ASSUME NEW d \in Downloaders,
             BeginDownload(d) \/ PartWritten(d) \/ StagePart(d) \/ WriteStagedManifest(d)
      PROVE  UpdateTyped' /\ NotesFit'
  <2>1. UNCHANGED <<published, running, helper>>
    BY <1>2 DEF BeginDownload, PartWritten, StagePart, WriteStagedManifest
  <2>2. download' \in [Downloaders -> DownloadRecord]
    BY <1>0, <1>2 DEF BeginDownload, PartWritten, StagePart, WriteStagedManifest, Call, DownloadRecord, UpdateTyped
  <2>3. files' \in [UpdateFile -> FileContent] /\ NotesFit'
    BY <1>0, <1>2 DEF BeginDownload, PartWritten, StagePart, WriteStagedManifest, Puts, UpdateTyped, NotesFit,
                      FileContent
  <2>. QED BY <2>1, <2>2, <2>3 DEF UpdateTyped
<1>3. CASE ScheduleInstall \/ CancelStaged
  BY <1>0, <1>3 DEF ScheduleInstall, CancelStaged, Puts, UpdateTyped, NotesFit
<1>4. CASE Exit \/ ExitOfOne \/ PowerFails
  <2>1. /\ UNCHANGED <<published, files>> /\ running' \in {running, NoFile}
        /\ download' \in [Downloaders -> DownloadRecord]
    BY <1>0, <1>4 DEF Exit, ExitOfOne, PowerFails, UpdateTyped
  <2>2. helper' \in [Helpers -> HelperRecord]
    <3>1. CASE PowerFails
      BY <1>0, <3>1 DEF PowerFails
    <3>2. CASE AppliesPending
      <4>1. PendingMatches => files["pending"] \in Releases
        BY <1>0 DEF PendingMatches, NotesFit
      <4>. QED BY <3>2, <4>1 DEF AppliesPending, StartHelper, UpdateTyped, HelperRecord, HelperPlaces
    <3>. QED BY <1>4, <3>1, <3>2 DEF Exit, ExitOfOne
  <2>. QED BY <2>1, <2>2 DEF UpdateTyped, NotesFit
<1>5. ASSUME NEW h \in Helpers,
             \/ HelperWaits(h) \/ HelperCopies(h) \/ HelperChecks(h) \/ HelperSaves(h)
             \/ HelperMoves(h) \/ HelperTidies(h)
      PROVE  UpdateTyped' /\ NotesFit'
  <2>1. UNCHANGED <<published, download>> /\ running' \in Releases \cup {NoFile}
    BY <1>5 DEF HelperWaits, HelperCopies, HelperChecks, HelperSaves, HelperMoves, HelperTidies, UpdateTyped, Whole
  <2>2. helper' \in [Helpers -> HelperRecord]
    <3>1. HelperEnds(h) \/ \E pc \in HelperPlaces : HelperGoes(h, pc)
      BY <1>5 DEF HelperWaits, HelperCopies, HelperChecks, HelperSaves, HelperMoves, HelperTidies, HelperFails,
                  HelperPlaces
    <3>. QED BY <1>0, <3>1 DEF HelperEnds, HelperGoes, UpdateTyped, HelperRecord
  <2>3. files' \in [UpdateFile -> FileContent] /\ NotesFit'
    <3>1. CASE UNCHANGED files
      BY <3>1 DEF UpdateTyped, NotesFit
    <3>2. ASSUME NEW f \in UpdateFile, NEW c \in FileContent, Puts(f, c), f \in {"manifest", "pending"} => c = NoFile
          PROVE  files' \in [UpdateFile -> FileContent] /\ NotesFit'
      BY <3>2 DEF Puts, UpdateTyped, NotesFit
    <3>3. CASE HelperWaits(h) \/ HelperCopies(h) \/ HelperChecks(h) \/ HelperSaves(h)
      BY <1>0, <3>1, <3>2, <3>3 DEF HelperWaits, HelperCopies, HelperChecks, HelperSaves, HelperFails, FileContent
    <3>4. CASE HelperMoves(h)
      <4>1. CASE files' = [files EXCEPT !["target"] = files["incoming"], !["incoming"] = NoFile]
        BY <1>0, <4>1 DEF UpdateTyped, NotesFit
      <4>. QED BY <3>1, <3>2, <3>4, <4>1 DEF HelperMoves, HelperFails
    <3>5. CASE HelperTidies(h)
      BY <3>1, <3>2, <3>5 DEF HelperTidies
    <3>. QED BY <1>5, <3>3, <3>4, <3>5
  <2>. QED BY <2>1, <2>2, <2>3 DEF UpdateTyped
<1>. QED BY <1>1, <1>2, <1>3, <1>4, <1>5 DEF UpdateSteps

LEMMA UpdateKeptStep ==
    UpdateKept /\ [UpdaterNext]_updaterVars
        => UpdateKept' /\ [together' = 0 => InstallationSurvives' /\ NeverOlder]_updaterVars
<1>. SUFFICES ASSUME UpdateKept, [UpdaterNext]_updaterVars
              PROVE  UpdateKept' /\ [together' = 0 => InstallationSurvives' /\ NeverOlder]_updaterVars
  OBVIOUS
<1>1. CASE UNCHANGED updaterVars
  BY <1>1 DEF updaterVars, UpdateKept, UpdateTyped, NotesFit, UpdateInv, OneHelper, OnlyPublished, TargetFits,
              HelperFits, DownloadsFit, Newer, Whole, Worker
<1>2. CASE UpdaterNext
  <2>1. UpdateTyped' /\ NotesFit'
    BY <1>2, UpdateTypedStep DEF UpdateKept, UpdaterNext
  <2>2. together' \in 0..MaxTogether
    BY <1>2, UpdaterAssumption DEF UpdateKept, UpdaterNext, Together
  <2>3. ASSUME together' = 0 PROVE UpdateInv' /\ NeverOlder
    <3>1. together = 0 /\ UpdateSteps /\ ~ TwoHelpers'
      BY <1>2, <2>3 DEF UpdateKept, UpdaterNext, Together
    <3>2. OneHelper'
      BY <3>1 DEF TwoHelpers, OneHelper
    <3>. QED BY <3>1, <3>2, AloneStep DEF UpdateKept
  <2>4. UpdateInv' => InstallationSurvives'
    BY DEF UpdateInv, TargetFits, InstallationSurvives
  <2>. QED BY <2>1, <2>2, <2>3, <2>4 DEF UpdateKept
<1>. QED BY <1>1, <1>2

LEMMA UpdateKeptStart == UpdaterInit => UpdateKept
<1>. SUFFICES ASSUME UpdaterInit PROVE UpdateKept
  OBVIOUS
<1>1. UpdateInv
  BY UpdaterStart
<1>. QED BY <1>1, UpdaterAssumption DEF UpdateKept, UpdateInv, OnlyPublished, DownloadsFit, NotesFit, UpdaterInit

LEMMA UpdateInvariant == UpdaterSpec => []UpdateKept
BY UpdateKeptStart, UpdateKeptStep, PTL DEF UpdaterSpec

LEMMA UpdatesAreTyped == UpdateKept => UpdaterTypeOK /\ NotesFit
BY DEF UpdateKept, UpdateTyped, UpdaterTypeOK, DownloadRecord, HelperRecord, HelperPlaces

\* Files, downloads and helpers are what they can be, whoever is at work, and neither the manifest nor
\* a scheduled installation ever names a torn file (core/updater.py).
THEOREM UpdaterTypes == UpdaterSpec => [](UpdaterTypeOK /\ NotesFit)
BY UpdatesAreTyped, UpdateInvariant, PTL

\* For any number of downloads, helpers and releases and wherever the power fails or a statement of
\* a helper does: until a second helper is at work, or one of two copies of the application ends, an
\* executable that starts stays at its place or beside it, and the one that is put there is whole
\* and never older (core/updater.py, download_latest, apply_pending_on_exit and its script).
THEOREM InstallationsAreSafe == UpdaterSpec => UpdatesAreSafe
BY UpdateKeptStep, UpdateInvariant, PTL DEF UpdaterSpec, UpdatesAreSafe

-----------------------------------------------------------------------------
(* The mutex of Roblox (module MultiInstance).                              *)

\* The mutex, its holders and the calls are of their types, however calls overlap.
SwitchRecord == [pc : {"idle", "waits", "disables", "signals", "joins", "forgets"}, seen : 0..MaxHolders]
HolderPlaces == {"unborn", "opens", "tries", "looks", "polls", "holds", "gives", "frees", "ended"}

LEMMA LockTyped == (MultiInit => MultiTypeOK) /\ (MultiTypeOK /\ [MultiNext]_multiVars => MultiTypeOK')
<1>. USE MultiAssumption DEF MultiAssumption
<1>0. /\ 0 \in 0..MaxHolders /\ Holders \subseteq 0..MaxHolders /\ NoSwitch \in SwitchRecord
      /\ NoHandles \in [{"mutex", "event"} -> 0..MaxHolders] /\ NoOwner = 0 /\ Client = -1
  BY DEF Holders, NoSwitch, SwitchRecord, NoHandles, NoOwner, Client
<1>1. MultiInit => MultiTypeOK
  BY <1>0 DEF MultiInit, MultiTypeOK, SwitchRecord
<1>. SUFFICES ASSUME MultiTypeOK, [MultiNext]_multiVars PROVE MultiTypeOK'
  BY <1>1
<1>2. /\ mutex \in {NoOwner, Client} \cup Holders /\ holder \in [Holders -> HolderPlaces] /\ calm \in BOOLEAN
      /\ thread \in 0..MaxHolders /\ {release, ready, claimed, on} \subseteq BOOLEAN
      /\ handle \in [{"mutex", "event"} -> 0..MaxHolders] /\ switch \in [Switchers -> SwitchRecord]
  BY DEF MultiTypeOK, HolderPlaces, SwitchRecord
<1>. DEFINE Same == UNCHANGED <<calm, mutex, holder, thread, release, ready, claimed, on, handle>>
<1>3. SUFFICES /\ mutex' \in {NoOwner, Client} \cup Holders /\ holder' \in [Holders -> HolderPlaces]
               /\ thread' \in 0..MaxHolders /\ {release', ready', claimed', on'} \subseteq BOOLEAN
               /\ handle' \in [{"mutex", "event"} -> 0..MaxHolders] /\ switch' \in [Switchers -> SwitchRecord]
               /\ calm' = calm
  BY <1>2 DEF MultiTypeOK, HolderPlaces, SwitchRecord
<1>4. ASSUME NEW u \in Switchers, NEW pc \in {"idle", "waits", "disables", "signals", "joins", "forgets"}, SwitchTo(u, pc)
      PROVE  switch' \in [Switchers -> SwitchRecord]
  BY <1>2, <1>4 DEF SwitchTo, SwitchRecord
<1>5. ASSUME NEW h \in Holders, NEW pc \in HolderPlaces, HolderTo(h, pc) PROVE holder' \in [Holders -> HolderPlaces]
  BY <1>2, <1>5 DEF HolderTo
<1>. USE <1>0, <1>2
<1>6. CASE UNCHANGED multiVars
  BY <1>6 DEF multiVars, lockState
<1>7. CASE ClientStartsFirst \/ LastClientExits
  BY <1>7 DEF ClientStartsFirst, LastClientExits
<1>8. ASSUME NEW u \in Switchers, Enable(u) PROVE <1>3!1
  <2>1. PICK h \in Holders : HolderTo(h, "opens") /\ thread' = h
    BY <1>8 DEF Enable
  <2>2. holder' \in [Holders -> HolderPlaces]
    BY <1>5, <2>1 DEF HolderPlaces
  <2>3. switch' \in [Switchers -> SwitchRecord]
    BY <1>4, <1>8 DEF Enable
  <2>. QED BY <1>8, <2>1, <2>2, <2>3 DEF Enable
<1>9. ASSUME NEW u \in Switchers, Disable(u) PROVE <1>3!1
  <2>1. [pc |-> "signals", seen |-> thread] \in SwitchRecord
    BY DEF SwitchRecord
  <2>. QED BY <1>9, <2>1 DEF Disable, lockState
<1>10. ASSUME NEW u \in Switchers, SwitchStep(u) PROVE <1>3!1
  <2>1. CASE EnableReturns(u) \/ JoinHolder(u)
    <3>1. switch' \in [Switchers -> SwitchRecord]
      BY <1>4, <2>1 DEF EnableReturns, JoinHolder
    <3>. QED BY <2>1, <3>1 DEF EnableReturns, JoinHolder, lockState
  <2>2. CASE SignalRelease(u)
    <3>1. switch' \in [Switchers -> SwitchRecord]
      BY <1>4, <2>2 DEF SignalRelease
    <3>. QED BY <2>2, <3>1 DEF SignalRelease
  <2>3. CASE ForgetHolder(u)
    BY <2>3 DEF ForgetHolder
  <2>. QED BY <1>10, <2>1, <2>2, <2>3 DEF SwitchStep
<1>11. ASSUME NEW h \in Holders, HolderStep(h) PROVE <1>3!1
  <2>1. \E pc \in HolderPlaces : HolderTo(h, pc) \/ UNCHANGED holder
    <3>. USE DEF HolderPlaces
    <3>. QED BY <1>11 DEF HolderStep, OpenObjects, TryMutex, LookAtRelease, PollMutex, HoldMutex, ReleaseObjects, HolderEnds
  <2>2. holder' \in [Holders -> HolderPlaces]
    BY <1>5, <2>1
  <2>3. CASE OpenObjects(h)
    BY <2>2, <2>3 DEF OpenObjects
  <2>4. CASE TryMutex(h)
    BY <2>2, <2>4 DEF TryMutex, MarkMutexOwned
  <2>5. CASE LookAtRelease(h) \/ HoldMutex(h)
    BY <2>2, <2>5 DEF LookAtRelease, HoldMutex
  <2>6. CASE PollMutex(h)
    BY <2>2, <2>6 DEF PollMutex, MarkMutexOwned
  <2>7. CASE ReleaseObjects(h)
    <3>1. mutex' \in {NoOwner, Client} \cup Holders
      BY <2>7 DEF ReleaseObjects
    <3>. QED BY <2>2, <2>7, <3>1 DEF ReleaseObjects
  <2>8. CASE HolderEnds(h)
    BY <2>2, <2>8 DEF HolderEnds
  <2>. QED BY <1>11, <2>3, <2>4, <2>5, <2>6, <2>7, <2>8 DEF HolderStep
<1>. QED BY <1>6, <1>7, <1>8, <1>9, <1>10, <1>11 DEF MultiNext


-----------------------------------------------------------------------------
(* Who waits to be put back (module WindowLayouts).                         *)

\* Who waits to be put back does so no longer than a restore is tried.
WaitsTyped ==
    /\ clock \in 0..MaxClock /\ excused \subseteq ProcessIds
    /\ toRestore \in [ProcessIds -> [owner : Owners \union {Unbound}, until : 0..(MaxClock + RestoreTime)]]

LEMMA WaitsBegin == WindowInit => WaitsTyped
BY WindowAssumption DEF WindowAssumption, WindowInit, WaitsTyped, NoneWaits

LEMMA WaitsStep == WindowInv /\ WaitsTyped /\ [WindowNext]_windowVars => WaitsTyped'
<1>. SUFFICES ASSUME WindowInv, WaitsTyped, [WindowNext]_windowVars PROVE WaitsTyped'
  OBVIOUS
<1>. USE WindowAssumption DEF WindowAssumption
<1>. DEFINE Waiting == [owner : Owners \union {Unbound}, until : 0..(MaxClock + RestoreTime)]
<1>1. clock \in 0..MaxClock /\ excused \subseteq ProcessIds /\ toRestore \in [ProcessIds -> Waiting]
  BY DEF WaitsTyped
<1>2. NoneWaits \in Waiting
  BY DEF NoneWaits
<1>3. There \subseteq ProcessIds /\ \A a \in Owners \union {Unbound} : ClientsOf(a) \subseteq ProcessIds
  BY DEF There, ClientsOf
<1>4. SUFFICES clock' \in 0..MaxClock /\ excused' \subseteq ProcessIds /\ toRestore' \in [ProcessIds -> Waiting]
  BY DEF WaitsTyped
<1>. HIDE DEF Waiting
<1>5. CASE UNCHANGED windowVars
  BY <1>1, <1>5 DEF windowVars
<1>6. ASSUME NEW p \in ProcessIds, NEW owner \in Owners \union {Unbound}, ClientOpens(p, owner) PROVE <1>4!1
  BY <1>1, <1>3, <1>6 DEF ClientOpens
<1>7. ASSUME NEW p \in ProcessIds, NEW owner \in Owners, BindClient(p, owner) PROVE <1>4!1
  BY <1>1, <1>3, <1>7 DEF BindClient
<1>8. ASSUME NEW p \in ProcessIds, NEW spot \in Spots, WindowMoves(p, spot) PROVE <1>4!1
  BY <1>1, <1>8 DEF WindowMoves
<1>9. ASSUME NEW p \in ProcessIds, WindowEnds(p) \/ WindowShows(p) \/ UserFocuses(p) \/ ScreenSaves(p) \/ ScreenRestores(p)
      PROVE  <1>4!1
  BY <1>1, <1>9 DEF WindowEnds, WindowShows, UserFocuses, ScreenSaves, ScreenRestores
<1>10. CASE Remembers
  BY <1>1, <1>3, <1>10 DEF Remembers
<1>11. CASE TimeGoesBy
  BY <1>1, <1>11 DEF TimeGoesBy
<1>12. CASE ScanClients \/ CaptureWindows \/ CloseByRules
  BY <1>1, <1>12 DEF ScanClients, CaptureWindows, CloseByRules
<1>13. CASE ForgetRestores
  BY <1>1, <1>2, <1>13 DEF ForgetRestores
<1>14. CASE RestoreWindows
  <2>1. \A p \in ProcessIds : Queued[p] \in Waiting
    <3>1. TAKE p \in ProcessIds
    <3>2. round \in Rounds /\ (round.seen[p].owner \in Owners \union {Unbound})
      BY DEF WindowInv, WindowsTyped, Rounds
    <3>3. clock + RestoreTime \in 0..(MaxClock + RestoreTime)
      BY <1>1
    <3>4. toRestore[p] \in Waiting
      BY <1>1
    <3>. QED BY <3>2, <3>3, <3>4 DEF Queued, Waiting
  <2>2. toRestore' \in [ProcessIds -> Waiting]
    <3>1. \A p \in ProcessIds : toRestore'[p] \in {NoneWaits, Queued[p]}
      BY <1>14 DEF RestoreWindows
    <3>2. toRestore' = [p \in ProcessIds |-> toRestore'[p]]
      BY <1>14 DEF RestoreWindows
    <3>. QED BY <1>2, <2>1, <3>1, <3>2
  <2>3. excused' \subseteq ProcessIds
    BY <1>1, <1>14 DEF RestoreWindows
  <2>. QED BY <1>1, <1>14, <2>2, <2>3 DEF RestoreWindows
<1>. QED BY <1>5, <1>6, <1>7, <1>8, <1>9, <1>10, <1>11, <1>12, <1>13, <1>14 DEF WindowNext

LEMMA WindowsAreTyped == WindowInv /\ WaitsTyped => WindowTypeOK
<1>. SUFFICES ASSUME WindowInv, WaitsTyped PROVE WindowTypeOK
  OBVIOUS
<1>1. \A p \in ProcessIds : window[p] \in Clients
  BY DEF WindowInv, WindowsTyped
<1>. QED BY <1>1 DEF WindowInv, WindowsTyped, WaitsTyped, WindowTypeOK, Rounds, Clients

-----------------------------------------------------------------------------
(* Caps in the files of the client (module ClientSettings).                 *)

\* A cap in a file of the client is one that was asked for, or chosen in the client.
FlagCaps == FrameCaps \union {Uncapped, 0}
GlobalCaps == FrameCaps \union ClientCaps \union {Uncapped}
CapFits(k) ==
    /\ k.cap \in FrameCaps \union {Keeps, Default} /\ (k.at = "cap" => k.cap # Keeps)
    /\ k.before \in FlagCaps
CapsInv ==
    /\ \A d \in Folders : flags[d].cap \in FlagCaps
    /\ globals.cap \in GlobalCaps /\ globalsKept.cap \in GlobalCaps
    /\ \A u \in Appliers : CapFits(applying[u])

\* What a method of the patcher leaves.
CapsFit ==
    /\ \A d \in Folders : flags'[d].cap \in FlagCaps
    /\ globals'.cap \in GlobalCaps /\ globalsKept'.cap \in GlobalCaps

LEMMA CapsWritten ==
    ASSUME FilesInv, CapsInv, NEW cap \in FlagCaps, NEW mirrors, WritesFlags(WithCap(cap), mirrors)
    PROVE  \A d \in Folders : flags'[d].cap \in FlagCaps
<1>1. \A d \in Folders : flags[d] \in FlagFiles
  BY DEF FilesInv, FilesTyped
<1>2. active \in Folders /\ WithCap(cap).cap = cap
  BY <1>1 DEF WithCap, FlagFiles, FilesInv, FilesTyped
<1>3. PICK new : new = WithCap(cap)
  OBVIOUS
<1>4. \A d \in Folders : flags'[d] = IF d = active THEN new
                                     ELSE IF d \in mirrors THEN Mirrored(flags[d], new) ELSE flags[d]
  BY <1>3 DEF WritesFlags
<1>5. \A d \in Folders : Mirrored(flags[d], new).cap = cap
  BY <1>1, <1>2, <1>3 DEF Mirrored, FlagFiles
<1>. QED BY <1>2, <1>3, <1>4, <1>5 DEF CapsInv

LEMMA GlobalsWritten ==
    ASSUME FilesInv, CapsInv
    PROVE  /\ \A cap \in FrameCaps : CapsGlobals(cap) => globals'.cap \in GlobalCaps /\ globalsKept'.cap \in GlobalCaps
           /\ RestoresGlobals \/ LeavesGlobals \/ CopiesAtMost =>
                  globals'.cap \in GlobalCaps /\ globalsKept'.cap \in GlobalCaps
<1>1. globals \in GlobalFiles /\ globalsKept \in GlobalFiles /\ globals.cap \in GlobalCaps /\ globalsKept.cap \in GlobalCaps
  BY DEF FilesInv, FilesTyped, CapsInv
<1>2. CopiedOnce.cap \in GlobalCaps
  BY <1>1 DEF CopiedOnce
<1>3. ASSUME NEW cap \in FrameCaps, CapsGlobals(cap) PROVE globals'.cap \in GlobalCaps /\ globalsKept'.cap \in GlobalCaps
  BY <1>1, <1>2, <1>3 DEF CapsGlobals, GlobalFiles, GlobalCaps
<1>4. CASE RestoresGlobals
  BY <1>1, <1>4 DEF RestoresGlobals, GlobalFiles
<1>5. CASE LeavesGlobals \/ CopiesAtMost
  BY <1>1, <1>2, <1>5 DEF LeavesGlobals, CopiesAtMost
<1>. QED BY <1>3, <1>4, <1>5

LEMMA MethodsCap ==
    ASSUME FilesInv, CapsInv
    PROVE  /\ \A cap \in FlagCaps \ {Uncapped} : SetFpsCap(cap) \/ SetFpsCapFails(cap) => CapsFit
           /\ RemoveFpsCap \/ RemoveFpsCapFails => CapsFit
           /\ \A cap \in FrameCaps \union {0} : PatchLaunchSettings(cap) \/ PatchLaunchSettingsFails(cap) => CapsFit
<1>. USE ClientSettingsAssumption DEF ClientSettingsAssumption
<1>1. Uncapped \in FlagCaps /\ Uncapped = -1 /\ \A cap \in FlagCaps : cap > 0 => cap \in FrameCaps
  BY DEF FlagCaps, Uncapped
<1>2. LeavesFlags => \A d \in Folders : flags'[d].cap \in FlagCaps
  BY DEF LeavesFlags, CapsInv
<1>3. RefusedFirst => CapsFit
  BY <1>2, GlobalsWritten DEF RefusedFirst, CapsFit
<1>4. ASSUME NEW cap \in FlagCaps, NEW asked, RefusedLast(WithCap(cap), asked) PROVE CapsFit
  <2>1. \A d \in Folders : flags'[d].cap \in FlagCaps
    BY <1>4, CapsWritten DEF RefusedLast
  <2>2. LeavesGlobals \/ CopiesAtMost
    BY <1>4 DEF RefusedLast
  <2>. QED BY <2>1, <2>2, GlobalsWritten DEF CapsFit
<1>5. ASSUME NEW cap \in FlagCaps, NEW mirrors, Works(WithCap(cap), mirrors)
      PROVE  \A d \in Folders : flags'[d].cap \in FlagCaps
  BY <1>5, CapsWritten DEF Works
<1>6. ASSUME NEW cap \in FlagCaps \ {Uncapped}, SetFpsCap(cap) \/ SetFpsCapFails(cap) PROVE CapsFit
  <2>1. CASE SetFpsCap(cap)
    <3>1. \A d \in Folders : flags'[d].cap \in FlagCaps
      BY <1>5, <2>1 DEF SetFpsCap
    <3>2. (cap > 0 /\ CapsGlobals(cap)) \/ LeavesGlobals
      BY <2>1 DEF SetFpsCap
    <3>. QED BY <1>1, <3>1, <3>2, GlobalsWritten DEF CapsFit
  <2>2. CASE SetFpsCapFails(cap)
    BY <1>3, <1>4, <2>2 DEF SetFpsCapFails
  <2>. QED BY <1>6, <2>1, <2>2
<1>7. ASSUME RemoveFpsCap \/ RemoveFpsCapFails PROVE CapsFit
  <2>1. CASE RemoveFpsCap
    <3>1. \A d \in Folders : flags'[d].cap \in FlagCaps
      BY <1>1, <1>2, <1>5, <2>1 DEF RemoveFpsCap
    <3>. QED BY <2>1, <3>1, GlobalsWritten DEF CapsFit, RemoveFpsCap
  <2>2. CASE RemoveFpsCapFails
    BY <1>1, <1>3, <1>4, <2>2 DEF RemoveFpsCapFails
  <2>. QED BY <1>7, <2>1, <2>2
<1>8. ASSUME NEW cap \in FrameCaps \union {0}, PatchLaunchSettings(cap) \/ PatchLaunchSettingsFails(cap) PROVE CapsFit
  <2>1. PICK c \in FlagCaps : Patched(cap) = WithCap(c)
    BY <1>1 DEF Patched, FlagCaps
  <2>2. CASE PatchLaunchSettings(cap)
    <3>1. \A d \in Folders : flags'[d].cap \in FlagCaps
      BY <1>5, <2>1, <2>2 DEF PatchLaunchSettings
    <3>2. RestoresGlobals \/ (cap \in FrameCaps /\ CapsGlobals(cap))
      BY <2>2 DEF PatchLaunchSettings
    <3>. QED BY <3>1, <3>2, GlobalsWritten DEF CapsFit
  <2>3. CASE PatchLaunchSettingsFails(cap)
    BY <1>3, <1>4, <2>1, <2>3 DEF PatchLaunchSettingsFails
  <2>. QED BY <1>8, <2>2, <2>3
<1>. QED BY <1>6, <1>7, <1>8

LEMMA CapsBegin == ClientSettingsInit => CapsInv
<1>. SUFFICES ASSUME ClientSettingsInit PROVE CapsInv
  OBVIOUS
<1>1. \A d \in Folders : flags[d].cap \in FlagCaps
  <2>1. \A d \in Folders : flags[d] \in {NoFlags, [NoFlags EXCEPT !.there = TRUE, !.own = TRUE]}
    BY DEF ClientSettingsInit
  <2>2. \A f \in {NoFlags, [NoFlags EXCEPT !.there = TRUE, !.own = TRUE]} : f.cap = Uncapped
    <3>1. PICK f : f = NoFlags
      OBVIOUS
    <3>2. f = [there |-> FALSE, cap |-> Uncapped, own |-> FALSE]
      BY <3>1 DEF NoFlags
    <3>3. PICK own : own = [f EXCEPT !.there = TRUE, !.own = TRUE]
      OBVIOUS
    <3>4. own = [there |-> TRUE, cap |-> Uncapped, own |-> TRUE]
      BY <3>2, <3>3
    <3>5. own.cap = Uncapped /\ f.cap = Uncapped
      BY <3>2, <3>4
    <3>6. \A g \in {f, own} : g.cap = Uncapped
      BY <3>5
    <3>. QED BY <3>1, <3>3, <3>6
  <2>. QED BY <2>1, <2>2 DEF FlagCaps
<1>2. globals.cap \in GlobalCaps /\ globalsKept.cap \in GlobalCaps
  <2>1. NoGlobals.cap = Uncapped /\ \A f \in [there : {TRUE}, cap : ClientCaps, volume : {1}] : f.cap \in ClientCaps
    BY DEF NoGlobals
  <2>. QED BY <2>1 DEF ClientSettingsInit, GlobalCaps
<1>3. \A u \in Appliers : CapFits(applying[u])
  BY DEF ClientSettingsInit, NotApplying, CapFits, FlagCaps, Default, Uncapped
<1>. QED BY <1>1, <1>2, <1>3 DEF CapsInv

LEMMA CapsStep == FilesInv /\ CapsInv /\ [ClientSettingsNext]_clientFileVars => CapsInv'
<1>. SUFFICES ASSUME FilesInv, CapsInv, [ClientSettingsNext]_clientFileVars PROVE CapsInv'
  OBVIOUS
<1>. USE ClientSettingsAssumption DEF ClientSettingsAssumption
<1>1. \A u \in Appliers : applying[u] \in Applications /\ CapFits(applying[u])
  BY DEF FilesInv, FilesTyped, CapsInv
<1>2. NotApplying.cap = Default /\ CapFits(NotApplying)
  BY DEF NotApplying, CapFits, FlagCaps, Default, Uncapped
<1>3. Uncapped = -1 /\ Default = -1 /\ Keeps = -2
  BY DEF Uncapped, Default, Keeps
<1>4. \A u \in Appliers : CapFits(NotAlone(applying[u]))
  BY <1>1 DEF NotAlone, CapFits, Applications
<1>5. ASSUME NEW u \in Appliers, NEW k, CapFits(k), Steps(u, k)
      PROVE  \A v \in Appliers : CapFits(applying'[v])
  BY <1>4, <1>5 DEF Steps
<1>6. ASSUME NEW u \in Appliers, ApplyEnds(u) \/ After(u, "globals") \/ After(u, "undo")
      PROVE  \A v \in Appliers : CapFits(applying'[v])
  <2>1. \A at \in {"globals", "undo"} : CapFits([applying[u] EXCEPT !.at = at, !.touched = TRUE])
    BY <1>1 DEF CapFits, Applications
  <2>. QED BY <1>2, <1>5, <1>6, <2>1 DEF ApplyEnds, After
<1>7. NobodyIsAlone => \A v \in Appliers : CapFits(applying'[v])
  BY <1>4 DEF NobodyIsAlone
<1>8. ASSUME CapsFit, \A v \in Appliers : CapFits(applying'[v]) PROVE CapsInv'
  BY <1>8 DEF CapsFit, CapsInv, CapFits, FlagCaps
<1>9. UNCHANGED <<flags, globals, globalsKept>> => CapsFit
  BY DEF CapsInv, CapsFit
<1>10. CASE UNCHANGED clientFileVars
  BY <1>1, <1>8, <1>9, <1>10 DEF clientFileVars
<1>11. ASSUME NEW u \in Appliers, NEW cap \in FrameCaps \union {Keeps, Default}, NEW volume \in {0, Asked},
              BeginApply(u, cap, volume)
       PROVE  CapsInv'
  <2>1. flags[active].cap \in FlagCaps
    BY DEF CapsInv, FilesInv, FilesTyped
  <2>2. PICK k : k = [NotApplying EXCEPT !.at = IF cap = Keeps THEN "globals" ELSE "cap", !.cap = cap,
                                         !.volume = volume, !.before = flags[active].cap]
    OBVIOUS
  <2>3. CapFits(k)
    BY <2>1, <2>2 DEF CapFits, NotApplying
  <2>4. \A v \in Appliers : applying'[v] = IF v = u THEN k ELSE applying[v]
    BY <1>11, <2>2 DEF BeginApply, FilesInv, FilesTyped
  <2>. QED BY <1>1, <1>8, <1>9, <1>11, <2>3, <2>4 DEF BeginApply
<1>12. ASSUME NEW u \in Appliers, ApplyCap(u) \/ ApplyCapFails(u) PROVE CapsInv'
  <2>1. \A v \in Appliers : CapFits(applying'[v])
    BY <1>6, <1>12 DEF ApplyCap, ApplyCapFails
  <2>2. applying[u].cap = Default \/ applying[u].cap \in FlagCaps \ {Uncapped}
    BY <1>1, <1>3, <1>12 DEF ApplyCap, ApplyCapFails, CapFits, FlagCaps
  <2>3. CapsFit
    BY <1>12, <2>2, MethodsCap DEF ApplyCap, ApplyCapFails
  <2>. QED BY <1>8, <2>1, <2>3
<1>13. ASSUME NEW u \in Appliers, ApplyGlobals(u) \/ ApplyGlobalsFails(u) PROVE CapsInv'
  <2>1. \A v \in Appliers : CapFits(applying'[v])
    BY <1>6, <1>13 DEF ApplyGlobals, ApplyGlobalsFails
  <2>2. CapsFit
    <3>1. globals \in GlobalFiles /\ globals.cap \in GlobalCaps /\ CopiedOnce.cap \in GlobalCaps
      BY DEF FilesInv, FilesTyped, CapsInv, CopiedOnce
    <3>2. CASE ApplyGlobals(u)
      BY <3>1, <3>2 DEF ApplyGlobals, ApplyGlobalSettings, LeavesFlags, CapsFit, CapsInv, GlobalFiles
    <3>3. CASE ApplyGlobalsFails(u)
      BY <3>1, <3>3, GlobalsWritten DEF ApplyGlobalsFails, ApplyGlobalSettingsFails, LeavesFlags, CapsFit, CapsInv
    <3>. QED BY <1>13, <3>2, <3>3
  <2>. QED BY <1>8, <2>1, <2>2
<1>14. ASSUME NEW u \in Appliers, UndoCap(u) \/ UndoCapFails(u) PROVE CapsInv'
  <2>1. \A v \in Appliers : CapFits(applying'[v])
    BY <1>6, <1>14 DEF UndoCap, UndoCapFails
  <2>2. applying[u].before \in FlagCaps
    BY <1>1 DEF CapFits
  <2>3. CapsFit
    BY <1>14, <2>2, MethodsCap DEF UndoCap, UndoCapFails
  <2>. QED BY <1>8, <2>1, <2>3
<1>15. ASSUME NEW cap \in FrameCaps \union {0}, LaunchPatches(cap) PROVE CapsInv'
  <2>1. CapsFit
    BY <1>15, MethodsCap DEF LaunchPatches
  <2>. QED BY <1>7, <1>8, <1>15, <2>1 DEF LaunchPatches
<1>16. ASSUME NEW cap \in FrameCaps \union {0, Default}, ScreenSetsCap(cap) PROVE CapsInv'
  <2>1. cap # Default => cap \in FlagCaps \ {Uncapped}
    BY <1>3 DEF FlagCaps
  <2>2. CapsFit
    BY <1>16, <2>1, MethodsCap DEF ScreenSetsCap
  <2>. QED BY <1>7, <1>8, <1>16, <2>2 DEF ScreenSetsCap
<1>17. ASSUME NEW cap \in ClientCaps, NEW volume \in Volumes, ClientSaves(cap, volume) PROVE CapsInv'
  <2>1. CapsFit
    BY <1>17 DEF ClientSaves, CapsFit, CapsInv, GlobalCaps
  <2>. QED BY <1>1, <1>8, <1>17, <2>1 DEF ClientSaves
<1>18. ASSUME NEW d \in Folders, RobloxUpdates(d) PROVE CapsInv'
  BY <1>7, <1>8, <1>9, <1>18 DEF RobloxUpdates
<1>. QED BY <1>10, <1>11, <1>12, <1>13, <1>14, <1>15, <1>16, <1>17, <1>18 DEF ClientSettingsNext

LEMMA FilesAreTyped == FilesInv /\ CapsInv => ClientFilesTypeOK
<1>. SUFFICES ASSUME FilesInv, CapsInv PROVE ClientFilesTypeOK
  OBVIOUS
<1>1. \A u \in Appliers : applying[u] \in Applications
  BY DEF FilesInv, FilesTyped
<1>. QED BY <1>1 DEF FilesInv, FilesTyped, CapsInv, ClientFilesTypeOK, FlagCaps, GlobalCaps, Applications

-----------------------------------------------------------------------------
(* The records of the program.                                              *)

LEMMA RecordsTakeTheirSteps ==
    [RecordsNext]_recordsVars =>
        /\ [StoreNext]_storeVars /\ [ClientSettingsNext]_clientFileVars /\ [SchedulerNext]_scheduleVars
        /\ [WindowNext]_windowVars /\ [TransactionsNext]_transactionVars /\ [BackupNext]_backupVars
        /\ [ImportsNext]_importVars /\ [UpdaterNext]_updaterVars /\ [LogNext]_logVars
        /\ [MultiNext]_multiVars /\ [LookupNext]_lookupVars
<1>. SUFFICES ASSUME [RecordsNext]_recordsVars
              PROVE  /\ [StoreNext]_storeVars /\ [ClientSettingsNext]_clientFileVars /\ [SchedulerNext]_scheduleVars
                     /\ [WindowNext]_windowVars /\ [TransactionsNext]_transactionVars /\ [BackupNext]_backupVars
                     /\ [ImportsNext]_importVars /\ [UpdaterNext]_updaterVars /\ [LogNext]_logVars
                     /\ [MultiNext]_multiVars /\ [LookupNext]_lookupVars
  OBVIOUS
<1>1. CASE UNCHANGED recordsVars
  BY <1>1 DEF recordsVars
<1>2. CASE RecordsNext
  BY <1>2 DEF RecordsNext
<1>. QED BY <1>1, <1>2

\* What holds of the parts, whichever of them takes its steps.
RecordsInv ==
    /\ StoreInv /\ CopyInv /\ FilesInv /\ CapsInv /\ ScheduleInv /\ WindowInv /\ WaitsTyped
    /\ BlocksInv /\ BackupInv /\ UpdateKept /\ MultiTypeOK
    /\ LookupInv /\ LogInv /\ ImportsInv

LEMMA RecordsKept == RecordsSpec => []RecordsInv
<1>1. RecordsInit => RecordsInv
  <2>. SUFFICES ASSUME RecordsInit PROVE RecordsInv
    OBVIOUS
  <2>1. StoreInv /\ CopyInv /\ FilesInv /\ CapsInv
    BY StoreBegins, CopyBegins, FilesBegin, CapsBegin DEF RecordsInit
  <2>2. ScheduleInv /\ WindowInv /\ WaitsTyped
    BY ScheduleBegins, WindowsBegin, WaitsBegin DEF RecordsInit
  <2>3. BlocksInv /\ BackupInv /\ UpdateKept /\ MultiTypeOK
    BY BlocksInit, BackupStart, UpdateKeptStart, LockTyped DEF RecordsInit
  <2>4. LookupInv /\ LogInv /\ ImportsInv
    BY LookupBegins, LogBegins, ImportsBegin DEF RecordsInit
  <2>. QED BY <2>1, <2>2, <2>3, <2>4 DEF RecordsInv
<1>2. RecordsInv /\ [RecordsNext]_recordsVars => RecordsInv'
  <2>. SUFFICES ASSUME RecordsInv, [RecordsNext]_recordsVars PROVE RecordsInv'
    OBVIOUS
  <2>1. StoreInv' /\ CopyInv' /\ FilesInv' /\ CapsInv'
    BY RecordsTakeTheirSteps, StoreStepLemma, CopyStep, FilesStep, CapsStep DEF RecordsInv
  <2>2. ScheduleInv' /\ WindowInv' /\ WaitsTyped'
    BY RecordsTakeTheirSteps, ScheduleStep, WindowStep, WaitsStep DEF RecordsInv
  <2>3. BlocksInv' /\ BackupInv' /\ UpdateKept' /\ MultiTypeOK'
    BY RecordsTakeTheirSteps, BlocksStep, BackupStep, UpdateKeptStep, LockTyped DEF RecordsInv
  <2>4. LookupInv' /\ LogInv' /\ ImportsInv'
    BY RecordsTakeTheirSteps, LookupStep, LogStep, ImportsStep DEF RecordsInv
  <2>. QED BY <2>1, <2>2, <2>3, <2>4 DEF RecordsInv
<1>. QED BY <1>1, <1>2, PTL DEF RecordsSpec

\* Whatever the parts keep is of its type: rows, blocks, copies, imports, versions, the log of a
\* client, tasks, holders of the mutex, answers, files of the client and windows.
THEOREM RecordTypes == RecordsSpec => []RecordsTypeOK
<1>1. RecordsInv => RecordsTypeOK
  <2>. SUFFICES ASSUME RecordsInv PROVE RecordsTypeOK
    OBVIOUS
  <2>1. StoreTypeOK
    BY StoreIsKept DEF RecordsInv
  <2>2. TransactionsTypeOK
    BY TransactionsAssumption DEF RecordsInv, BlocksInv, BlocksTyped, CountFits, TransactionsTypeOK
  <2>3. BackupTypeOK
    BY DEF RecordsInv, BackupInv, StoreFits, BackupsFit, RestoreFits, ClosedFits, BackupTypeOK, BackupRecord,
       MakerRecord, RestoreRecord
  <2>4. UpdaterTypeOK /\ ScheduleTypeOK /\ MultiTypeOK
    BY UpdatesAreTyped DEF RecordsInv, ScheduleInv
  <2>5. ImportsTypeOK
    BY ImportsFit DEF RecordsInv
  <2>6. LogTypeOK
    BY LogTypesFit DEF RecordsInv, LogInv
  <2>7. LookupTypeOK
    BY LookupsFit DEF RecordsInv
  <2>8. ClientFilesTypeOK
    BY FilesAreTyped DEF RecordsInv
  <2>9. WindowTypeOK
    BY WindowsAreTyped DEF RecordsInv
  <2>. QED BY <2>1, <2>2, <2>3, <2>4, <2>5, <2>6, <2>7, <2>8, <2>9 DEF RecordsTypeOK
<1>. QED BY <1>1, RecordsKept, PTL

\* What the screen says is so: once a scan has read a log to its end the label is what the last line
\* that tells of the client says, from the first such line on after scans that crossed, events that
\* were dropped or a file that was replaced; the slot of a task is the one at which it comes due; and
\* an answer of Roblox is shown for no longer than it is good for (roblox_log_runtime.py,
\* scheduler.py and client.py).
THEOREM ShownSoAlways == RecordsSpec => []ShownIsSo
<1>1. RecordsInv => ShownIsSo
  BY LogSaysSo, ScheduleIsShown, LookupsFit DEF RecordsInv, ShownIsSo
<1>. QED BY <1>1, RecordsKept, PTL

\* An import changes the tables only when all of it is written, leaves the rows that were there when
\* it is a transfer, shows no session without its secret, and its report counts what is new; and an
\* export taken to an empty workspace brings back every group, account and game
\* (transfer.py, legacy_migrator.py and import_bulk_accounts).
THEOREM ImportsStaySafe == RecordsSpec => ImportsAreSafe
<1>1. RecordsInv => ReportIsTrue /\ ExportComesBack
  BY ReportsAreTrue, ExportsComeBack DEF RecordsInv
<1>2. RecordsInv /\ [RecordsNext]_recordsVars => [WholeStep]_importVars
  BY RecordsTakeTheirSteps, ImportsStayWhole DEF RecordsInv
<1>3. RecordsSpec => [](ReportIsTrue /\ ExportComesBack)
  BY <1>1, RecordsKept, PTL
<1>4. RecordsSpec => [][WholeStep]_importVars
  BY <1>2, RecordsKept, PTL DEF RecordsSpec
<1>5. [][WholeStep]_importVars => ImportsAreWhole
  BY DEF WholeStep, ImportsAreWhole
<1>. QED BY <1>3, <1>4, <1>5, PTL DEF ImportsAreSafe

\* Of an account that one call at a time works on, while no removal or rollback is refused half way,
\* a session or a connection that it shows is backed by a secret of its user, whatever step of
\* whatever call fails; and the copy of the client's settings holds what the user chose.
THEOREM CopiesAlwaysFit == RecordsSpec => []CopiesFit
<1>1. RecordsInv => CopiesFit
  BY StoreIsKept, CopyIsKept DEF CopiesFit, RecordsInv
<1>. QED BY <1>1, RecordsKept, PTL

\* A login or a connection that fails leaves the account and its secrets as it found them, unless
\* another call worked on the account or the rollback is refused as well.
THEOREM FailuresLeaveNothing == RecordsSpec => FailedCallLeavesNothing
<1> DEFINE AsBefore == \A c \in Callers :
                          /\ call[c].at \in {"linkTakeBack", "loginUndo"} /\ call'[c].at = "idle"
                          /\ call[c].id \notin overlapped /\ ~ halved'
                          /\ call[c].op = "cookie" => call[c].made
                          => <<accounts'[call[c].id], secrets'[call[c].id]>> = call[c].before
<1>1. StoreInv /\ [StoreNext]_storeVars => AsBefore
  BY UndoneIsAsBefore
<1>2. StoreInv /\ [RecordsNext]_recordsVars => [AsBefore]_storeVars
  BY <1>1, RecordsTakeTheirSteps
<1>3. RecordsSpec => []StoreInv
  <2>1. RecordsInv => StoreInv
    BY DEF RecordsInv
  <2>. QED BY <2>1, RecordsKept, PTL
<1>. QED BY <1>2, <1>3, PTL DEF RecordsSpec, FailedCallLeavesNothing

\* Whatever is refused half way, the flags of the user stay in every version, the volume changes only
\* to what was asked, and a call that ends without all it was asked for has put the cap back.
THEOREM ClientFilesAreKept == RecordsSpec => ClientFilesSurvive
<1>1. RecordsInv /\ [RecordsNext]_recordsVars => [OwnFlagsStay /\ VolumesStay /\ RefusalIsUndone]_clientFileVars
  BY RecordsTakeTheirSteps, FilesStep DEF RecordsInv, FilesAct
<1>. QED BY <1>1, RecordsKept, PTL DEF RecordsSpec, ClientFilesSurvive

\* A place that was saved for the windows of an account is not overwritten by the one where Roblox
\* opens them, and comes back to the windows of that account only, however the rounds of the watcher,
\* the screens, the user and the ends of clients interleave.
THEOREM LayoutsAreKept == RecordsSpec => LayoutsHold
<1>1. RecordsInv /\ [RecordsNext]_recordsVars => [LayoutIsKept /\ RestoredAsItsOwn]_windowVars
  BY RecordsTakeTheirSteps, WindowStep DEF RecordsInv, WindowAct
<1>. QED BY <1>1, RecordsKept, PTL DEF RecordsSpec, LayoutsHold

\* What is refused or undone half way loses nothing: an account and its secrets, what the user chose
\* in the client, and where the windows of an account are.
THEOREM NothingIsEverLost == RecordsSpec => NothingIsLost
BY FailuresLeaveNothing, ClientFilesAreKept, LayoutsAreKept DEF NothingIsLost

\* The slot the schedule shows for a task is the next one at which the task comes due, whatever its
\* days, its hour and its last run: between now and that slot nothing new becomes due.
THEOREM SchedulesAgree == RecordsSpec => []ShownSlotComesDue
<1>1. RecordsInv => ShownSlotComesDue
  BY ScheduleIsShown DEF RecordsInv
<1>. QED BY <1>1, RecordsKept, PTL
=============================================================================
