------------------------------ MODULE Transactions ------------------------------
(***************************************************************************)
(* SQLiteRepository.transaction(): a block that begins a transaction, or a *)
(* savepoint inside one, counts how deep it is in a variable of the        *)
(* repository and names the savepoint after it.  The repository's lock is  *)
(* held throughout, so one thread is modelled.  SQLite may refuse a BEGIN  *)
(* (busy, read-only, out of space) and may fail a COMMIT.                  *)
(***************************************************************************)
EXTENDS Integers, Sequences, SequencesExt

CONSTANTS
    MaxDepth,       \* bound: blocks one inside the other
    MaxBlocks       \* bound: blocks begun

ASSUME TransactionsAssumption == MaxDepth \in Nat \ {0} /\ MaxBlocks \in Nat

VARIABLES
    depth,          \* _transaction_depth
    blocks,         \* the blocks the thread is in: the statement each has run
    open,           \* what is open in SQLite: the statements of a transaction and of each savepoint
    durable,        \* statements that are committed
    undone,         \* statements of blocks that raised, or were inside one that did
    refusals,       \* BEGINs that were refused
    entered         \* statements run so far, one a block

transactionVars == <<depth, blocks, open, durable, undone, refusals, entered>>

TransactionsInit ==
    /\ depth = 0 /\ blocks = <<>> /\ open = <<>>
    /\ durable = {} /\ undone = {} /\ refusals = 0 /\ entered = 0

\* A name with a minus sign in it is a syntax error.
Nameable == depth > 0

EnterBlock ==
    /\ entered < MaxBlocks /\ Len(blocks) < MaxDepth
    /\ IF depth = 0 THEN open = <<>> ELSE Nameable
    /\ entered' = entered + 1
    /\ depth' = depth + 1
    /\ blocks' = Append(blocks, entered + 1)
    /\ open' = Append(open, {entered + 1})
    /\ UNCHANGED <<durable, undone, refusals>>

\* The except branch takes one off the depth although nothing was added, and rolls back whatever
\* an earlier COMMIT left open.
RefuseBlock ==
    /\ entered < MaxBlocks /\ blocks = <<>> /\ depth = 0
    /\ entered' = entered + 1
    /\ depth' = depth - 1 /\ refusals' = refusals + 1
    /\ open' = <<>> /\ undone' = undone \cup UNION ToSet(open)
    /\ UNCHANGED <<blocks, durable>>

\* From then on every block is a savepoint with an impossible name.
RefuseSavepoint ==
    /\ entered < MaxBlocks /\ blocks = <<>> /\ depth < 0
    /\ entered' = entered + 1
    /\ depth' = depth - 1 /\ refusals' = refusals + 1
    /\ UNCHANGED <<blocks, open, durable, undone>>

\* An exception leaves the block: ROLLBACK, or ROLLBACK TO its savepoint.
RaiseInBlock ==
    /\ blocks # <<>>
    /\ depth' = depth - 1 /\ blocks' = Front(blocks)
    /\ open' = Front(open) /\ undone' = undone \cup Last(open)
    /\ UNCHANGED <<durable, refusals, entered>>

\* A plausible mistake: rolling the savepoint back in place of releasing it.
RolledBack == Front(open)

\* RELEASE keeps what the savepoint holds in the block around it.
Merged == [i \in 1..(Len(open) - 1) |-> IF i = Len(open) - 1 THEN open[i] \cup Last(open) ELSE open[i]]

LeaveBlock ==
    /\ blocks # <<>>
    /\ depth' = depth - 1 /\ blocks' = Front(blocks)
    /\ \/ Len(blocks) > 1 /\ open' = Merged /\ UNCHANGED <<durable, undone>>
       \/ Len(blocks) = 1 /\ open' = <<>> /\ durable' = durable \cup Last(open) /\ UNCHANGED undone
    /\ UNCHANGED <<refusals, entered>>

\* A COMMIT that fails has already left the count; the transaction stays open or SQLite ended it.
CommitFails ==
    /\ Len(blocks) = 1
    /\ depth' = depth - 1 /\ blocks' = <<>>
    /\ \/ UNCHANGED <<open, undone>>
       \/ open' = <<>> /\ undone' = undone \cup Last(open)
    /\ UNCHANGED <<durable, refusals, entered>>

TransactionsNext ==
    \/ EnterBlock \/ RefuseBlock \/ RefuseSavepoint \/ RaiseInBlock \/ LeaveBlock \/ CommitFails

TransactionsSpec == TransactionsInit /\ [][TransactionsNext]_transactionVars

TransactionsTypeOK == depth \in -MaxBlocks..MaxDepth /\ Len(blocks) <= MaxDepth /\ refusals \in 0..MaxBlocks

\* A transaction is all or nothing, however blocks nest and wherever one of them raises or the COMMIT
\* fails: no statement is ever both committed and undone; and as long as no BEGIN was refused the
\* depth counts the blocks, and every statement that ran is committed, undone or still open in SQLite.
BlocksAreAtomic ==
    /\ durable \cap undone = {}
    /\ refusals = 0 => /\ depth = Len(blocks)
                       /\ \A s \in 1..entered : s \in durable \/ s \in undone \/ \E i \in 1..Len(open) : s \in open[i]
=============================================================================
