---------------------------- MODULE ClickhouseTx ----------------------------
(***************************************************************************)
(* The logs and the traces exporter of ClickHouse: a push begins a         *)
(* transaction, prepares the INSERT, appends a row for every record and    *)
(* commits (pushLogsData, pushTraceData, doWithTx).  The driver collects   *)
(* the rows and sends them as one block when the transaction commits.      *)
(***************************************************************************)
EXTENDS RetryQueue

CONSTANTS
  Names,        \* the values of service.name, NoService included
  Services,     \* per batch: the service.name of each resource, or NoService
  NoService,    \* a resource without a service.name
  Signal,       \* "logs" or "traces"
  MaxLost       \* bound: blocks whose answer gets lost

ASSUME SignalAssumption ==
  /\ Signal \in {"logs", "traces"}
  /\ NoService \in Names
  /\ Services \in [Batches -> Seq(Names)]
  /\ MaxLost \in Nat

VARIABLES
  step,     \* where the push is: "begin", "prepare", "rows", "commit", or "none"
  tx,       \* the transactions that are open
  block,    \* the rows appended so far: the ServiceName of each
  carried,  \* the variable serviceName
  copies,   \* per batch, how often its block is in the table
  lost,     \* history: how often the answer to its block got lost
  table     \* the blocks in the table: their batch, which copy, and their rows

pushVars == <<step, tx, block, carried>>
dbVars   == <<copies, lost, table>>
vars     == <<queueVars, pushVars, dbVars>>

Init ==
  /\ QueueInit
  /\ step = "none" /\ tx = 0 /\ block = << >> /\ carried = NoService
  /\ copies = [b \in Batches |-> 0] /\ lost = [b \in Batches |-> 0]
  /\ table = {}

\* The consumer calls the push: the first time, and for every retry.
Start(b) ==
  /\ b \in Taken /\ sender = "pushing" /\ step = "none"
  /\ step' = "begin" /\ block' = << >> /\ carried' = NoService
  /\ UNCHANGED <<queueVars, tx, dbVars>>

\* db.Begin and tx.PrepareContext.
Begin ==
  /\ step = "begin"
  /\ step' = "prepare" /\ tx' = tx + 1
  /\ UNCHANGED <<queueVars, block, carried, dbVars>>

Prepare ==
  /\ step = "prepare"
  /\ step' = "rows"
  /\ UNCHANGED <<queueVars, tx, block, carried, dbVars>>

\* The logs exporter declares serviceName outside the loop over the resources,
\* the traces exporter inside it.
ServiceName(service) ==
  IF service # NoService THEN service
  ELSE IF Signal = "logs" THEN carried ELSE NoService

\* statement.ExecContext for the records of the next resource.
AppendRows(b) ==
  /\ b \in Taken /\ step = "rows" /\ Len(block) < Len(Services[b])
  /\ LET service == ServiceName(Services[b][Len(block) + 1]) IN
       /\ block' = Append(block, service)
       /\ carried' = service
  /\ UNCHANGED <<queueVars, step, tx, dbVars>>

RowsDone_OneShort(b) == Len(block) + 1 >= Len(Services[b])
RowsDone(b) == Len(block) = Len(Services[b])

\* The function of the transaction returns nil.
EndRows(b) ==
  /\ b \in Taken /\ step = "rows" /\ RowsDone(b)
  /\ step' = "commit"
  /\ UNCHANGED <<queueVars, tx, block, carried, dbVars>>

\* The deferred Rollback: it ends a transaction that has not been committed.
Rollback_OnlyInCommit(t) == IF step = "commit" /\ t > 0 THEN t - 1 ELSE t
Rollback_AfterCommitToo(t) == IF step = "commit" THEN t - 2 ELSE t - 1
Rollback(t) == IF t > 0 THEN t - 1 ELSE t

Leave == step' = "none" /\ tx' = Rollback(tx) /\ UNCHANGED <<block, carried>>

\* One of the calls returns an error before anything is sent: no connection,
\* the timeout of the push, a row that does not fit, or the server says no.
Fail(b) ==
  /\ b \in Taken /\ step # "none"
  /\ PushFails(b)
  /\ Leave
  /\ UNCHANGED dbVars

\* The server has the block.
Stored(b) == /\ copies' = [copies EXCEPT ![b] = @ + 1]
             /\ table' = table \cup {[batch |-> b, copy |-> copies[b] + 1, rows |-> block]}

Commit_IgnoresError(b) ==
  /\ b \in Taken /\ step = "commit"
  /\ Stored(b) \/ UNCHANGED <<copies, table>>
  /\ PushSucceeds(b)
  /\ Leave
  /\ UNCHANGED lost

Commit_ReportedAsFailed(b) ==
  /\ b \in Taken /\ step = "commit"
  /\ Stored(b)
  /\ PushFails(b)
  /\ Leave
  /\ UNCHANGED lost

Commit(b) ==
  /\ b \in Taken /\ step = "commit"
  /\ Stored(b)
  /\ PushSucceeds(b)
  /\ Leave
  /\ UNCHANGED lost

\* ... and the exporter never learns it.
CommitUnseen(b) ==
  /\ b \in Taken /\ step = "commit" /\ lost[b] < MaxLost
  /\ Stored(b) /\ lost' = [lost EXCEPT ![b] = @ + 1]
  /\ PushFails(b)
  /\ Leave

PushStep(b) == \/ Start(b) \/ Begin \/ Prepare \/ AppendRows(b) \/ EndRows(b)
               \/ Fail(b) \/ Commit(b) \/ CommitUnseen(b)

QueueOnly == QueueStep /\ UNCHANGED <<pushVars, dbVars>>
TakeNext  == (\E b \in Batches : Take(b)) /\ UNCHANGED <<pushVars, dbVars>>
Finished  == (helper = "closed" \/ (Quiet /\ ~MayClose)) /\ UNCHANGED vars

Next == QueueOnly \/ TakeNext \/ (\E b \in Batches : PushStep(b)) \/ Finished

Spec == Init /\ [][Next]_vars
-----------------------------------------------------------------------------
\* Type invariant of the variables above.
TypeOK ==
  /\ QueueTypeOK
  /\ step \in {"none", "begin", "prepare", "rows", "commit"}
  /\ tx \in Nat
  /\ block \in Seq(Names) /\ carried \in Names
  /\ copies \in [Batches -> Nat] /\ lost \in [Batches -> Nat]

\* A retry follows only a push whose block was not stored, or whose answer was
\* lost: every copy of a batch but one comes from a lost answer.
DuplicatesOnlyFromLostAnswers == \A b \in Batches : copies[b] <= lost[b] + 1

\* Whatever fails in between, a block reaches the table with all the rows of
\* its batch, once each, and none of an earlier attempt.
BlocksAreWhole == \A t \in table : Len(t.rows) = Len(Services[t.batch])

\* No transaction outlives its push: the deferred Rollback gives the
\* connection back, whichever call failed.
NoTransactionLeft == tx <= 1 /\ (step = "none" => tx = 0)

\* A row carries the service.name of its own resource ("Find log with specific
\* service", README.md:60), whatever other resources the batch has.
RowsNameTheirService ==
  \A t \in table : \A i \in DOMAIN t.rows : t.rows[i] = Services[t.batch][i]

\* A batch is one part, its block.
Blocks      == [b \in Batches |-> {"block"}]
BlockCopies == [b \in Batches |-> [p \in {"block"} |-> copies[b]]]

Delivery == INSTANCE BatchDelivery WITH stage <- Stage, copies <- BlockCopies, Parts <- Blocks

\* The exporter implements the delivery of batches: it reports a batch stored
\* only if its block is in the table.
ImplementsDelivery == Delivery!Spec
=============================================================================
