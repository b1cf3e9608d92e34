----------------------- MODULE ClickhouseTracesProofs -----------------------
(***************************************************************************)
(* Theorems about the logs and traces exporters, for any batches, queue,   *)
(* resources, spans and number of attempts: first those about the pushes,  *)
(* which ClickhouseTx models for both, then those about what the query     *)
(* extension reads of the traces.                                          *)
(***************************************************************************)
EXTENDS ClickhouseTraces, RetryQueueProofs, FunctionTheorems, FiniteSetTheorems

USE SignalAssumption DEF SignalAssumption

\* Every step is one of the queue, of its consumer, or of none of them.
LEMMA StepsAreMoves == ASSUME [Next]_vars PROVE QueueMove
<1>1. CASE QueueOnly \/ TakeNext
  BY <1>1 DEF QueueOnly, QueueStep, TakeNext, QueueMove
<1>2. ASSUME NEW b \in Batches, PushStep(b) PROVE QueueMove
  BY <1>2 DEF PushStep, Start, Begin, Prepare, AppendRows, EndRows, Fail, Commit, CommitUnseen, QueueMove
<1>3. CASE UNCHANGED vars
  BY <1>3 DEF vars, QueueMove
<1> QED BY <1>1, <1>2, <1>3 DEF Next, Finished

\* The type invariant holds in every state.
THEOREM TypeCorrect == Spec => []TypeOK
<1> USE DEF TypeOK
<1>1. Init => TypeOK
  BY QueueAssumption DEF QueueAssumption, QueueTypeOK, Init, QueueInit
<1>2. TypeOK /\ [Next]_vars => TypeOK'
  <2> SUFFICES ASSUME TypeOK, [Next]_vars PROVE TypeOK'
    OBVIOUS
  <2>0. QueueTypeOK'
    BY StepsAreMoves, QueueTyped
  <2> USE DEF pushVars, dbVars
  <2>1. ASSUME UNCHANGED <<pushVars, dbVars>> PROVE TypeOK'
    BY <2>0, <2>1
  <2>2. ASSUME NEW b \in Batches, Start(b) PROVE TypeOK'
    BY <2>0, <2>2 DEF Start
  <2>3. ASSUME NEW b \in Batches, Begin \/ Prepare \/ EndRows(b) PROVE TypeOK'
    BY <2>0, <2>3 DEF Begin, Prepare, EndRows
  <2>4. ASSUME NEW b \in Batches, AppendRows(b) PROVE TypeOK'
    BY <2>0, <2>4 DEF AppendRows, ServiceName
  <2>5. ASSUME NEW b \in Batches, Fail(b) PROVE TypeOK'
    BY <2>0, <2>5 DEF Fail, Leave, Rollback
  <2>6. ASSUME NEW b \in Batches, Commit(b) PROVE TypeOK'
    BY <2>0, <2>6 DEF Commit, Stored, Leave, Rollback
  <2>7. ASSUME NEW b \in Batches, CommitUnseen(b) PROVE TypeOK'
    <3>1. copies' \in [Batches -> Nat] /\ lost' \in [Batches -> Nat]
      BY <2>7 DEF CommitUnseen, Stored
    <3>2. step' = "none" /\ tx' \in Nat /\ UNCHANGED <<block, carried>>
      BY <2>7 DEF CommitUnseen, Leave, Rollback
    <3> QED BY <2>0, <3>1, <3>2
  <2> QED
    BY <2>1, <2>2, <2>3, <2>4, <2>5, <2>6, <2>7
       DEF Next, QueueOnly, TakeNext, PushStep, Finished, vars
<1> QED BY <1>1, <1>2, PTL DEF Spec

-----------------------------------------------------------------------------
(* One consumer, one transaction: a push is under way only while the        *)
(* consumer is pushing, and it has a transaction from its second step on.   *)

OneAtATime ==
  /\ OneTaken
  /\ step # "none" => sender = "pushing"
  /\ tx = IF step \in {"none", "begin"} THEN 0 ELSE 1

\* OneAtATime is preserved by every step.
THEOREM OneAtATimeInvariant == Spec => []OneAtATime
<1> USE DEF OneAtATime
<1>1. Init => OneAtATime
  BY DEF Init, QueueInit, OneTaken, Taken
<1>2. TypeOK /\ OneAtATime /\ [Next]_vars => OneAtATime'
  <2> SUFFICES ASSUME TypeOK, OneAtATime, [Next]_vars PROVE OneAtATime'
    OBVIOUS
  <2>0. OneTaken' /\ tx \in Nat
    BY StepsAreMoves, OneTakenKept DEF TypeOK
  <2> USE DEF queueVars, pushVars, dbVars
  <2>1. ASSUME QueueOnly PROVE OneAtATime'
    <3>1. UNCHANGED <<step, tx>>
      BY <2>1 DEF QueueOnly
    <3>2. UNCHANGED sender \/ sender' = "pushing" \/ sender = "waiting"
      BY <2>1 DEF QueueOnly, QueueStep, Enqueue, Retry, GiveUp, Done, Shutdown, CloseClient
    <3> QED BY <2>0, <3>1, <3>2
  <2>2. ASSUME TakeNext PROVE OneAtATime'
    BY <2>0, <2>2 DEF TakeNext, Take
  <2>3. ASSUME NEW b \in Batches, Start(b) \/ Begin \/ Prepare \/ EndRows(b) PROVE OneAtATime'
    BY <2>0, <2>3 DEF Start, Begin, Prepare, EndRows
  <2>4. ASSUME NEW b \in Batches, AppendRows(b) PROVE OneAtATime'
    BY <2>0, <2>4 DEF AppendRows
  <2>5. ASSUME NEW b \in Batches, Fail(b) \/ Commit(b) \/ CommitUnseen(b) PROVE OneAtATime'
    <3>1. step' = "none" /\ tx' = Rollback(tx)
      BY <2>5 DEF Fail, Commit, CommitUnseen, Leave
    <3>2. tx' = 0
      BY <3>1 DEF Rollback
    <3> QED BY <2>0, <3>1, <3>2
  <2>6. CASE UNCHANGED vars
    BY <2>0, <2>6 DEF vars
  <2> QED
    BY <2>1, <2>2, <2>3, <2>4, <2>5, <2>6 DEF Next, PushStep, Finished
<1> QED BY <1>1, <1>2, TypeCorrect, PTL DEF Spec

\* No transaction outlives its push, and there is never more than one.
THEOREM TransactionsEnd == Spec => []NoTransactionLeft
<1>1. OneAtATime => NoTransactionLeft
  BY DEF OneAtATime, NoTransactionLeft
<1> QED BY <1>1, OneAtATimeInvariant, PTL

-----------------------------------------------------------------------------
(* The copies of a batch, and what is in them.                              *)

BlockInv ==
  /\ \A b \in Batches : /\ copies[b] <= lost[b] + 1
                        /\ stage[b] # "stored" => copies[b] <= lost[b]
  /\ step = "commit" => \A b \in Taken : Len(block) = Len(Services[b])
  /\ \A t \in table : Len(t.rows) = Len(Services[t.batch])

\* BlockInv is preserved by every step.
THEOREM BlockInvariant == Spec => []BlockInv
<1> USE DEF BlockInv
<1>1. Init => BlockInv
  BY DEF Init, QueueInit
<1>2. TypeOK /\ OneAtATime /\ BlockInv /\ [Next]_vars => BlockInv'
  <2> SUFFICES ASSUME TypeOK, OneAtATime, BlockInv, [Next]_vars PROVE BlockInv'
    OBVIOUS
  <2> USE DEF TypeOK, QueueTypeOK, queueVars, pushVars, dbVars, SetStage, Done, Taken
  <2>1. ASSUME NEW b \in Batches, Enqueue(b), UNCHANGED <<pushVars, dbVars>> PROVE BlockInv'
    BY <2>1 DEF Enqueue
  <2>2. ASSUME NEW b \in Batches, Retry(b) \/ GiveUp(b), UNCHANGED <<pushVars, dbVars>> PROVE BlockInv'
    BY <2>2 DEF Retry, GiveUp
  <2>3. ASSUME Shutdown \/ CloseClient, UNCHANGED <<pushVars, dbVars>> PROVE BlockInv'
    BY <2>3 DEF Shutdown, CloseClient
  <2>4. ASSUME NEW b \in Batches, Take(b), UNCHANGED <<pushVars, dbVars>> PROVE BlockInv'
    <3>1. stage[b] = "queued" /\ step = "none"
      BY <2>4, HeadIsQueued DEF Take, OneAtATime
    <3> QED BY <2>4, <3>1 DEF Take
  <2>5. ASSUME NEW b \in Batches, Start(b) PROVE BlockInv'
    BY <2>5 DEF Start
  <2>6. ASSUME Begin \/ Prepare PROVE BlockInv'
    BY <2>6 DEF Begin, Prepare
  <2>7. ASSUME NEW b \in Batches, AppendRows(b) PROVE BlockInv'
    BY <2>7 DEF AppendRows
  <2>8. ASSUME NEW b \in Batches, EndRows(b) PROVE BlockInv'
    BY <2>8 DEF EndRows, RowsDone, OneAtATime, OneTaken
  <2>9. ASSUME NEW b \in Batches, Fail(b) PROVE BlockInv'
    BY <2>9 DEF Fail, PushFails, Leave
  <2>10. ASSUME NEW b \in Batches, Commit(b) PROVE BlockInv'
    <3>1. \A t \in table' : Len(t.rows) = Len(Services[t.batch])
      BY <2>10 DEF Commit, Stored
    <3> QED BY <2>10, <3>1 DEF Commit, Stored, PushSucceeds, Leave
  <2>11. ASSUME NEW b \in Batches, CommitUnseen(b) PROVE BlockInv'
    <3>1. \A t \in table' : Len(t.rows) = Len(Services[t.batch])
      BY <2>11 DEF CommitUnseen, Stored
    <3>2. step' = "none" /\ UNCHANGED stage
      BY <2>11 DEF CommitUnseen, PushFails, Leave
    <3>3. /\ copies' = [copies EXCEPT ![b] = @ + 1] /\ lost' = [lost EXCEPT ![b] = @ + 1]
      BY <2>11 DEF CommitUnseen, Stored
    <3> QED BY <3>1, <3>2, <3>3
  <2>12. CASE UNCHANGED vars
    BY <2>12 DEF vars
  <2> QED
    BY <2>1, <2>2, <2>3, <2>4, <2>5, <2>6, <2>7, <2>8, <2>9, <2>10, <2>11, <2>12
       DEF Next, QueueOnly, QueueStep, TakeNext, PushStep, Finished
<1> QED BY <1>1, <1>2, TypeCorrect, OneAtATimeInvariant, PTL DEF Spec

\* Every copy of a batch but one comes from an answer that was lost.
THEOREM DuplicatesBounded == Spec => []DuplicatesOnlyFromLostAnswers
<1>1. BlockInv => DuplicatesOnlyFromLostAnswers
  BY DEF BlockInv, DuplicatesOnlyFromLostAnswers
<1> QED BY <1>1, BlockInvariant, PTL

\* Every block in the table has all the rows of its batch.
THEOREM WholeBlocks == Spec => []BlocksAreWhole
<1>1. BlockInv => BlocksAreWhole
  BY DEF BlockInv, BlocksAreWhole
<1> QED BY <1>1, BlockInvariant, PTL

-----------------------------------------------------------------------------
(* The refinement: a step of the exporter is a step of BatchDelivery, or    *)
(* one that it does not see.                                                *)

\* The exporter implements the delivery of batches.
THEOREM Implements == Spec => ImplementsDelivery
<1>1. Init => Delivery!Init
  BY DEF Init, QueueInit, Delivery!Init, Stage, BlockCopies, Blocks
<1>2. TypeOK /\ OneAtATime /\ [Next]_vars => [Delivery!Next]_(Delivery!vars)
  <2> SUFFICES ASSUME TypeOK, OneAtATime, [Next]_vars PROVE [Delivery!Next]_(Delivery!vars)
    OBVIOUS
  <2>0. QueueTypeOK /\ OneTaken
    BY DEF TypeOK, OneAtATime
  <2>1. ASSUME UNCHANGED <<Stage, copies>> PROVE UNCHANGED Delivery!vars
    BY <2>1 DEF Delivery!vars, BlockCopies
  <2>2. ASSUME UNCHANGED dbVars PROVE UNCHANGED BlockCopies
    BY <2>2 DEF dbVars, BlockCopies
  <2>3. ASSUME NEW b \in Batches, Stored(b)
        PROVE  /\ BlockCopies' = [BlockCopies EXCEPT ![b]["block"] = @ + 1]
               /\ \A p \in Blocks[b] : BlockCopies'[b][p] > 0
    <3>1. copies \in [Batches -> Nat] /\ copies' = [copies EXCEPT ![b] = @ + 1]
      BY <2>3 DEF TypeOK, Stored
    <3>2. BlockCopies' = [BlockCopies EXCEPT ![b]["block"] = @ + 1]
      BY <3>1 DEF BlockCopies
    <3>3. Blocks[b] = {"block"} /\ BlockCopies'[b]["block"] = copies[b] + 1 /\ copies[b] \in Nat
      BY <3>1 DEF Blocks, BlockCopies
    <3> QED BY <3>2, <3>3
  <2>4. ASSUME NEW b \in Batches, Enqueue(b), UNCHANGED <<pushVars, dbVars>> PROVE Delivery!Offer(b)
    BY <2>0, <2>2, <2>4, StageOfEnqueue DEF Delivery!Offer
  <2>5. ASSUME NEW b \in Batches, GiveUp(b), UNCHANGED <<pushVars, dbVars>> PROVE Delivery!Finish(b)
    BY <2>0, <2>2, <2>5, StageOfEnd DEF Delivery!Finish
  <2>6. ASSUME NEW b \in Batches, Commit(b) PROVE Delivery!Finish(b)
    <3>1. Stage[b] = "accepted" /\ Stage' = [Stage EXCEPT ![b] = "stored"]
      BY <2>0, <2>6, StageOfEnd DEF Commit
    <3>2. "block" \in Blocks[b] /\ Stored(b)
      BY <2>6 DEF Blocks, Commit
    <3> QED BY <2>3, <3>1, <3>2 DEF Delivery!Finish
  <2>7. ASSUME NEW b \in Batches, CommitUnseen(b) PROVE Delivery!Insert(b, "block")
    <3>1. stage[b] = "taken" /\ UNCHANGED stage /\ Stored(b)
      BY <2>7 DEF CommitUnseen, PushFails
    <3> QED BY <2>3, <3>1 DEF Delivery!Insert, Stage
  <2>8. ASSUME \/ \E b \in Batches : Take(b) \/ Retry(b)
               \/ Shutdown \/ CloseClient \/ UNCHANGED stage,
               UNCHANGED copies
        PROVE  UNCHANGED Delivery!vars
    BY <2>0, <2>1, <2>8, StageUnseen
  <2>9. ASSUME NEW b \in Batches, Start(b) \/ Begin \/ Prepare \/ AppendRows(b) \/ EndRows(b) \/ Fail(b)
        PROVE  UNCHANGED Delivery!vars
    BY <2>8, <2>9 DEF Start, Begin, Prepare, AppendRows, EndRows, Fail, PushFails, queueVars, dbVars
  <2>10. CASE UNCHANGED vars
    BY <2>8, <2>10 DEF vars, queueVars, dbVars
  <2>11. CASE QueueOnly
    BY <2>4, <2>5, <2>8, <2>11 DEF QueueOnly, QueueStep, Delivery!Next, dbVars
  <2>12. CASE TakeNext
    BY <2>8, <2>12 DEF TakeNext, dbVars
  <2>13. ASSUME NEW b \in Batches, PushStep(b) PROVE [Delivery!Next]_(Delivery!vars)
    <3>1. "block" \in Blocks[b]
      BY DEF Blocks
    <3> QED BY <2>6, <2>7, <2>9, <2>13, <3>1 DEF PushStep, Delivery!Next
  <2> QED
    BY <2>10, <2>11, <2>12, <2>13 DEF Next, Finished
<1> QED BY <1>1, <1>2, TypeCorrect, OneAtATimeInvariant, PTL DEF Spec, ImplementsDelivery, Delivery!Spec

-----------------------------------------------------------------------------
(* The table of spans, and what is read of it.                              *)

HIDE SignalAssumption DEF SignalAssumption

\* A batch was counted as copied, or reported stored, only when a block of it is
\* in the table.
BlocksInTable ==
  /\ \A t \in table : t.batch \in Batches /\ t.rows \in Seq(Names)
  /\ \A b \in Batches : copies[b] > 0 => \E t \in table : t.batch = b
  /\ \A b \in Batches : stage[b] = "stored" => copies[b] > 0

\* BlocksInTable is preserved by every step.
THEOREM BlocksInTableInvariant == Spec => []BlocksInTable
<1> USE DEF BlocksInTable
<1>1. Init => BlocksInTable
  BY DEF Init, QueueInit
<1>2. TypeOK /\ BlocksInTable /\ [Next]_vars => BlocksInTable'
  <2> SUFFICES ASSUME TypeOK, BlocksInTable, [Next]_vars PROVE BlocksInTable'
    OBVIOUS
  <2> USE DEF TypeOK, QueueTypeOK, queueVars, pushVars, dbVars, SetStage, Done, Taken
  <2>1. ASSUME UNCHANGED <<copies, table>>,
               \A b \in Batches : stage'[b] = "stored" => stage[b] = "stored"
        PROVE  BlocksInTable'
    BY <2>1
  <2>2. ASSUME NEW b \in Batches, Stored(b),
               \A c \in Batches : stage'[c] = "stored" => c = b \/ stage[c] = "stored"
        PROVE  BlocksInTable'
    <3> DEFINE t == [batch |-> b, copy |-> copies[b] + 1, rows |-> block]
    <3>1. table' = table \cup {t} /\ t.batch = b /\ t.rows \in Seq(Names)
      BY <2>2 DEF Stored
    <3>2. copies'[b] > 0 /\ \A c \in Batches : c # b => copies'[c] = copies[c]
      BY <2>2 DEF Stored
    <3> HIDE DEF t
    <3>3. \A u \in table' : u.batch \in Batches /\ u.rows \in Seq(Names)
      BY <3>1
    <3>4. \A c \in Batches : copies'[c] > 0 => \E u \in table' : u.batch = c
      BY <3>1, <3>2
    <3>5. \A c \in Batches : stage'[c] = "stored" => copies'[c] > 0
      BY <2>2, <3>2
    <3> QED BY <3>3, <3>4, <3>5
  <2>3. ASSUME QueueOnly PROVE BlocksInTable'
    <3>1. UNCHANGED <<copies, table>>
      BY <2>3 DEF QueueOnly
    <3>2. \A b \in Batches : stage'[b] = "stored" => stage[b] = "stored"
      BY <2>3 DEF QueueOnly, QueueStep, Enqueue, Retry, GiveUp, Shutdown, CloseClient
    <3> QED BY <2>1, <3>1, <3>2
  <2>4. ASSUME TakeNext PROVE BlocksInTable'
    BY <2>1, <2>4 DEF TakeNext, Take
  <2>5. ASSUME NEW b \in Batches, Start(b) \/ AppendRows(b) \/ EndRows(b) PROVE BlocksInTable'
    BY <2>1, <2>5 DEF Start, AppendRows, EndRows
  <2>6. ASSUME Begin \/ Prepare PROVE BlocksInTable'
    BY <2>1, <2>6 DEF Begin, Prepare
  <2>7. ASSUME NEW b \in Batches, Fail(b) PROVE BlocksInTable'
    BY <2>1, <2>7 DEF Fail, PushFails
  <2>8. ASSUME NEW b \in Batches, Commit(b) PROVE BlocksInTable'
    <3>1. Stored(b) /\ \A c \in Batches : stage'[c] = "stored" => c = b \/ stage[c] = "stored"
      BY <2>8 DEF Commit, PushSucceeds
    <3> QED BY <2>2, <3>1
  <2>9. ASSUME NEW b \in Batches, CommitUnseen(b) PROVE BlocksInTable'
    <3>1. Stored(b) /\ \A c \in Batches : stage'[c] = "stored" => c = b \/ stage[c] = "stored"
      BY <2>9 DEF CommitUnseen, PushFails
    <3> QED BY <2>2, <3>1
  <2>10. CASE UNCHANGED vars
    BY <2>1, <2>10 DEF vars
  <2> QED
    BY <2>3, <2>4, <2>5, <2>6, <2>7, <2>8, <2>9, <2>10 DEF Next, PushStep, Finished
<1> QED BY <1>1, <1>2, TypeCorrect, PTL DEF Spec

\* The row of a span that a batch in the table has is one of the rows.
LEMMA RowsAreThere ==
  ASSUME BlocksInTable, BlocksAreWhole,
         NEW t \in table, NEW i \in DOMAIN Resources[t.batch],
         NEW j \in DOMAIN Resources[t.batch][i].spans
  PROVE  /\ <<t, i, j>> \in Rows
         /\ Row(<<t, i, j>>).TraceId = Texts(Resources[t.batch][i].spans[j]).trace
<1>1. t.batch \in Batches /\ t.rows \in Seq(Names) /\ Len(t.rows) = Len(Services[t.batch])
  BY DEF BlocksInTable, BlocksAreWhole
<1>2. Services[t.batch] \in Seq(Names)
  BY <1>1, SignalAssumption DEF SignalAssumption
<1>3. DOMAIN Resources[t.batch] = DOMAIN Services[t.batch]
  BY <1>1, TracesAssumption DEF TracesAssumption
<1>4. i \in DOMAIN t.rows
  BY <1>1, <1>2, <1>3
<1>5. <<t, i, j>> \in RowsOf(t)
  BY <1>4 DEF RowsOf
<1>6. <<t, i, j>> \in Rows
  BY <1>5 DEF Rows
<1>7. Row(<<t, i, j>>).TraceId = Texts(Resources[t.batch][i].spans[j]).trace
  BY DEF Row, SpanOf
<1> QED BY <1>6, <1>7

\* parseSpanResults loses no row.
LEMMA EveryRowIsInAGroup ==
  ASSUME NEW ks, NEW k \in ks
  PROVE  \E g \in parseSpanResults(ks) : k \in DOMAIN g.spans
<1> DEFINE id(r)    == generateAttributesId(Row(r).ResourceAttributes)
           group(g) == {r \in ks : id(r) = g}
           answer(g) == [resources |-> {Row(r).ResourceAttributes : r \in group(g)},
                         spans     |-> [r \in group(g) |-> Span(Row(r))]]
<1>1. parseSpanResults(ks) = {answer(g) : g \in {id(r) : r \in ks}}
  BY DEF parseSpanResults
<1>2. answer(id(k)) \in parseSpanResults(ks)
  BY <1>1
<1>3. DOMAIN answer(id(k)).spans = group(id(k))
  OBVIOUS
<1>4. k \in group(id(k))
  OBVIOUS
<1> QED BY <1>2, <1>3, <1>4

\* GetTrace has every span of its trace that was reported stored.
THEOREM StoredCanBeRead == Spec => []StoredIsRead
<1>1. BlocksInTable /\ BlocksAreWhole => StoredIsRead
  <2> SUFFICES ASSUME BlocksInTable, BlocksAreWhole, NEW s \in Sent,
                      stage[s[1]] = "stored", Texts(Original(s)).trace # NoText
               PROVE  Answered(GetTrace(Texts(Original(s)).trace), s) # {}
    BY DEF StoredIsRead
  <2>1. PICK b \in Batches : \E i \in DOMAIN Resources[b] :
               \E j \in DOMAIN Resources[b][i].spans : s = <<b, i, j>>
    BY DEF Sent
  <2>2. PICK i \in DOMAIN Resources[b] : \E j \in DOMAIN Resources[b][i].spans : s = <<b, i, j>>
    BY <2>1
  <2>3. PICK j \in DOMAIN Resources[b][i].spans : s = <<b, i, j>>
    BY <2>2
  <2>4. PICK t \in table : t.batch = b
    BY <2>3 DEF BlocksInTable
  <2> DEFINE k  == <<t, i, j>>
             id == Texts(Original(s)).trace
             ks == {r \in Rows : Row(r).TraceId = id}
  <2>5. k \in ks
    BY <2>3, <2>4, RowsAreThere DEF Original
  <2>6. GetTrace(id).resourceSpans = parseSpanResults(ks)
    BY DEF GetTrace
  <2>7. PICK g \in parseSpanResults(ks) : k \in DOMAIN g.spans
    <3> HIDE DEF ks, k
    <3> QED BY <2>5, EveryRowIsInAGroup
  <2>8. <<k[1].batch, k[2], k[3]>> = s
    BY <2>3, <2>4
  <2> HIDE DEF k, id, ks
  <2>9. k \in Answered(GetTrace(id), s)
    BY <2>6, <2>7, <2>8 DEF Answered
  <2> QED BY <2>9 DEF id
<1> QED BY <1>1, BlocksInTableInvariant, WholeBlocks, PTL

-----------------------------------------------------------------------------
(* What the table holds.                                                    *)

\* The blocks of a batch are told apart by their number and have the services of
\* its resources; so has the block that is being appended to, as far as it got.
TableInv ==
  /\ IsFiniteSet(table)
  /\ \A t \in table : t.batch \in Batches /\ t.copy \in 1 .. copies[t.batch] /\ t.rows = Services[t.batch]
  /\ \A t, u \in table : t.batch = u.batch /\ t.copy = u.copy => t = u
  /\ step \in {"begin", "prepare"} => block = << >>
  /\ step \in {"rows", "commit"} =>
       \A b \in Taken : \A i \in 1 .. Len(block) : i <= Len(Services[b]) /\ block[i] = Services[b][i]

\* TableInv is preserved by every step.
THEOREM TableInvariant == Spec => []TableInv
<1> USE DEF TableInv
<1>1. Init => TableInv
  BY FS_EmptySet DEF Init, QueueInit
<1>2. TypeOK /\ OneAtATime /\ BlockInv /\ TableInv /\ [Next]_vars => TableInv'
  <2> SUFFICES ASSUME TypeOK, OneAtATime, BlockInv, TableInv, [Next]_vars PROVE TableInv'
    OBVIOUS
  <2> USE DEF TypeOK, QueueTypeOK, queueVars, pushVars, dbVars, SetStage, Done, Taken
  <2>1. ASSUME NEW b \in Batches, Stored(b), b \in Taken, step = "commit", step' = "none" PROVE TableInv'
    <3> DEFINE t == [batch |-> b, copy |-> copies[b] + 1, rows |-> block]
    <3>1. Len(block) = Len(Services[b]) /\ Services[b] \in Seq(Names) /\ block \in Seq(Names)
      BY <2>1, SignalAssumption DEF BlockInv, SignalAssumption
    <3>2. block = Services[b]
      <4>1. \A i \in 1 .. Len(block) : block[i] = Services[b][i]
        BY <2>1
      <4> QED BY ONLY <3>1, <4>1
    <3>3. table' = table \cup {t} /\ copies' = [copies EXCEPT ![b] = @ + 1] /\ copies[b] \in Nat
      BY <2>1 DEF Stored
    <3>4. t.batch = b /\ t.copy = copies[b] + 1 /\ t.rows = Services[b]
      BY <3>2
    <3> HIDE DEF t
    <3>5. IsFiniteSet(table')
      BY <3>3, FS_AddElement
    <3>6. \A u \in table : copies'[u.batch] \in Nat /\ copies[u.batch] <= copies'[u.batch]
      BY <3>3
    <3>7. \A u \in table' : u.batch \in Batches /\ u.copy \in 1 .. copies'[u.batch] /\ u.rows = Services[u.batch]
      BY <3>3, <3>4, <3>6
    <3>8. \A u \in table : u.batch = b => u.copy # t.copy
      BY <3>3, <3>4
    <3>9. \A u, v \in table' : u.batch = v.batch /\ u.copy = v.copy => u = v
      BY <3>3, <3>4, <3>8
    <3> QED BY <2>1, <3>5, <3>7, <3>9
  <2>2. ASSUME UNCHANGED <<step, block, table, copies>>, \A b \in Batches : stage'[b] = "taken" => stage[b] = "taken"
        PROVE  TableInv'
    BY <2>2
  <2>3. ASSUME QueueOnly PROVE TableInv'
    BY <2>2, <2>3 DEF QueueOnly, QueueStep, Enqueue, Retry, GiveUp, Shutdown, CloseClient
  <2>4. ASSUME NEW b \in Batches, Take(b), UNCHANGED <<pushVars, dbVars>> PROVE TableInv'
    <3>1. step = "none"
      BY <2>4 DEF Take, OneAtATime
    <3> QED BY <2>4, <3>1
  <2>5. ASSUME NEW b \in Batches, Start(b) PROVE TableInv'
    BY <2>5 DEF Start
  <2>6. ASSUME Begin \/ Prepare PROVE TableInv'
    BY <2>6 DEF Begin, Prepare
  <2>7. ASSUME NEW b \in Batches, AppendRows(b) PROVE TableInv'
    <3>1. /\ step = "rows" /\ UNCHANGED <<queueVars, step, dbVars>>
          /\ Len(block) < Len(Services[b]) /\ b \in Taken
          /\ block' = Append(block, ServiceName(Services[b][Len(block) + 1]))
      BY <2>7 DEF AppendRows
    <3>2. ServiceName(Services[b][Len(block) + 1]) = Services[b][Len(block) + 1]
      BY TracesAssumption DEF TracesAssumption, ServiceName
    <3>3. Services[b] \in Seq(Names) /\ \A c \in Taken : c = b
      BY <3>1, SignalAssumption DEF SignalAssumption, OneAtATime, OneTaken
    <3>4. \A i \in 1 .. Len(block') : i <= Len(Services[b]) /\ block'[i] = Services[b][i]
      <4>1. \A i \in 1 .. Len(block) : i <= Len(Services[b]) /\ block[i] = Services[b][i]
        BY <3>1
      <4>2. block \in Seq(Names) /\ Len(block) \in Nat /\ Len(Services[b]) \in Nat
        BY <3>3
      <4> QED BY ONLY <3>1, <3>2, <4>1, <4>2
    <3> QED BY <3>1, <3>3, <3>4
  <2>8. ASSUME NEW b \in Batches, EndRows(b) PROVE TableInv'
    BY <2>8 DEF EndRows
  <2>9. ASSUME NEW b \in Batches, Fail(b) PROVE TableInv'
    BY <2>9 DEF Fail, PushFails, Leave
  <2>10. ASSUME NEW b \in Batches, Commit(b) \/ CommitUnseen(b) PROVE TableInv'
    BY <2>1, <2>10 DEF Commit, CommitUnseen, Leave
  <2>11. CASE UNCHANGED vars
    BY <2>2, <2>11 DEF vars
  <2> QED
    BY <2>3, <2>4, <2>5, <2>6, <2>7, <2>8, <2>9, <2>10, <2>11 DEF Next, TakeNext, PushStep, Finished
<1> QED BY <1>1, <1>2, TypeCorrect, OneAtATimeInvariant, BlockInvariant, PTL DEF Spec

-----------------------------------------------------------------------------
(* Finite sets: images, and the extremes of integers.                       *)

\* The image of a finite set is finite and has no more elements.
LEMMA FiniteImage ==
  ASSUME NEW S, IsFiniteSet(S), NEW f, DOMAIN f = S, IsMap(f)
  PROVE  IsFiniteSet({f[x] : x \in S}) /\ Cardinality({f[x] : x \in S}) <= Cardinality(S)
<1> DEFINE T == {f[x] : x \in S}
<1>1. f \in [S -> T]
  BY DEF IsMap
<1>2. f \in Surjection(S, T)
  BY <1>1, Fun_IsSurj
<1> HIDE DEF T
<1>3. IsFiniteSet(T) /\ Cardinality(T) <= Cardinality(S)
  BY <1>2, FS_Surjection
<1> QED BY <1>3 DEF T

\* A finite set of integers that is not empty has a greatest and a least element.
LEMMA FiniteExtremes ==
  ASSUME NEW S \in SUBSET Int, IsFiniteSet(S), S # {}
  PROVE  /\ Max(S) \in S /\ \A y \in S : y <= Max(S)
         /\ Min(S) \in S /\ \A y \in S : Min(S) <= y
<1> DEFINE Bounded(U) == /\ \E m \in U : \A y \in U : y <= m
                         /\ \E m \in U : \A y \in U : m <= y
           Bad == {U \in SUBSET S : U # {} /\ ~Bounded(U)}
<1>1. Bad \subseteq FiniteSubsetsOf(S)
  BY FS_Subset DEF FiniteSubsetsOf
<1>2. Bad = {}
  <2> SUFFICES ASSUME Bad # {} PROVE FALSE
    OBVIOUS
  <2>1. PICK U \in Bad : \A V \in Bad : <<V, U>> \notin StrictSubsetOrdering(S)
    <3> HIDE DEF Bad
    <3> QED BY <1>1, FS_StrictSubsetOrderingWellFounded, WFMin
  <2>2. PICK x \in U : TRUE
    BY <2>1
  <2> DEFINE V == U \ {x}
  <2>3. <<V, U>> \in StrictSubsetOrdering(S)
    BY <2>1, <2>2 DEF StrictSubsetOrdering
  <2>4. V = {} \/ Bounded(V)
    BY <2>1, <2>3
  <2>5. CASE V = {}
    <3>1. U = {x} /\ x \in Int
      BY <2>1, <2>2, <2>5
    <3> QED BY <2>1, <3>1
  <2>6. CASE Bounded(V)
    <3>1. PICK m \in V : \A y \in V : y <= m
      BY <2>6
    <3>2. PICK n \in V : \A y \in V : n <= y
      BY <2>6
    <3>3. m \in Int /\ n \in Int /\ x \in Int /\ U \subseteq Int
      BY <2>1, <2>2
    <3>4. \E g \in U : \A y \in U : y <= g
      <4>1. CASE m <= x
        BY <2>2, <3>1, <3>3, <4>1
      <4>2. CASE x < m
        BY <2>2, <3>1, <3>3, <4>2
      <4> QED BY <3>3, <4>1, <4>2
    <3>5. \E g \in U : \A y \in U : g <= y
      <4>1. CASE x <= n
        BY <2>2, <3>2, <3>3, <4>1
      <4>2. CASE n < x
        BY <2>2, <3>2, <3>3, <4>2
      <4> QED BY <3>3, <4>1, <4>2
    <3> QED BY <2>1, <3>4, <3>5
  <2> QED BY <2>4, <2>5, <2>6
<1>3. Bounded(S)
  BY <1>2
<1>4. \E m \in S : \A y \in S : m >= y
  BY <1>3
<1>5. Max(S) \in S /\ \A y \in S : Max(S) >= y
  BY <1>4 DEF Max
<1>6. Min(S) \in S /\ \A y \in S : Min(S) =< y
  BY <1>3 DEF Min
<1> QED BY <1>5, <1>6

-----------------------------------------------------------------------------
(* The rows of the table are the spans of its batches.                      *)

\* A row is a span of a batch in the table, under the service of its resource.
LEMMA RowsAreSpans ==
  ASSUME TableInv, NEW k \in Rows
  PROVE  /\ k = <<k[1], k[2], k[3]>> /\ k[1] \in table /\ k[1].batch \in Batches
         /\ k[2] \in DOMAIN Resources[k[1].batch]
         /\ k[3] \in DOMAIN Resources[k[1].batch][k[2]].spans
         /\ k \in RowsOf(k[1])
         /\ <<k[1].batch, k[2], k[3]>> \in Sent
         /\ k[1].rows[k[2]] = ServiceOf(Resources[k[1].batch][k[2]].attributes)
<1>1. PICK t \in table : k \in RowsOf(t)
  BY DEF Rows
<1>2. PICK i \in DOMAIN t.rows : \E j \in DOMAIN Resources[t.batch][i].spans : k = <<t, i, j>>
  BY <1>1 DEF RowsOf
<1>3. PICK j \in DOMAIN Resources[t.batch][i].spans : k = <<t, i, j>>
  BY <1>2
<1>4. t.batch \in Batches /\ t.rows = Services[t.batch]
  BY DEF TableInv
<1>5. i \in DOMAIN Resources[t.batch] /\ t.rows[i] = ServiceOf(Resources[t.batch][i].attributes)
  BY <1>4, TracesAssumption DEF TracesAssumption
<1>6. <<t.batch, i, j>> \in Sent
  BY <1>3, <1>4, <1>5 DEF Sent
<1> QED BY <1>1, <1>3, <1>4, <1>5, <1>6

\* The rows of a block are those of the spans of its batch.
LEMMA RowsOfBlock ==
  ASSUME TableInv, NEW t \in table, NEW i \in DOMAIN Resources[t.batch],
         NEW j \in DOMAIN Resources[t.batch][i].spans
  PROVE  <<t, i, j>> \in RowsOf(t) /\ <<t, i, j>> \in Rows
<1>1. i \in DOMAIN t.rows
  BY TracesAssumption DEF TableInv, TracesAssumption
<1> QED BY <1>1 DEF RowsOf, Rows

\* There are finitely many of them.
LEMMA RowsAreFinite ==
  ASSUME TableInv
  PROVE  IsFiniteSet(Rows) /\ \A t \in table : IsFiniteSet(RowsOf(t))
<1>1. ASSUME NEW t \in table PROVE IsFiniteSet(RowsOf(t))
  <2> DEFINE spans(i) == Resources[t.batch][i].spans
             f == [i \in DOMAIN t.rows |-> {<<t, i, j>> : j \in DOMAIN spans(i)}]
  <2>1. /\ t.rows \in Seq(Names) /\ DOMAIN t.rows = DOMAIN Resources[t.batch] /\ t.batch \in Batches
    BY TracesAssumption, SignalAssumption DEF TableInv, TracesAssumption, SignalAssumption
  <2>2. IsFiniteSet(DOMAIN t.rows)
    <3>1. DOMAIN t.rows = 1 .. Len(t.rows) /\ Len(t.rows) \in Nat
      BY <2>1
    <3> QED BY <3>1, FS_Interval
  <2>3. ASSUME NEW i \in DOMAIN t.rows PROVE IsFiniteSet(f[i])
    <3> DEFINE g == [j \in DOMAIN spans(i) |-> <<t, i, j>>]
    <3>1. Len(spans(i)) \in Nat /\ DOMAIN spans(i) = 1 .. Len(spans(i))
      BY <2>1, TracesAssumption DEF TracesAssumption, IsListOf, IsList
    <3>2. IsFiniteSet(DOMAIN spans(i))
      BY <3>1, FS_Interval
    <3>3. IsMap(g) /\ DOMAIN g = DOMAIN spans(i)
      BY DEF IsMap
    <3>4. IsFiniteSet({g[j] : j \in DOMAIN spans(i)})
      <4> HIDE DEF g
      <4> QED BY <3>2, <3>3, FiniteImage
    <3>5. f[i] = {g[j] : j \in DOMAIN spans(i)}
      OBVIOUS
    <3> QED BY <3>4, <3>5
  <2>4. IsMap(f) /\ DOMAIN f = DOMAIN t.rows
    BY DEF IsMap
  <2>5. RowsOf(t) = UNION {f[i] : i \in DOMAIN t.rows}
    BY DEF RowsOf
  <2> HIDE DEF f
  <2>6. IsFiniteSet({f[i] : i \in DOMAIN t.rows})
    BY <2>2, <2>4, FiniteImage
  <2> QED BY <2>3, <2>5, <2>6, FS_UNION
<1>2. IsFiniteSet(Rows)
  <2> DEFINE f == [t \in table |-> RowsOf(t)]
  <2>1. IsMap(f) /\ DOMAIN f = table /\ Rows = UNION {f[t] : t \in table}
    BY DEF IsMap, Rows
  <2>2. \A t \in table : IsFiniteSet(f[t])
    BY <1>1
  <2> HIDE DEF f
  <2>3. IsFiniteSet({f[t] : t \in table})
    BY <2>1, FiniteImage DEF TableInv
  <2> QED BY <2>1, <2>2, <2>3, FS_UNION
<1> QED BY <1>1, <1>2

-----------------------------------------------------------------------------
(* What GetTrace answers.                                                   *)

\* An array for each field and back: the records, for the data source has the
\* length from one of the arrays.
LEMMA ColumnsAndBack ==
  ASSUME NEW records, NEW fields, IsListOf(records, fields), NEW first \in fields
  PROVE  Zip([f \in fields |-> Column(records, f)], first) = records
<1> DEFINE columns == [f \in fields |-> Column(records, f)]
           zipped  == Zip(columns, first)
<1>1. zipped = [n \in DOMAIN records |-> [f \in fields |-> columns[f][n]]]
  BY DEF Zip, Column
<1>2. ASSUME NEW n \in DOMAIN records PROVE [f \in fields |-> columns[f][n]] = records[n]
  <2>1. \A f \in fields : columns[f][n] = records[n][f]
    BY DEF Column
  <2>2. records[n] = [f \in fields |-> records[n][f]]
    BY DEF IsListOf, IsMap
  <2> QED BY <2>1, <2>2
<1>3. records = [n \in DOMAIN records |-> records[n]]
  BY DEF IsListOf, IsList, IsMap
<1> QED BY <1>1, <1>2, <1>3

\* A kind comes back if it has a name; a status never does.
LEMMA KindsAndBack ==
  ASSUME NEW kind \in Int, NEW status
  PROVE  /\ SpanKind_value(SpanKindStr(kind)) = IF kind \in 0 .. 5 THEN kind ELSE 0
         /\ SpanKind_value(StatusCodeStr(status)) = 0
<1>1. DOMAIN SpanKinds = 1 .. 6 /\ \A m, n \in 1 .. 6 : SpanKinds[m] = SpanKinds[n] => m = n
  BY DEF SpanKinds
<1>2. \A n \in 1 .. 6 : SpanKinds[n] # NoText
  <2> DEFINE names == {"SPAN_KIND_UNSPECIFIED", "SPAN_KIND_INTERNAL", "SPAN_KIND_SERVER",
                       "SPAN_KIND_CLIENT", "SPAN_KIND_PRODUCER", "SPAN_KIND_CONSUMER"}
  <2>1. \A n \in 1 .. 6 : SpanKinds[n] \in names
    BY DEF SpanKinds
  <2>2. NoText \notin names
    BY Zenon DEF NoText
  <2> HIDE DEF names
  <2> QED BY <2>1, <2>2
<1>3. \A n \in 1 .. 6 : SpanKinds[n] \notin {"STATUS_CODE_UNSET", "STATUS_CODE_OK", "STATUS_CODE_ERROR"}
  BY DEF SpanKinds
<1>4. StatusCodeStr(status) \in {"STATUS_CODE_UNSET", "STATUS_CODE_OK", "STATUS_CODE_ERROR", NoText}
  BY DEF StatusCodeStr, StatusCodes
<1>5. SpanKind_value(StatusCodeStr(status)) = 0
  <2>1. ~ \E n \in DOMAIN SpanKinds : SpanKinds[n] = StatusCodeStr(status)
    BY <1>1, <1>2, <1>3, <1>4
  <2> QED BY <2>1 DEF SpanKind_value
<1>6. CASE kind \in 0 .. 5
  <2>1. SpanKindStr(kind) = SpanKinds[kind + 1] /\ kind + 1 \in 1 .. 6
    BY <1>1, <1>6 DEF SpanKindStr
  <2>2. \A n \in 0 .. 5 : SpanKinds[n + 1] = SpanKinds[kind + 1] => n = kind
    BY <1>1, <1>6
  <2>3. (CHOOSE n \in 0 .. 5 : SpanKinds[n + 1] = SpanKinds[kind + 1]) = kind
    BY <1>6, <2>2
  <2>4. \E n \in DOMAIN SpanKinds : SpanKinds[n] = SpanKinds[kind + 1]
    BY <1>1, <2>1
  <2>5. SpanKind_value(SpanKinds[kind + 1]) = kind
    BY <2>3, <2>4 DEF SpanKind_value
  <2> QED BY <1>5, <1>6, <2>1, <2>5
<1>7. CASE kind \notin 0 .. 5
  <2>1. SpanKindStr(kind) = NoText
    BY <1>1, <1>7 DEF SpanKindStr
  <2>2. SpanKind_value(NoText) = 0
    BY <1>1, <1>2 DEF SpanKind_value
  <2> QED BY <1>5, <1>7, <2>1, <2>2
<1> QED BY <1>6, <1>7

\* The texts of a span have its fields, and lists where it has lists.
LEMMA TextsAreSpans ==
  ASSUME NEW span, IsSpan(span), IsMap(span), DOMAIN span = SpanNames
  PROVE  IsSpan(Texts(span)) /\ DOMAIN Texts(span) = SpanNames
<1>1. /\ span.kind \in Int /\ span.start \in Int /\ span.end \in Int
      /\ IsListOf(span.events, EventFields) /\ IsListOf(span.links, LinkFields)
  BY DEF IsSpan
<1> DEFINE events == [n \in DOMAIN span.events |-> EventTexts(span.events[n])]
           links  == [n \in DOMAIN span.links |-> LinkTexts(span.links[n])]
<1>2. IsListOf(events, EventFields)
  <2>1. IsList(events)
    <3>1. Len(span.events) \in Nat /\ DOMAIN span.events = 1 .. Len(span.events)
      BY <1>1 DEF IsListOf, IsList
    <3>2. Len(events) = Len(span.events)
      BY <3>1
    <3> QED BY <3>1, <3>2 DEF IsList, IsMap
  <2>2. ASSUME NEW n \in DOMAIN events PROVE IsMap(events[n]) /\ DOMAIN events[n] = EventFields
    <3>1. IsMap(span.events[n]) /\ DOMAIN span.events[n] = EventFields
      BY <1>1 DEF IsListOf
    <3> QED BY <3>1 DEF EventTexts, IsMap
  <2> QED BY <2>1, <2>2 DEF IsListOf
<1>3. IsListOf(links, LinkFields)
  <2>1. IsList(links)
    <3>1. Len(span.links) \in Nat /\ DOMAIN span.links = 1 .. Len(span.links)
      BY <1>1 DEF IsListOf, IsList
    <3>2. Len(links) = Len(span.links)
      BY <3>1
    <3> QED BY <3>1, <3>2 DEF IsList, IsMap
  <2>2. ASSUME NEW n \in DOMAIN links PROVE IsMap(links[n]) /\ DOMAIN links[n] = LinkFields
    <3>1. IsMap(span.links[n]) /\ DOMAIN span.links[n] = LinkFields
      BY <1>1 DEF IsListOf
    <3> QED BY <3>1 DEF LinkTexts, IsMap
  <2> QED BY <2>1, <2>2 DEF IsListOf
<1>4. DOMAIN Texts(span) = SpanNames
  BY DEF Texts
<1> HIDE DEF events, links
<1>5. /\ Texts(span).kind = span.kind /\ Texts(span).start = span.start /\ Texts(span).end = span.end
      /\ Texts(span).events = events /\ Texts(span).links = links
  BY DEF Texts, SpanNames, events, links
<1> QED BY <1>1, <1>2, <1>3, <1>4, <1>5 DEF IsSpan

\* What is written of a span and read back.
LEMMA SpanAndBack ==
  ASSUME NEW k, LET span == SpanOf(k) IN IsSpan(span) /\ IsMap(span) /\ DOMAIN span = SpanNames
  PROVE  LET sent == [Texts(SpanOf(k)) EXCEPT !.kind = IF @ \in 0 .. 5 THEN @ ELSE 0] IN
         \A f \in SpanNames \ {"status"} : Span(Row(k))[f] = sent[f]
<1> DEFINE span == Texts(SpanOf(k))
           back == Span(Row(k))
           sent == [span EXCEPT !.kind = IF @ \in 0 .. 5 THEN @ ELSE 0]
<1>0. IsSpan(span) /\ DOMAIN span = SpanNames
  BY TextsAreSpans
<1> HIDE DEF span
<1>1. /\ span.kind \in Int /\ span.start \in Int /\ span.end \in Int
      /\ IsListOf(span.events, EventFields) /\ IsListOf(span.links, LinkFields)
  BY <1>0 DEF IsSpan
<1> USE DEF span
<1>2. back.kind = IF span.kind \in 0 .. 5 THEN span.kind ELSE 0
  BY <1>1, KindsAndBack DEF Span, Row
<1>3. back.end = span.end /\ back.start = span.start
  <2>1. span.start + (span.end - span.start) = span.end
    BY ONLY <1>1
  <2> QED BY <2>1 DEF Span, Row
<1>4. back.events = span.events
  BY <1>1, ColumnsAndBack DEF Span, Row, EventColumns, EventFields
<1>5. back.links = span.links
  BY <1>1, ColumnsAndBack DEF Span, Row, LinkColumns, LinkFields
<1>6. /\ back.trace = span.trace /\ back.id = span.id /\ back.parent = span.parent
      /\ back.name = span.name /\ back.attributes = span.attributes /\ back.message = span.message
  BY DEF Span, Row
<1> HIDE DEF span
<1>7. /\ sent.kind = IF span.kind \in 0 .. 5 THEN span.kind ELSE 0
      /\ \A f \in SpanNames \ {"kind", "status"} : sent[f] = span[f]
  BY <1>0 DEF SpanNames
<1> HIDE DEF back, sent
<1>8. \A f \in SpanNames \ {"status"} : back[f] = sent[f]
  BY <1>2, <1>3, <1>4, <1>5, <1>6, <1>7 DEF SpanNames
<1> QED BY <1>8 DEF back, sent, span

\* A group has rows of one id, each as it is read, and the resources of those.
LEMMA GroupsOfRows ==
  ASSUME NEW ks, NEW g \in parseSpanResults(ks)
  PROVE  \E m \in ks :
           LET rows == {k \in ks : Joined(Pairs(Row(k).ResourceAttributes)) =
                                    Joined(Pairs(Row(m).ResourceAttributes))} IN
           g = [resources |-> {Row(k).ResourceAttributes : k \in rows},
                spans     |-> [k \in rows |-> Span(Row(k))]]
<1> DEFINE id(k)    == generateAttributesId(Row(k).ResourceAttributes)
           group(i) == {k \in ks : id(k) = i}
           answer(i) == [resources |-> {Row(k).ResourceAttributes : k \in group(i)},
                         spans     |-> [k \in group(i) |-> Span(Row(k))]]
<1>1. parseSpanResults(ks) = {answer(i) : i \in {id(k) : k \in ks}}
  BY DEF parseSpanResults
<1>2. PICK m \in ks : g = answer(id(m))
  <2> HIDE DEF answer, id
  <2> QED BY <1>1
<1> QED BY <1>2 DEF generateAttributesId

\* GetTrace answers with the rows of its trace, those of one id in one group.
LEMMA TraceIsRows ==
  ASSUME NEW id, id # NoText, NEW g \in GetTrace(id).resourceSpans
  PROVE  /\ \A k \in DOMAIN g.spans :
              /\ k \in Rows /\ g.spans[k] = Span(Row(k)) /\ Row(k).ResourceAttributes \in g.resources
              /\ \A other \in g.resources :
                   Joined(Pairs(other)) = Joined(Pairs(Row(k).ResourceAttributes))
         /\ \A h \in GetTrace(id).resourceSpans : g.resources \cap h.resources # {} => g = h
<1> DEFINE ks == {k \in Rows : Row(k).TraceId = id}
           text(k) == Joined(Pairs(Row(k).ResourceAttributes))
           rows(m) == {k \in ks : text(k) = text(m)}
           answer(m) == [resources |-> {Row(k).ResourceAttributes : k \in rows(m)},
                         spans     |-> [k \in rows(m) |-> Span(Row(k))]]
<1>1. GetTrace(id).resourceSpans = parseSpanResults(ks)
  BY DEF GetTrace
<1>2. \A h \in GetTrace(id).resourceSpans : \E m \in ks : h = answer(m)
  <2> HIDE DEF ks
  <2>1. \A h \in parseSpanResults(ks) : \E m \in ks : h = answer(m)
    BY GroupsOfRows, Zenon
  <2> HIDE DEF answer
  <2> QED BY <1>1, <2>1
<1>3. PICK m \in ks : g = answer(m)
  BY <1>2
<1>4. \A k \in DOMAIN g.spans : k \in rows(m) /\ g.spans[k] = Span(Row(k))
  BY <1>3
<1>5. g.resources = {Row(k).ResourceAttributes : k \in rows(m)}
  BY <1>3
<1>6. ASSUME NEW h \in GetTrace(id).resourceSpans, g.resources \cap h.resources # {}
      PROVE  g = h
  <2>1. PICK n \in ks : h = answer(n)
    BY <1>2
  <2>2. PICK k \in rows(m), l \in rows(n) : Row(k).ResourceAttributes = Row(l).ResourceAttributes
    BY <1>5, <1>6, <2>1
  <2>3. text(m) = text(n)
    BY <2>2
  <2>4. rows(m) = rows(n)
    BY <2>3
  <2> HIDE DEF rows
  <2> QED BY <1>3, <2>1, <2>4
<1> QED BY <1>4, <1>5, <1>6

\* A span has a row for each copy of its batch.
LEMMA RowsOfSpan ==
  ASSUME TypeOK, TableInv, NEW s \in Sent,
         NEW ks, ks \subseteq {k \in Rows : <<k[1].batch, k[2], k[3]>> = s}
  PROVE  Cardinality(ks) <= copies[s[1]]
<1> DEFINE f == [k \in ks |-> k[1].copy]
           T == 1 .. copies[s[1]]
<1>1. PICK b \in Batches : s[1] = b
  BY DEF Sent
<1>2. copies[b] \in Nat
  BY <1>1 DEF TypeOK
<1>3. \A k \in ks : /\ k[1] \in table /\ k[1].batch = s[1] /\ k[2] = s[2] /\ k[3] = s[3]
                    /\ k = <<k[1], k[2], k[3]>>
  BY RowsAreSpans
<1>4. f \in [ks -> T]
  BY <1>1, <1>3 DEF TableInv
<1>5. \A k, r \in ks : f[k] = f[r] => k = r
  <2> SUFFICES ASSUME NEW k \in ks, NEW r \in ks, k[1].copy = r[1].copy PROVE k = r
    OBVIOUS
  <2>1. k[1] = r[1]
    BY <1>3 DEF TableInv
  <2> QED BY <1>3, <2>1
<1>6. IsFiniteSet(T) /\ Cardinality(T) = copies[b]
  <2>1. ASSUME NEW n \in Nat PROVE IsFiniteSet(1 .. n) /\ Cardinality(1 .. n) = n
    BY ONLY <2>1, FS_Interval
  <2>2. T = 1 .. copies[b]
    BY <1>1
  <2> HIDE DEF T
  <2> QED BY <1>2, <2>1, <2>2
<1> HIDE DEF f, T
<1>7. f \in Injection(ks, T)
  BY <1>4, <1>5, Fun_IsInj
<1> QED BY <1>1, <1>6, <1>7, FS_Injection

\* The span of a row is one, and its name, kind and start are written as they are.
LEMMA SpansOfRows ==
  ASSUME TableInv, NEW k \in Rows
  PROVE  /\ IsSpan(SpanOf(k)) /\ IsMap(SpanOf(k)) /\ DOMAIN SpanOf(k) = SpanNames
         /\ SpanOf(k).start \in Int /\ Texts(SpanOf(k)).start = SpanOf(k).start
         /\ Texts(SpanOf(k)).name = SpanOf(k).name /\ Texts(SpanOf(k)).kind = SpanOf(k).kind
<1>1. /\ k[1].batch \in Batches /\ k[2] \in DOMAIN Resources[k[1].batch]
      /\ k[3] \in DOMAIN Resources[k[1].batch][k[2]].spans
  BY RowsAreSpans
<1>2. /\ IsSpan(Resources[k[1].batch][k[2]].spans[k[3]])
      /\ IsListOf(Resources[k[1].batch][k[2]].spans, SpanNames)
  BY <1>1, TracesAssumption DEF TracesAssumption
<1>3. IsSpan(SpanOf(k)) /\ IsMap(SpanOf(k)) /\ DOMAIN SpanOf(k) = SpanNames
  BY <1>1, <1>2 DEF SpanOf, IsListOf
<1>4. /\ Texts(SpanOf(k)).start = SpanOf(k).start
      /\ Texts(SpanOf(k)).name = SpanOf(k).name /\ Texts(SpanOf(k)).kind = SpanOf(k).kind
  BY <1>3 DEF Texts, SpanNames
<1> QED BY <1>3, <1>4 DEF IsSpan

\* An answer of GetTrace has each span of its trace once, and once more for every
\* answer to its block that got lost, as it was written and under its own resource, or
\* under one that has the same joined text.
THEOREM AnswersAreSent == Spec => []AnswersAreWhatWasSent
<1>1. TypeOK /\ TableInv /\ DuplicatesOnlyFromLostAnswers => AnswersAreWhatWasSent
  <2> SUFFICES ASSUME TypeOK, TableInv, DuplicatesOnlyFromLostAnswers, NEW id, id # NoText
               PROVE  LET answer == GetTrace(id) IN
                      /\ \A s \in Sent : Cardinality(Answered(answer, s)) <= lost[s[1]] + 1
                      /\ \A g, h \in answer.resourceSpans : g.resources \cap h.resources # {} => g = h
                      /\ \A g \in answer.resourceSpans : \A k \in DOMAIN g.spans :
                           LET own  == attributesToMap(Resources[k[1].batch][k[2]].attributes)
                               sent == [Texts(SpanOf(k)) EXCEPT !.kind = IF @ \in 0 .. 5 THEN @ ELSE 0]
                           IN  /\ own \in g.resources
                               /\ \A other \in g.resources : Joined(Pairs(other)) = Joined(Pairs(own))
                               /\ \A f \in SpanNames \ {"status"} : g.spans[k][f] = sent[f]
    BY DEF AnswersAreWhatWasSent
  <2> DEFINE answer == GetTrace(id)
  <2> HIDE DEF answer
  <2>1. ASSUME NEW s \in Sent PROVE Cardinality(Answered(answer, s)) <= lost[s[1]] + 1
    <3>1. Answered(answer, s) \subseteq {k \in Rows : <<k[1].batch, k[2], k[3]>> = s}
      BY TraceIsRows DEF Answered, answer
    <3>2. Cardinality(Answered(answer, s)) <= copies[s[1]]
      BY <3>1, RowsOfSpan
    <3>3. PICK b \in Batches : s[1] = b
      BY DEF Sent
    <3>4. copies[b] \in Nat /\ lost[b] \in Nat /\ copies[b] <= lost[b] + 1
      BY <3>3 DEF TypeOK, DuplicatesOnlyFromLostAnswers
    <3>5. Cardinality(Answered(answer, s)) \in Int
      <4>1. IsFiniteSet(Answered(answer, s))
        BY <3>1, RowsAreFinite, FS_Subset
      <4> QED BY <4>1, FS_CardinalityType
    <3> QED BY <3>2, <3>3, <3>4, <3>5
  <2>2. ASSUME NEW g \in answer.resourceSpans, NEW k \in DOMAIN g.spans
        PROVE  LET own  == attributesToMap(Resources[k[1].batch][k[2]].attributes)
                   sent == [Texts(SpanOf(k)) EXCEPT !.kind = IF @ \in 0 .. 5 THEN @ ELSE 0]
               IN  /\ own \in g.resources
                   /\ \A other \in g.resources : Joined(Pairs(other)) = Joined(Pairs(own))
                   /\ \A f \in SpanNames \ {"status"} : g.spans[k][f] = sent[f]
    <3> DEFINE own == Row(k).ResourceAttributes
    <3>1. k \in Rows /\ g.spans[k] = Span(Row(k))
      BY <2>2, TraceIsRows DEF answer
    <3>2. own \in g.resources /\ \A other \in g.resources : Joined(Pairs(other)) = Joined(Pairs(own))
      <4> HIDE DEF own
      <4>1. \A h \in answer.resourceSpans : \A r \in DOMAIN h.spans :
              /\ Row(r).ResourceAttributes \in h.resources
              /\ \A other \in h.resources :
                   Joined(Pairs(other)) = Joined(Pairs(Row(r).ResourceAttributes))
        BY TraceIsRows DEF answer
      <4> QED BY <2>2, <4>1 DEF own
    <3>3. own = attributesToMap(Resources[k[1].batch][k[2]].attributes)
      BY DEF Row
    <3>4. LET span == SpanOf(k) IN IsSpan(span) /\ IsMap(span) /\ DOMAIN span = SpanNames
      BY <3>1, SpansOfRows
    <3>5. LET sent == [Texts(SpanOf(k)) EXCEPT !.kind = IF @ \in 0 .. 5 THEN @ ELSE 0] IN
          \A f \in SpanNames \ {"status"} : g.spans[k][f] = sent[f]
      BY <3>1, <3>4, SpanAndBack
    <3> HIDE DEF own
    <3> QED BY <3>2, <3>3, <3>5
  <2>3. \A g, h \in answer.resourceSpans : g.resources \cap h.resources # {} => g = h
    BY TraceIsRows DEF answer
  <2> QED BY <2>1, <2>2, <2>3 DEF answer
<1> QED BY <1>1, TypeCorrect, TableInvariant, DuplicatesBounded, PTL

-----------------------------------------------------------------------------
(* What GetService and GetOperations list.                                  *)

\* A row is of a span that was sent, and a span whose batch is in the table has one.
LEMMA SpansAndRows ==
  ASSUME TableInv
  PROVE  /\ \A k \in Rows : \E s \in Sent :
              /\ \E t \in table : t.batch = s[1]
              /\ Row(k).ServiceName = ServiceOf(Resources[s[1]][s[2]].attributes)
              /\ SpanOf(k) = Original(s)
         /\ \A s \in Sent : (\E t \in table : t.batch = s[1]) => \E k \in Rows :
              /\ Row(k).ServiceName = ServiceOf(Resources[s[1]][s[2]].attributes)
              /\ SpanOf(k) = Original(s)
<1>1. ASSUME NEW k \in Rows
      PROVE  \E s \in Sent :
               /\ \E t \in table : t.batch = s[1]
               /\ Row(k).ServiceName = ServiceOf(Resources[s[1]][s[2]].attributes)
               /\ SpanOf(k) = Original(s)
  <2> DEFINE s == <<k[1].batch, k[2], k[3]>>
  <2>1. s \in Sent /\ k[1] \in table /\ k[1].batch = s[1]
    BY RowsAreSpans
  <2>2. Row(k).ServiceName = ServiceOf(Resources[s[1]][s[2]].attributes)
    BY RowsAreSpans DEF Row
  <2>3. SpanOf(k) = Original(s)
    BY DEF SpanOf, Original
  <2> HIDE DEF s
  <2> QED BY <2>1, <2>2, <2>3
<1>2. ASSUME NEW s \in Sent, NEW t \in table, t.batch = s[1]
      PROVE  \E k \in Rows :
               /\ Row(k).ServiceName = ServiceOf(Resources[s[1]][s[2]].attributes)
               /\ SpanOf(k) = Original(s)
  <2>1. s[2] \in DOMAIN Resources[s[1]] /\ s[3] \in DOMAIN Resources[s[1]][s[2]].spans
    BY DEF Sent
  <2> DEFINE k == <<t, s[2], s[3]>>
  <2>2. k \in Rows
    BY <1>2, <2>1, RowsOfBlock
  <2>3. k[1].rows[k[2]] = ServiceOf(Resources[k[1].batch][k[2]].attributes)
    <3> HIDE DEF k
    <3> QED BY <2>2, RowsAreSpans
  <2>4. Row(k).ServiceName = ServiceOf(Resources[s[1]][s[2]].attributes)
    BY <1>2, <2>3 DEF Row
  <2>5. SpanOf(k) = Original(s)
    BY <1>2 DEF SpanOf, Original
  <2> HIDE DEF k
  <2> QED BY <2>2, <2>4, <2>5
<1> QED BY <1>1, <1>2

\* The times of some rows: their first and their last are those of two of them.
LEMMA TimesOfRows ==
  ASSUME TableInv, NEW ks \in SUBSET Rows, ks # {}
  PROVE  LET times == {Row(k).Timestamp : k \in ks} IN
         /\ times \subseteq Int
         /\ Max(times) \in times /\ \A y \in times : y <= Max(times)
         /\ Min(times) \in times /\ \A y \in times : Min(times) <= y
<1> DEFINE f == [k \in ks |-> Row(k).Timestamp]
           times == {f[k] : k \in ks}
<1>1. IsFiniteSet(ks)
  BY RowsAreFinite, FS_Subset
<1>2. IsMap(f) /\ DOMAIN f = ks /\ times = {Row(k).Timestamp : k \in ks}
  BY DEF IsMap
<1>3. \A k \in ks : Row(k).Timestamp \in Int
  <2> SUFFICES ASSUME NEW k \in ks PROVE Row(k).Timestamp \in Int
    OBVIOUS
  <2>1. /\ k[1].batch \in Batches /\ k[2] \in DOMAIN Resources[k[1].batch]
        /\ k[3] \in DOMAIN Resources[k[1].batch][k[2]].spans
    BY RowsAreSpans
  <2>2. SpanOf(k).start \in Int /\ Texts(SpanOf(k)).start = SpanOf(k).start
    BY SpansOfRows
  <2> QED BY <2>2 DEF Row
<1>4. times \in SUBSET Int /\ times # {}
  BY <1>3
<1>5. IsFiniteSet(times)
  <2> HIDE DEF f
  <2> QED BY <1>1, <1>2, FiniteImage
<1> HIDE DEF times
<1>6. /\ Max(times) \in times /\ \A y \in times : y <= Max(times)
      /\ Min(times) \in times /\ \A y \in times : Min(times) <= y
  BY <1>4, <1>5, FiniteExtremes
<1> QED BY <1>2, <1>4, <1>6

\* The services and the operations shown are those of the spans in the table.
THEOREM AllAreListed == Spec => []ServicesAreListed
<1>1. TableInv => ServicesAreListed
  <2> SUFFICES ASSUME TableInv PROVE ServicesAreListed
    OBVIOUS
  <2> DEFINE inTable == {s \in Sent : \E t \in table : t.batch = s[1]}
             service(s) == ServiceOf(Resources[s[1]][s[2]].attributes)
             rowsOf(n) == {k \in Rows : Row(k).ServiceName = n}
             latest == {k \in Rows : Row(k).Timestamp = Latest(Row(k).ServiceName)}
             entry(k) == [service |-> Row(k).ServiceName, attributes |-> Row(k).ResourceAttributes]
  <2>1. GetService = {entry(k) : k \in latest}
    BY DEF GetService
  <2>2. \A k \in Rows : \E s \in inTable : Row(k).ServiceName = service(s) /\ SpanOf(k) = Original(s)
    BY SpansAndRows
  <2>3. \A s \in inTable : \E k \in Rows : Row(k).ServiceName = service(s) /\ SpanOf(k) = Original(s)
    BY SpansAndRows
  <2>4. \A k \in Rows : \E r \in latest : Row(r).ServiceName = Row(k).ServiceName
    <3> SUFFICES ASSUME NEW k \in Rows
                 PROVE  \E r \in latest : Row(r).ServiceName = Row(k).ServiceName
      OBVIOUS
    <3> DEFINE n == Row(k).ServiceName
               times == {Row(r).Timestamp : r \in rowsOf(n)}
    <3>1. rowsOf(n) \in SUBSET Rows /\ k \in rowsOf(n)
      OBVIOUS
    <3>2. Max(times) \in times
      <4> HIDE DEF rowsOf
      <4> QED BY <3>1, TimesOfRows
    <3>3. Latest(n) = Max(times)
      BY DEF Latest
    <3>4. PICK r \in rowsOf(n) : Row(r).Timestamp = Latest(n)
      BY <3>2, <3>3
    <3> QED BY <3>4
  <2>5. {r.service : r \in GetService} = {service(s) : s \in inTable}
    <3>1. {r.service : r \in GetService} = {Row(k).ServiceName : k \in latest}
      <4>1. \A k \in latest : entry(k).service = Row(k).ServiceName
        OBVIOUS
      <4> HIDE DEF latest, entry
      <4> QED BY <2>1, <4>1
    <3>2. {Row(k).ServiceName : k \in latest} = {Row(k).ServiceName : k \in Rows}
      BY <2>4
    <3> HIDE DEF inTable, service
    <3> QED BY <2>2, <2>3, <3>1, <3>2
  <2>6. \A r \in GetService : \E s \in inTable :
           /\ r.service = service(s)
           /\ r.attributes = attributesToMap(Resources[s[1]][s[2]].attributes)
    <3>1. ASSUME NEW k \in Rows
          PROVE  \E s \in inTable :
                   /\ Row(k).ServiceName = service(s)
                   /\ Row(k).ResourceAttributes = attributesToMap(Resources[s[1]][s[2]].attributes)
      <4> DEFINE s == <<k[1].batch, k[2], k[3]>>
      <4>1. s \in inTable /\ k[1].rows[k[2]] = service(s)
        BY RowsAreSpans
      <4>2. /\ Row(k).ServiceName = service(s)
            /\ Row(k).ResourceAttributes = attributesToMap(Resources[s[1]][s[2]].attributes)
        BY <4>1 DEF Row
      <4> HIDE DEF s, inTable, service
      <4> QED BY <4>1, <4>2
    <3>2. \A k \in latest : entry(k).service = Row(k).ServiceName /\ entry(k).attributes = Row(k).ResourceAttributes
      OBVIOUS
    <3>3. latest \in SUBSET Rows
      OBVIOUS
    <3> HIDE DEF inTable, service, latest, entry
    <3> QED BY <2>1, <3>1, <3>2, <3>3
  <2>7. ASSUME NEW name, NEW kind
        PROVE  GetOperations(name, kind) =
                 {Original(s).name : s \in
                    {s \in inTable : /\ name \in {service(s), NoText}
                                     /\ kind \in {SpanKindStr(Original(s).kind), NoText}}}
    <3>1. \A k \in Rows : /\ Row(k).SpanName = SpanOf(k).name
                           /\ Row(k).SpanKind = SpanKindStr(SpanOf(k).kind)
      BY SpansOfRows DEF Row
    <3> HIDE DEF inTable, service
    <3> QED BY <2>2, <2>3, <3>1 DEF GetOperations
  <2> QED BY <2>5, <2>6, <2>7 DEF ServicesAreListed
<1> QED BY <1>1, TableInvariant, PTL

-----------------------------------------------------------------------------
(* What SearchTraces selects.                                               *)

\* trace_id_ts: the ids of every block, each with the time of its first span there.
LEMMA TraceIdRows ==
  ASSUME TableInv
  PROVE  /\ IsFiniteSet(TraceIdTs)
         /\ \A r \in TraceIdTs :
              /\ r.Start \in Int
              /\ \E k \in RowsOf(r.block) : Row(k).TraceId = r.TraceId /\ Row(k).Timestamp = r.Start
         /\ \A k \in Rows : Row(k).TraceId # NoText =>
              \E r \in TraceIdTs : r.block = k[1] /\ r.TraceId = Row(k).TraceId
<1> DEFINE rowsOf(t, id) == {k \in RowsOf(t) : Row(k).TraceId = id}
           times(t, id) == {Row(k).Timestamp : k \in rowsOf(t, id)}
           ids(t) == {Row(k).TraceId : k \in RowsOf(t)} \ {NoText}
           entry(t, id) == [block |-> t, TraceId |-> id, Start |-> Min(times(t, id)), End |-> Max(times(t, id))]
           f == [t \in table |-> {entry(t, id) : id \in ids(t)}]
<1>1. TraceIdTs = UNION {f[t] : t \in table}
  BY DEF TraceIdTs
<1>2. ASSUME NEW t \in table PROVE IsFiniteSet(ids(t)) /\ RowsOf(t) \subseteq Rows
  <2> DEFINE g == [k \in RowsOf(t) |-> Row(k).TraceId]
  <2>1. IsMap(g) /\ DOMAIN g = RowsOf(t) /\ ids(t) = {g[k] : k \in RowsOf(t)} \ {NoText}
    BY DEF IsMap
  <2>2. IsFiniteSet({g[k] : k \in RowsOf(t)})
    <3> HIDE DEF g
    <3> QED BY <2>1, RowsAreFinite, FiniteImage
  <2>3. IsFiniteSet(ids(t))
    <3> HIDE DEF g, ids
    <3> QED BY <2>1, <2>2, FS_RemoveElement
  <2> QED BY <2>3 DEF Rows
<1>3. IsFiniteSet(TraceIdTs)
  <2>1. ASSUME NEW t \in table PROVE IsFiniteSet(f[t])
    <3> DEFINE h == [id \in ids(t) |-> entry(t, id)]
    <3>1. IsMap(h) /\ DOMAIN h = ids(t) /\ f[t] = {h[id] : id \in ids(t)}
      BY DEF IsMap
    <3> HIDE DEF h, ids, f
    <3> QED BY <1>2, <3>1, FiniteImage
  <2>2. IsMap(f) /\ DOMAIN f = table
    BY DEF IsMap
  <2> HIDE DEF f
  <2>3. IsFiniteSet({f[t] : t \in table})
    BY <2>2, FiniteImage DEF TableInv
  <2> QED BY <1>1, <2>1, <2>3, FS_UNION
<1>4. ASSUME NEW t \in table, NEW id \in ids(t)
      PROVE  /\ Min(times(t, id)) \in Int
             /\ \E k \in RowsOf(t) : Row(k).TraceId = id /\ Row(k).Timestamp = Min(times(t, id))
  <2>1. rowsOf(t, id) \in SUBSET Rows /\ rowsOf(t, id) # {}
    BY <1>2
  <2>2. Min(times(t, id)) \in times(t, id) /\ times(t, id) \subseteq Int
    <3> HIDE DEF rowsOf
    <3> QED BY <2>1, TimesOfRows
  <2> QED BY <2>2
<1>5. ASSUME NEW r \in TraceIdTs
      PROVE  /\ r.Start \in Int
             /\ \E k \in RowsOf(r.block) : Row(k).TraceId = r.TraceId /\ Row(k).Timestamp = r.Start
  <2>1. PICK t \in table : r \in f[t]
    <3> HIDE DEF f
    <3> QED BY <1>1
  <2>2. PICK id \in ids(t) : r = entry(t, id)
    <3> HIDE DEF entry, ids
    <3> QED BY <2>1
  <2>3. r.block = t /\ r.TraceId = id /\ r.Start = Min(times(t, id))
    BY <2>2
  <2> HIDE DEF times, ids, entry, f
  <2> QED BY <1>4, <2>3
<1>6. ASSUME NEW k \in Rows, Row(k).TraceId # NoText
      PROVE  \E r \in TraceIdTs : r.block = k[1] /\ r.TraceId = Row(k).TraceId
  <2> DEFINE t  == k[1]
             id == Row(k).TraceId
  <2>1. t \in table /\ id \in ids(t)
    BY <1>6, RowsAreSpans
  <2>2. entry(t, id) \in f[t]
    <3> HIDE DEF entry, ids, t, id
    <3> QED BY <2>1
  <2>3. entry(t, id) \in TraceIdTs
    <3> HIDE DEF entry, f, t, id
    <3> QED BY <1>1, <2>1, <2>2
  <2>4. entry(t, id).block = t /\ entry(t, id).TraceId = id
    OBVIOUS
  <2> HIDE DEF entry
  <2> QED BY <2>3, <2>4
<1> HIDE DEF f
<1> QED BY <1>3, <1>5, <1>6

\* A whole second is formatted as it is, any other time as one before it.
LEMMA FormattedTimes ==
  ASSUME NEW x \in Int
  PROVE  Formatted(x) \in Int /\ Formatted(x) <= x /\ (x % Second = 0 => Formatted(x) = x)
<1>1. Second \in Nat \ {0}
  BY RequestsAssumption DEF RequestsAssumption
<1>2. x = Second * (x \div Second) + (x % Second) /\ x % Second \in 0 .. (Second - 1)
  BY ONLY <1>1
<1>3. x \div Second \in Int
  BY ONLY <1>1
<1>4. /\ (x \div Second) * Second \in Int /\ (x \div Second) * Second <= x
      /\ x % Second = 0 => (x \div Second) * Second = x
  BY ONLY <1>1, <1>2, <1>3
<1> QED BY <1>4 DEF Formatted

\* The sub-query lists no more rows than its limit, and every row it looks for that
\* is among so many of the latest.
LEMMA ListedWithinLimit ==
  ASSUME TableInv, NEW query, Limit(query) \in Nat, query.StartTime \in Int, query.EndTime \in Int
  PROVE  /\ IsFiniteSet(Listed(query)) /\ Cardinality(Listed(query)) <= Limit(query)
         /\ query.EndTime % Second = 0 =>
              \A r \in TraceIdTs :
                InWindow(query, r) /\ InDuration(query, r) /\ IsAmongLatest(r, query, Limit(query)) =>
                  r \in Listed(query)
<1> DEFINE within   == {r \in TraceIdTs : InWindow(query, r) /\ InDuration(query, r)}
           since(r) == {o \in within : o.Start >= r.Start}
<1>1. IsFiniteSet(within) /\ Cardinality(within) \in Nat /\ Cardinality(within) <= Cardinality(TraceIdTs)
  <2>1. within \in SUBSET TraceIdTs
    OBVIOUS
  <2> HIDE DEF within
  <2> QED BY <2>1, TraceIdRows, FS_Subset, FS_CardinalityType
<1>2. Listed(query) = {r \in within : Cardinality(since(r)) <= Limit(query)}
  BY DEF Listed
<1>3. \A r \in within : r.Start \in Int
  BY TraceIdRows
<1> HIDE DEF within
<1>4. \A r \in within : /\ IsFiniteSet(since(r)) /\ Cardinality(since(r)) \in Nat
                        /\ Cardinality(since(r)) <= Cardinality(within)
  <2> SUFFICES ASSUME NEW r \in within
               PROVE  /\ IsFiniteSet(since(r)) /\ Cardinality(since(r)) \in Nat
                      /\ Cardinality(since(r)) <= Cardinality(within)
    OBVIOUS
  <2>1. since(r) \in SUBSET within
    OBVIOUS
  <2> HIDE DEF since
  <2> QED BY <1>1, <2>1, FS_Subset, FS_CardinalityType
<1>5. IsFiniteSet(Listed(query))
  <2>1. Listed(query) \in SUBSET within
    BY <1>2
  <2> QED BY <1>1, <2>1, FS_Subset
<1>6. Cardinality(Listed(query)) <= Limit(query)
  <2>1. CASE Listed(query) = {}
    BY <2>1, FS_EmptySet
  <2>2. CASE Listed(query) # {}
    <3> DEFINE f == [r \in Listed(query) |-> r.Start]
               S == {f[r] : r \in Listed(query)}
    <3>1. IsMap(f) /\ DOMAIN f = Listed(query)
      BY DEF IsMap
    <3>2. S \in SUBSET Int /\ S # {}
      BY <1>2, <1>3, <2>2
    <3>3. IsFiniteSet(S)
      <4> HIDE DEF f
      <4> QED BY <1>5, <3>1, FiniteImage
    <3>4. Min(S) \in S /\ \A y \in S : Min(S) <= y
      <4> HIDE DEF S
      <4> QED BY <3>2, <3>3, FiniteExtremes
    <3>5. PICK r \in Listed(query) : \A o \in Listed(query) : r.Start <= o.Start
      BY <3>4
    <3>6. r \in within /\ Cardinality(since(r)) <= Limit(query) /\ Listed(query) \in SUBSET since(r)
      BY <1>2, <1>3, <3>5
    <3> HIDE DEF since
    <3>7. Cardinality(Listed(query)) <= Cardinality(since(r)) /\ Cardinality(Listed(query)) \in Nat
      BY <1>4, <1>5, <3>6, FS_Subset, FS_CardinalityType
    <3> QED BY <1>4, <3>6, <3>7
  <2> QED BY <2>1, <2>2
<1>7. ASSUME query.EndTime % Second = 0, NEW r \in within, IsAmongLatest(r, query, Limit(query))
      PROVE  r \in Listed(query)
  <2> DEFINE latest == {o \in TraceIdTs : /\ o.Start >= r.Start
                                         /\ query.EndTime > query.StartTime => o.Start <= query.EndTime}
  <2>1. Cardinality(latest) <= Limit(query)
    BY <1>7 DEF IsAmongLatest
  <2>2. ASSUME NEW o \in since(r) PROVE o \in latest
    <3>1. o \in TraceIdTs /\ InWindow(query, o) /\ o.Start \in Int /\ o.Start >= r.Start
      BY <1>3 DEF within
    <3>2. query.EndTime > query.StartTime => o.Start \in Formatted(query.StartTime) .. Formatted(query.EndTime)
      BY <3>1 DEF InWindow
    <3>3. Formatted(query.EndTime) = query.EndTime /\ Formatted(query.StartTime) \in Int
      BY <1>7, FormattedTimes
    <3>4. query.EndTime > query.StartTime => o.Start <= query.EndTime
      BY <3>1, <3>2, <3>3
    <3> QED BY <3>1, <3>4
  <2>3. IsFiniteSet(latest)
    <3>1. latest \in SUBSET TraceIdTs
      OBVIOUS
    <3> HIDE DEF latest
    <3> QED BY <3>1, TraceIdRows, FS_Subset
  <2> HIDE DEF since, latest
  <2>4. Cardinality(since(r)) <= Cardinality(latest) /\ Cardinality(latest) \in Nat
    <3>1. since(r) \in SUBSET latest
      BY <2>2
    <3> QED BY <2>3, <3>1, FS_Subset, FS_CardinalityType
  <2>5. Cardinality(since(r)) <= Limit(query)
    BY <1>4, <2>1, <2>4
  <2> QED BY <1>2, <2>5
<1> QED BY <1>5, <1>6, <1>7 DEF within

\* The query of a request has its fields.
LEMMA QueryOfRequest ==
  ASSUME NEW request \in Requests
  PROVE  LET query == parseTraceQueryParameters(request) IN
         /\ query.NumTraces \in Nat /\ query.StartTime \in Int /\ query.EndTime \in Int
         /\ Limit(query) \in Nat
         /\ Limit(query) = IF query.NumTraces > 0 THEN query.NumTraces ELSE DefaultLimit
<1> DEFINE query == parseTraceQueryParameters(request)
<1>1. query.NumTraces \in Nat /\ query.StartTime \in Int /\ query.EndTime \in Int
  <2>1. CASE request = {}
    BY <2>1 DEF parseTraceQueryParameters
  <2>2. CASE request # {}
    <3> DEFINE q == CHOOSE q \in request : TRUE
    <3>1. q \in request
      BY <2>2
    <3>2. query = [q EXCEPT !.NumTraces = IF @ > 0 THEN @ ELSE 0]
      BY <2>2 DEF parseTraceQueryParameters
    <3> HIDE DEF q, query
    <3>3. DOMAIN q = QueryNames /\ q.NumTraces \in Int /\ q.StartTime \in Int /\ q.EndTime \in Int
      BY <3>1, RequestsAssumption DEF RequestsAssumption
    <3> QED BY <3>2, <3>3 DEF QueryNames
  <2> QED BY <2>1, <2>2
<1> HIDE DEF query
<1>2. Limit(query) \in Nat /\ Limit(query) = IF query.NumTraces > 0 THEN query.NumTraces ELSE DefaultLimit
  BY <1>1, RequestsAssumption DEF Limit, RequestsAssumption
<1> QED BY <1>1, <1>2 DEF query

\* A search selects spans that meet it, of no more traces than it asks for, and all
\* of a trace and block whose row is among the latest.
THEOREM SearchFinds == Spec => []StoredIsFound
<1>1. TableInv => StoredIsFound
  <2> SUFFICES ASSUME TableInv, NEW request \in Requests
               PROVE  LET query    == parseTraceQueryParameters(request)
                          asked    == IF query.NumTraces > 0 THEN query.NumTraces ELSE DefaultLimit
                          selected == buildQuery(query)
                          missed   == Rows \ {p[2] : p \in selected}
                      IN  /\ Cardinality({p[1].TraceId : p \in selected}) <= asked
                          /\ query.EndTime % Second = 0 /\ (query.DurationMin = {} \/ query.DurationMax = {}) =>
                               ~ \E k \in missed :
                                   /\ Keywords(query, Row(k)) /\ StartsInWindow(query, k)
                                   /\ \E r \in TraceIdTs : r.block = k[1] /\ r.TraceId = Row(k).TraceId
                                                          /\ IsAmongLatest(r, query, asked)
    BY DEF StoredIsFound
  <2> DEFINE query    == parseTraceQueryParameters(request)
             asked    == IF query.NumTraces > 0 THEN query.NumTraces ELSE DefaultLimit
             selected == buildQuery(query)
  <2> HIDE DEF query
  <2>1. /\ query.StartTime \in Int /\ query.EndTime \in Int
        /\ Limit(query) \in Nat /\ Limit(query) = asked
    BY QueryOfRequest DEF query
  <2> HIDE DEF asked
  <2>2. Cardinality({p[1].TraceId : p \in selected}) <= asked
    <3> DEFINE ids == {p[1].TraceId : p \in selected}
               f   == [r \in Listed(query) |-> r.TraceId]
               all == {f[r] : r \in Listed(query)}
    <3>1. IsFiniteSet(Listed(query)) /\ Cardinality(Listed(query)) <= asked
      BY <2>1, ListedWithinLimit
    <3>2. IsMap(f) /\ DOMAIN f = Listed(query)
      BY DEF IsMap
    <3>3. IsFiniteSet(all) /\ Cardinality(all) <= Cardinality(Listed(query))
      <4> HIDE DEF f
      <4> QED BY <3>1, <3>2, FiniteImage
    <3>4. ids \in SUBSET all
      BY DEF buildQuery
    <3> HIDE DEF ids, all
    <3>5. IsFiniteSet(ids) /\ Cardinality(ids) <= Cardinality(all)
      BY <3>3, <3>4, FS_Subset
    <3>6. Cardinality(ids) \in Nat /\ Cardinality(all) \in Nat /\ Cardinality(Listed(query)) \in Nat
      BY <3>1, <3>3, <3>5, FS_CardinalityType
    <3>7. Cardinality(ids) <= asked
      BY <2>1, <3>1, <3>3, <3>5, <3>6
    <3> QED BY <3>7 DEF ids
  <2>3. ASSUME query.EndTime % Second = 0, query.DurationMin = {} \/ query.DurationMax = {},
               NEW k \in Rows, Keywords(query, Row(k)), StartsInWindow(query, k),
               NEW r \in TraceIdTs, r.block = k[1], r.TraceId = Row(k).TraceId,
               IsAmongLatest(r, query, asked)
        PROVE  \E p \in selected : p[2] = k
    <3>1. PICK o \in RowsOf(k[1]) : Row(o).TraceId = Row(k).TraceId /\ Row(o).Timestamp = r.Start
      BY <2>3, TraceIdRows
    <3>2. InWindow(query, r)
      <4>1. query.EndTime > query.StartTime => r.Start \in query.StartTime .. query.EndTime
        BY <2>3, <3>1 DEF StartsInWindow
      <4>2. /\ Formatted(query.StartTime) \in Int /\ Formatted(query.StartTime) <= query.StartTime
            /\ Formatted(query.EndTime) = query.EndTime
        BY <2>1, <2>3, FormattedTimes
      <4> QED BY <2>1, <4>1, <4>2 DEF InWindow
    <3>3. InDuration(query, r)
      BY <2>3 DEF InDuration
    <3>4. r \in Listed(query)
      BY <2>1, <2>3, <3>2, <3>3, ListedWithinLimit
    <3>5. <<r, k>> \in selected
      BY <2>3, <3>4 DEF buildQuery
    <3> HIDE DEF selected
    <3> QED BY <3>5
  <2> HIDE DEF selected
  <2>4. ASSUME query.EndTime % Second = 0, query.DurationMin = {} \/ query.DurationMax = {},
               NEW k \in Rows \ {p[2] : p \in selected},
               Keywords(query, Row(k)), StartsInWindow(query, k), NEW r \in TraceIdTs,
               r.block = k[1], r.TraceId = Row(k).TraceId, IsAmongLatest(r, query, asked)
        PROVE  FALSE
    BY <2>3, <2>4
  <2> QED BY <2>2, <2>4 DEF query, selected, asked
<1> QED BY <1>1, TableInvariant, PTL
=============================================================================
