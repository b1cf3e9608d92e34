------------------------- MODULE ClickhouseMetrics -------------------------
(***************************************************************************)
(* The metrics exporter of ClickHouse: a push sorts the metrics of a batch *)
(* by type into five models (pushMetricsData), and InsertMetrics inserts   *)
(* them concurrently, one goroutine and one transaction per model.  Each   *)
(* goroutine sends its result to a channel and ends; InsertMetrics waits   *)
(* for all of them, closes the channel and collects the errors.            *)
(***************************************************************************)
EXTENDS RetryQueue, FiniteSets

CONSTANTS
  Types,      \* the supported metric types
  TypesOf,    \* per batch: the types it has data points of
  Unset,      \* the batches with a metric whose type is unset or unknown
  ChanSize,   \* capacity of errsChan: len(supportedMetricTypes)
  MaxLost     \* bound: insertions whose answer gets lost, per batch and type

ASSUME TypesAssumption ==
  /\ IsFiniteSet(Types)
  /\ TypesOf \in [Batches -> SUBSET Types]
  /\ Unset \subseteq Batches
  /\ ChanSize = Cardinality(Types)
  /\ MaxLost \in Nat

VARIABLES
  main,      \* the push: "none", "add", "wait", "collect"
  insert,    \* per model: "none", "begin", "exec", "done" or "ended"
  result,    \* what its insert returned: "nil" or "error"
  errsChan,  \* the models whose result is in the channel
  copies,    \* per batch and type, how often its rows are in the table
  lost       \* history: how often the answer to an insertion got lost

pushVars == <<main, insert, result, errsChan>>
dbVars   == <<copies, lost>>
vars     == <<queueVars, pushVars, dbVars>>

Init ==
  /\ QueueInit
  /\ main = "none"
  /\ insert = [t \in Types |-> "none"]
  /\ result = [t \in Types |-> "nil"]
  /\ errsChan = {}
  /\ copies = [b \in Batches |-> [t \in Types |-> 0]]
  /\ lost = [b \in Batches |-> [t \in Types |-> 0]]

Start(b) ==
  /\ b \in Taken /\ sender = "pushing" /\ main = "none"
  /\ main' = "add"
  /\ UNCHANGED <<queueVars, insert, result, errsChan, dbVars>>

\* The loop over the metrics comes first: one metric without a type and the
\* push returns before anything is inserted.
AddFails(b) ==
  /\ b \in Taken \cap Unset /\ main = "add"
  /\ main' = "none"
  /\ PushFails(b)
  /\ UNCHANGED <<insert, result, errsChan, dbVars>>

\* InsertMetrics: a goroutine for each model.  One without data points returns
\* nil at once.
Spawn_OnlyThoseWithData(b) ==
  /\ b \in Taken \ Unset /\ main = "add"
  /\ main' = "wait"
  /\ insert' = [t \in TypesOf[b] |-> "begin"]
  /\ result' = [t \in TypesOf[b] |-> "nil"]
  /\ UNCHANGED <<queueVars, errsChan, dbVars>>

Spawn(b) ==
  /\ b \in Taken \ Unset /\ main = "add"
  /\ main' = "wait"
  /\ insert' = [t \in Types |-> IF t \in TypesOf[b] THEN "begin" ELSE "done"]
  /\ result' = [t \in Types |-> "nil"]
  /\ UNCHANGED <<queueVars, errsChan, dbVars>>

Goto(t, s) == insert' = [insert EXCEPT ![t] = s]

\* The transaction of model t begins ...
Begin(t) ==
  /\ insert[t] = "begin"
  /\ Goto(t, "exec")
  /\ UNCHANGED <<queueVars, main, result, errsChan, dbVars>>

\* ... its single INSERT of all rows is executed ...
Exec_Again(b, t) ==
  /\ b \in Taken /\ insert[t] = "exec"
  /\ copies' = [copies EXCEPT ![b][t] = @ + 1]
  /\ copies[b][t] <= MaxAttempts
  /\ Goto(t, "done") \/ UNCHANGED insert
  /\ UNCHANGED <<queueVars, main, result, errsChan, lost>>

Exec(b, t) ==
  /\ b \in Taken /\ insert[t] = "exec"
  /\ copies' = [copies EXCEPT ![b][t] = @ + 1]
  /\ Goto(t, "done")
  /\ UNCHANGED <<queueVars, main, result, errsChan, lost>>

\* ... or executed, but its answer is lost ...
ExecUnseen(b, t) ==
  /\ b \in Taken /\ insert[t] = "exec" /\ lost[b][t] < MaxLost
  /\ copies' = [copies EXCEPT ![b][t] = @ + 1]
  /\ lost' = [lost EXCEPT ![b][t] = @ + 1]
  /\ Goto(t, "done")
  /\ result' = [result EXCEPT ![t] = "error"]
  /\ UNCHANGED <<queueVars, main, errsChan>>

\* ... or one of the calls fails before: no connection, the timeout of the
\* push, the server says no.  The other models go on.
InsertFails(t) ==
  /\ insert[t] \in {"begin", "exec"}
  /\ Goto(t, "done")
  /\ result' = [result EXCEPT ![t] = "error"]
  /\ UNCHANGED <<queueVars, main, errsChan, dbVars>>

\* errsChan <- m.insert(ctx, db) followed by wg.Done().
HasRoom == Cardinality(errsChan) < ChanSize

\* Without a buffer the goroutine waits for a receiver, which is not there yet.
Send_Unbuffered(t) ==
  /\ insert[t] = "done" /\ main = "wait"
  /\ UNCHANGED vars

Send(t) ==
  /\ insert[t] = "done" /\ HasRoom
  /\ errsChan' = errsChan \cup {t}
  /\ Goto(t, "ended")
  /\ UNCHANGED <<queueVars, main, result, dbVars>>

\* wg.Wait() returns.
AllDone_FirstResult == errsChan # {}
AllDone == \A t \in Types : insert[t] = "ended"

Wait ==
  /\ main = "wait" /\ AllDone
  /\ main' = "collect"
  /\ UNCHANGED <<queueVars, insert, result, errsChan, dbVars>>

\* The errors of the models are combined; only if there is none it is nil.
NoError_OfTheFirst == \E t \in errsChan : result[t] = "nil"
NoError == \A t \in errsChan : result[t] = "nil"

Collect(b) ==
  /\ b \in Taken /\ main = "collect"
  /\ main' = "none" /\ errsChan' = {}
  /\ IF NoError THEN PushSucceeds(b) ELSE PushFails(b)
  /\ UNCHANGED <<insert, result, dbVars>>

InsertStep(t) == \/ Begin(t) \/ InsertFails(t) \/ Send(t)
                 \/ \E b \in Batches : Exec(b, t) \/ ExecUnseen(b, t)
MainStep(b)   == Start(b) \/ AddFails(b) \/ Spawn(b) \/ Wait \/ Collect(b)

QueueOnly == QueueStep /\ UNCHANGED <<pushVars, dbVars>>
TakeNext  == (\E b \in Batches : Take(b)) /\ UNCHANGED <<pushVars, dbVars>>
Finished  == (helper = "closed" \/ (Quiet /\ ~MayClose)) /\ UNCHANGED vars

Next == \/ QueueOnly \/ TakeNext
        \/ \E b \in Batches : MainStep(b)
        \/ \E t \in Types : InsertStep(t)
        \/ Finished

Spec == Init /\ [][Next]_vars

\* The consumer with its timer, Shutdown, and every goroutine go on.
Consumer == \/ TakeNext \/ (\E b \in Batches : MainStep(b))
            \/ /\ \/ \E b \in Batches : Retry(b) \/ GiveUp(b)
                  \/ CloseClient
               /\ UNCHANGED <<pushVars, dbVars>>

FairSpec == Spec /\ WF_vars(Consumer) /\ \A t \in Types : WF_vars(InsertStep(t))
-----------------------------------------------------------------------------
\* Type invariant of the variables above.
TypeOK ==
  /\ QueueTypeOK
  /\ main \in {"none", "add", "wait", "collect"}
  /\ insert \in [Types -> {"none", "begin", "exec", "done", "ended"}]
  /\ result \in [Types -> {"nil", "error"}]
  /\ errsChan \subseteq Types
  /\ copies \in [Batches -> [Types -> Nat]]
  /\ lost \in [Batches -> [Types -> Nat]]

\* InsertMetrics leaves no goroutine behind: when the push is over none of its
\* models can still insert, so a retry or the next batch starts alone.
NothingLeftBehind == main \in {"none", "add", "collect"} => \A t \in Types : insert[t] \in {"none", "ended"}

\* Each attempt inserts the rows of a type at most once, and only of types the
\* batch has, although it inserts those again that an earlier attempt stored;
\* a batch with a metric that has no type is never even partly stored.
OncePerAttempt ==
  \A b \in Batches, t \in Types :
    copies[b][t] <= IF t \notin TypesOf[b] \/ b \in Unset THEN 0
                    ELSE IF b \in Taken THEN attempt ELSE MaxAttempts

\* The batch is one part per type it has data of.
PartCopies == [b \in Batches |-> [t \in TypesOf[b] |-> copies[b][t]]]

Delivery == INSTANCE BatchDelivery WITH stage <- Stage, copies <- PartCopies, Parts <- TypesOf

\* The exporter implements the delivery of batches: it reports a batch stored
\* only if the rows of each of its types are in the database.
ImplementsDelivery == Delivery!Spec

\* Every accepted batch is stored or dropped in the end: InsertMetrics always
\* ends, because errsChan has room for every model, so that no goroutine waits
\* for the collection that waits for it.
SettlesAsPromised == Delivery!EverySettled
=============================================================================
