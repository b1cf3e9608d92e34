---------------------------- MODULE BulkIndexer ----------------------------
(***************************************************************************)
(* Document delivery of the Elasticsearch exporter: pushDocuments and its  *)
(* OnFailure callback (elasticsearch_bulk.go), running on the bulk indexer *)
(* of the Elasticsearch client.                                            *)
(*                                                                         *)
(* The indexer is a library: a channel `queue` of capacity NumWorkers, one *)
(* goroutine per worker that moves documents from the queue into the       *)
(* worker's buffer, a ticker goroutine that flushes every buffer now and   *)
(* then, and Close.  A buffer is guarded by its worker's mutex, which is   *)
(* held for a whole flush: the HTTP request, its retries, and the callbacks*)
(* of the items that failed.  OnFailure adds the document to the queue     *)
(* again, so it can block, or find the channel closed, under that mutex.   *)
(***************************************************************************)
EXTENDS Integers, FiniteSets

CONSTANTS
  Docs,          \* the documents handed to pushDocuments, one call each
  WithId,        \* those with a documentID: Jaeger service/operation records
  NumWorkers,    \* config.NumWorkers
  FlushItems,    \* config.Flush.Bytes, counted in documents
  RetryEnabled,  \* config.Retry.Enabled
  MaxRequests,   \* config.Retry.MaxRequests
  MayClose,      \* whether the collector may shut the exporter down
  MaxLost        \* bound: copies of a document whose answer gets lost

ASSUME ConstantsAssumption ==
  /\ IsFiniteSet(Docs)
  /\ WithId \subseteq Docs
  /\ NumWorkers \in Nat \ {0}
  /\ FlushItems \in Nat \ {0}
  /\ RetryEnabled \in BOOLEAN
  /\ MaxRequests \in Nat
  /\ MayClose \in BOOLEAN
  /\ MaxLost \in Nat

Workers  == 1 .. NumWorkers
Visitors == {"ticker", "closer"}   \* goroutines that flush buffers of others

Answers  == {"created", "retryable", "rejected"}   \* to one item of a request
Outcomes == {"indexed", "logged", "unreported", "requestFailed"}
Places   == {"new", "refused", "queued", "held", "buffered", "retrying"}
              \cup Answers \cup Outcomes

VARIABLES
  where,     \* where each document is, its item's answer, or how it ended
  owner,     \* the worker it is with, 0 when with none
  attempts,  \* the `attempts` captured by the document's OnFailure closure
  body,      \* its body reader: at the "start", or at the "end"
  holder,    \* who holds each worker's mutex across a flush
  flush,     \* the progress of that flush
  tries,     \* HTTP retries the client has made for that flush
  visit,     \* the worker a visitor is at, 0 when at none
  closer,    \* progress of Close
  process,   \* "running", or "panicked": send on closed channel
  sends,     \* history: HTTP requests that carried the document
  copies,    \* history: copies of the document in the index
  lost,      \* history: copies whose answer never came back
  torn       \* history: documents written into a buffer without their body

docVars    == <<where, owner, attempts, body>>
workerVars == <<holder, flush, tries>>
closeVars  == <<visit, closer, process>>
history    == <<sends, copies, lost, torn>>
vars       == <<docVars, workerVars, closeVars, history>>

-----------------------------------------------------------------------------
\* maxAttempts of newTracesExporter and newLogsExporter.
MaxAttempts == IF RetryEnabled THEN MaxRequests ELSE 1

\* maxRetries of newElasticsearchClient: retries of one HTTP request.
MaxRetries_CountsFirst == IF RetryEnabled THEN MaxRequests ELSE 0
MaxRetries == IF RetryEnabled /\ MaxRequests > 1 THEN MaxRequests - 1 ELSE 0

\* The capacity of the queue, and whether there is room.
QueueCap    == NumWorkers
Queue       == {d \in Docs : where[d] = "queued"}
HasRoom     == Cardinality(Queue) < QueueCap
At(w, p)    == {d \in Docs : where[d] = p /\ owner[d] = w}
Held(w)     == At(w, "held")
Buffered(w) == At(w, "buffered")

\* The worker goroutine is back at its receive from the queue.
Idle(w) == Held(w) = {} /\ holder[w] # "worker"

Accepted(d) == where[d] \notin {"new", "refused"}
Settled(d)  == where[d] \in Outcomes

Move(d, p, w) == /\ where' = [where EXCEPT ![d] = p]
                 /\ owner' = [owner EXCEPT ![d] = w]

\* attempts := 1
FirstAttempt_Zero == 0
FirstAttempt      == 1

Init ==
  /\ where    = [d \in Docs |-> "new"]
  /\ owner    = [d \in Docs |-> 0]
  /\ attempts = [d \in Docs |-> FirstAttempt]
  /\ body     = [d \in Docs |-> "start"]
  /\ holder   = [w \in Workers |-> "none"]
  /\ flush    = [w \in Workers |-> "idle"]
  /\ tries    = [w \in Workers |-> 0]
  /\ visit    = [v \in Visitors |-> 0]
  /\ closer   = "open"
  /\ process  = "running"
  /\ sends    = [d \in Docs |-> 0]
  /\ copies   = [d \in Docs |-> 0]
  /\ lost     = [d \in Docs |-> 0]
  /\ torn     = {}

-----------------------------------------------------------------------------
(* pushDocuments: bulkIndexer.Add blocks while the queue is full, unless   *)
(* the caller's context ends first.  The collector stops the receivers     *)
(* before the exporter, so nothing is pushed once Close has begun.         *)

Push(d) ==
  /\ closer = "open" /\ where[d] = "new"
  /\ HasRoom
  /\ Move(d, "queued", 0)
  /\ UNCHANGED <<attempts, body, workerVars, closeVars, history>>

Cancel_Queued(d) ==
  /\ closer = "open" /\ where[d] \in {"new", "queued"}
  /\ Move(d, "refused", 0)
  /\ UNCHANGED <<attempts, body, workerVars, closeVars, history>>

Cancel(d) ==
  /\ closer = "open" /\ where[d] = "new"
  /\ Move(d, "refused", 0)
  /\ UNCHANGED <<attempts, body, workerVars, closeVars, history>>

-----------------------------------------------------------------------------
(* The worker goroutine.                                                   *)

Receive(w, d) ==
  /\ where[d] = "queued" /\ Idle(w)
  /\ Move(d, "held", w)
  /\ UNCHANGED <<attempts, body, workerVars, closeVars, history>>

\* Under the mutex: append the item to the buffer, which reads its body to
\* the end, and start a flush if the buffer is full.
Write(w, d) ==
  /\ d \in Held(w) /\ holder[w] = "none"
  /\ Move(d, "buffered", w)
  /\ body' = [body EXCEPT ![d] = "end"]
  /\ torn' = IF body[d] = "start" THEN torn ELSE torn \cup {d}
  /\ IF Cardinality(Buffered(w)) + 1 >= FlushItems
       THEN /\ holder' = [holder EXCEPT ![w] = "worker"]
            /\ flush'  = [flush EXCEPT ![w] = "sending"]
       ELSE UNCHANGED <<holder, flush>>
  /\ UNCHANGED <<attempts, tries, closeVars, sends, copies, lost>>

\* Writing the item fails: OnFailure gets an empty response and an error.
WriteFails(w, d) ==
  /\ d \in Held(w) /\ holder[w] = "none"
  /\ Move(d, IF d \in WithId THEN "unreported" ELSE "logged", 0)
  /\ UNCHANGED <<attempts, body, workerVars, closeVars, history>>

-----------------------------------------------------------------------------
(* A flush of w's buffer by the holder of its mutex.                       *)

\* A visitor leaves worker w: on to the next one, or back.
LeaveWorker(v, w) ==
  /\ visit' = [visit EXCEPT ![v] = IF w = NumWorkers THEN 0 ELSE w + 1]
  /\ closer' = IF v = "closer" /\ w = NumWorkers THEN "closed" ELSE closer

Release(w) ==
  /\ holder' = [holder EXCEPT ![w] = "none"]
  /\ flush'  = [flush EXCEPT ![w] = "idle"]
  /\ tries'  = [tries EXCEPT ![w] = 0]
  /\ IF holder[w] \in Visitors THEN LeaveWorker(holder[w], w)
                               ELSE UNCHANGED <<visit, closer>>

\* A create operation on an id that exists is answered with a conflict.
Creatable(d) == d \in WithId => copies[d] = 0

Count(f, S) == [d \in Docs |-> IF d \in S THEN f[d] + 1 ELSE f[d]]

\* The bulk request is answered item by item.
Answered(w) ==
  /\ flush[w] = "sending"
  /\ \E answer \in [Buffered(w) -> Answers] :
       LET created == {d \in Buffered(w) : answer[d] = "created"} IN
       /\ \A d \in created : Creatable(d)
       /\ copies' = Count(copies, created)
       /\ where'  = [d \in Docs |-> IF d \in Buffered(w) THEN answer[d] ELSE where[d]]
  /\ sends' = Count(sends, Buffered(w))
  /\ flush' = [flush EXCEPT ![w] = "answering"]
  /\ UNCHANGED <<owner, attempts, body, holder, tries, closeVars, lost, torn>>

\* No answer to use, although some of the items may have been created.
Unanswered(w) ==
  /\ flush[w] = "sending"
  /\ \E S \in SUBSET {d \in Buffered(w) : Creatable(d) /\ lost[d] < MaxLost} :
       copies' = Count(copies, S) /\ lost' = Count(lost, S)
  /\ sends' = Count(sends, Buffered(w))
  /\ UNCHANGED <<attempts, body, process, torn>>

\* The client sends the request again: a status in retryOnStatus, a timeout.
RequestRetried(w) ==
  /\ tries[w] < MaxRetries
  /\ Unanswered(w)
  /\ tries' = [tries EXCEPT ![w] = @ + 1]
  /\ UNCHANGED <<where, owner, holder, flush, visit, closer>>

\* It gives up: OnError logs the request, no OnFailure runs, the buffer is reset.
RequestGivenUp(w) ==
  /\ Unanswered(w)
  /\ where' = [d \in Docs |-> IF d \in Buffered(w) THEN "requestFailed" ELSE where[d]]
  /\ owner' = [d \in Docs |-> IF d \in Buffered(w) THEN 0 ELSE owner[d]]
  /\ Release(w)

-----------------------------------------------------------------------------
(* The items of an answered request, one at a time.                        *)

\* The callback of item d may run: no other one of this flush is under way.
NextItem(w, d, answers) ==
  /\ flush[w] = "answering" /\ At(w, "retrying") = {}
  /\ owner[d] = w /\ where[d] \in answers

ItemCreated(w, d) ==
  /\ NextItem(w, d, {"created"})
  /\ Move(d, "indexed", 0)
  /\ UNCHANGED <<attempts, body, workerVars, closeVars, history>>

\* An item with a documentID has no OnFailure.
FailureUnseen(w, d) ==
  /\ d \in WithId /\ NextItem(w, d, {"retryable", "rejected"})
  /\ Move(d, "unreported", 0)
  /\ UNCHANGED <<attempts, body, workerVars, closeVars, history>>

\* case attempts < maxAttempts && shouldRetryEvent(resp.Status)
ShouldRetry(d) == attempts[d] < MaxAttempts /\ where[d] = "retryable"

Rewind_Forgotten(d) == UNCHANGED body
Rewind(d) == body' = [body EXCEPT ![d] = "start"]

\* The whole request is retried when one of its items should be.
OnFailureRetry_AllItems(w, d) ==
  /\ d \notin WithId /\ NextItem(w, d, Answers)
  /\ attempts[d] < MaxAttempts /\ At(w, "retryable") # {}
  /\ Move(d, "retrying", w)
  /\ attempts' = [attempts EXCEPT ![d] = @ + 1]
  /\ Rewind(d)
  /\ UNCHANGED <<workerVars, closeVars, history>>

\* OnFailure, first case: count the attempt, rewind the body, call Add.
OnFailureRetry(w, d) ==
  /\ d \notin WithId /\ NextItem(w, d, {"retryable", "rejected"})
  /\ ShouldRetry(d)
  /\ Move(d, "retrying", w)
  /\ attempts' = [attempts EXCEPT ![d] = @ + 1]
  /\ Rewind(d)
  /\ UNCHANGED <<workerVars, closeVars, history>>

\* OnFailure, the other cases: log and drop.
OnFailureDrop(w, d) ==
  /\ d \notin WithId /\ NextItem(w, d, {"retryable", "rejected"})
  /\ ~ShouldRetry(d)
  /\ Move(d, "logged", 0)
  /\ UNCHANGED <<attempts, body, workerVars, closeVars, history>>

Resubmit_ToItsWorker(w, d) ==
  /\ d \in At(w, "retrying") /\ closer = "open"
  /\ HasRoom /\ Idle(w)
  /\ Move(d, "queued", 0)
  /\ UNCHANGED <<attempts, body, workerVars, closeVars, history>>

\* The Add inside OnFailure: the mutex stays held until there is room.
Resubmit(w, d) ==
  /\ d \in At(w, "retrying") /\ closer = "open"
  /\ HasRoom
  /\ Move(d, "queued", 0)
  /\ UNCHANGED <<attempts, body, workerVars, closeVars, history>>

ResubmitPanics_Waits(w, d) ==
  /\ d \in At(w, "retrying") /\ closer # "open"
  /\ UNCHANGED vars

\* Close has closed the channel: the send panics.
ResubmitPanics(w, d) ==
  /\ d \in At(w, "retrying") /\ closer # "open"
  /\ process' = "panicked"
  /\ UNCHANGED <<docVars, workerVars, visit, closer, history>>

FlushDone(w) ==
  /\ flush[w] = "answering"
  /\ \A d \in Docs : owner[d] = w => where[d] = "held"
  /\ Release(w)
  /\ UNCHANGED <<docVars, process, history>>

-----------------------------------------------------------------------------
(* The ticker and Close visit the workers in order.                        *)

TickerWakes ==
  /\ closer = "open" /\ visit["ticker"] = 0
  /\ visit' = [visit EXCEPT !["ticker"] = 1]
  /\ UNCHANGED <<docVars, workerVars, closer, process, history>>

VisitWorker(v, w) ==
  /\ visit[v] = w /\ holder[w] = "none"
  /\ IF Buffered(w) = {}
       THEN LeaveWorker(v, w) /\ UNCHANGED workerVars
       ELSE /\ holder' = [holder EXCEPT ![w] = v]
            /\ flush'  = [flush EXCEPT ![w] = "sending"]
            /\ UNCHANGED <<tries, visit, closer>>
  /\ UNCHANGED <<docVars, process, history>>

Shutdown_WithoutWaiting ==
  /\ MayClose /\ closer = "open"
  /\ closer' = "closed"
  /\ UNCHANGED <<docVars, workerVars, visit, process, history>>

\* Shutdown: Close stops the ticker and closes the queue ...
Shutdown ==
  /\ MayClose /\ closer = "open"
  /\ closer' = "closing"
  /\ UNCHANGED <<docVars, workerVars, visit, process, history>>

\* ... waits for the ticker goroutine to end ...
TickerEnds ==
  /\ closer = "closing" /\ visit["ticker"] = 0
  /\ closer' = "draining"
  /\ UNCHANGED <<docVars, workerVars, visit, process, history>>

\* ... and for the workers to drain the queue, and flushes what is left.
WorkersEnd ==
  /\ closer = "draining" /\ Queue = {} /\ \A w \in Workers : Idle(w)
  /\ closer' = "flushing" /\ visit' = [visit EXCEPT !["closer"] = 1]
  /\ UNCHANGED <<docVars, workerVars, process, history>>

-----------------------------------------------------------------------------
\* What the goroutines do once they run: each is scheduled fairly.
WorkerStep(w) == \E d \in Docs : Receive(w, d) \/ Write(w, d) \/ WriteFails(w, d)
FlushStep(w)  == \/ Answered(w) \/ RequestRetried(w) \/ RequestGivenUp(w) \/ FlushDone(w)
                 \/ \E d \in Docs : \/ ItemCreated(w, d)    \/ FailureUnseen(w, d)
                                    \/ OnFailureRetry(w, d) \/ OnFailureDrop(w, d)
                                    \/ Resubmit(w, d)       \/ ResubmitPanics(w, d)
VisitorStep(v) == \E w \in Workers : VisitWorker(v, w)
CloseStep      == TickerEnds \/ WorkersEnd

\* The process is gone, or the exporter is closed.
Finished == (process = "panicked" \/ closer = "closed") /\ UNCHANGED vars

Next ==
  \/ /\ process = "running"
     /\ \/ \E d \in Docs : Push(d) \/ Cancel(d)
        \/ \E w \in Workers : WorkerStep(w) \/ FlushStep(w)
        \/ \E v \in Visitors : VisitorStep(v)
        \/ TickerWakes \/ Shutdown \/ CloseStep
  \/ Finished

Running(A) == process = "running" /\ A

Fairness ==
  /\ \A w \in Workers : WF_vars(Running(WorkerStep(w))) /\ WF_vars(Running(FlushStep(w)))
  /\ \A v \in Visitors : WF_vars(Running(VisitorStep(v)))
  /\ WF_vars(Running(TickerWakes)) /\ WF_vars(Running(CloseStep))

Spec     == Init /\ [][Next]_vars
FairSpec == Spec /\ Fairness
-----------------------------------------------------------------------------
\* Type invariant of the variables above.
TypeOK ==
  /\ where    \in [Docs -> Places]
  /\ owner    \in [Docs -> 0 .. NumWorkers]
  /\ attempts \in [Docs -> Nat \ {0}]
  /\ body     \in [Docs -> {"start", "end"}]
  /\ holder   \in [Workers -> {"none", "worker"} \cup Visitors]
  /\ flush    \in [Workers -> {"idle", "sending", "answering"}]
  /\ tries    \in [Workers -> Nat]
  /\ visit    \in [Visitors -> 0 .. NumWorkers]
  /\ closer   \in {"open", "closing", "draining", "flushing", "closed"}
  /\ process  \in {"running", "panicked"}
  /\ sends    \in [Docs -> Nat]
  /\ copies   \in [Docs -> Nat]
  /\ lost     \in [Docs -> Nat]
  /\ torn     \in SUBSET Docs

\* The retries of items and the retries of requests multiply: no document is
\* carried by more than MaxRequests * MaxRequests requests (one if MaxRequests
\* is 0 or retries are disabled), over all its callbacks and flushes.
SendBudget      == IF RetryEnabled /\ MaxRequests > 1 THEN MaxRequests * MaxRequests ELSE 1
SendsWithinBudget == \A d \in Docs : sends[d] <= SendBudget

\* OnFailure retries a document only after an answer that says it was not
\* stored, so every copy but one comes from an answer that was lost.
DuplicatesOnlyFromLostAnswers == \A d \in Docs : copies[d] <= lost[d] + 1

\* Every retry rewinds the shared body reader before a worker reads it again:
\* no request ever carries an item without its document.
BodiesAreWhole == torn = {}

\* Only a retry can find the queue closed: an exporter that never retries
\* items never panics in Shutdown, whatever is in flight.
PanicsOnlyWithRetries == process = "panicked" => RetryEnabled /\ MaxRequests > 1

\* A completed Shutdown has left no accepted document in the queue, with a
\* worker, in a buffer or waiting for a retry.
CloseLeavesNothingBehind ==
  closer = "closed" => \A d \in Docs : Accepted(d) => Settled(d)

\* What pushDocuments accepted is settled in the end, unless Shutdown panics.
AcceptedIsSettled == \A d \in Docs : Accepted(d) ~> (Settled(d) \/ process = "panicked")

\* A document whose item failed with a retryable status and attempts to spare
\* gets out of its OnFailure callback: the retry is queued ("retry: enabled:
\* event retry on error").
RetryIsQueued == \A d \in Docs : where[d] = "retrying" ~> where[d] # "retrying"

\* Shutdown returns, unless it panics.
CloseReturns == closer = "closing" ~> (closer = "closed" \/ process = "panicked")

\* The delivery of documents, seen from the callers of pushDocuments.
Stage == [d \in Docs |->
            IF where[d] \in {"new", "refused", "indexed"} THEN where[d]
            ELSE IF Settled(d) THEN "failed" ELSE "accepted"]

Delivery == INSTANCE DocDelivery WITH stage <- Stage

\* The indexer and its callbacks implement the delivery of documents.
ImplementsDelivery == Delivery!Spec
=============================================================================
