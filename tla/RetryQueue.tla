----------------------------- MODULE RetryQueue -----------------------------
(***************************************************************************)
(* The sending queue that the ClickHouse exporters ask the collector's     *)
(* exporterhelper for (factory.go, enforcedQueueSettings): a bounded queue,*)
(* one consumer, and retries of a push that failed, with Shutdown.  What a *)
(* push does is left to the modules that extend this one.                  *)
(***************************************************************************)
EXTENDS Integers, Sequences

CONSTANTS
  Batches,      \* the batches the pipeline hands to the exporter
  QueueSize,    \* config.QueueSettings.QueueSize
  MaxAttempts,  \* bound: attempts until RetrySettings.MaxElapsedTime is over
  MayClose      \* whether the collector may shut the exporter down

ASSUME QueueAssumption ==
  /\ QueueSize \in Nat
  /\ MaxAttempts \in Nat \ {0}
  /\ MayClose \in BOOLEAN

VARIABLES
  queue,    \* the batches accepted and not yet taken
  stage,    \* "new", "refused", "queued", "taken", "stored" or "dropped"
  attempt,  \* number of pushes of the batch that was taken, 0 when none is
  sender,   \* the consumer: "idle", "pushing" or "waiting" to retry
  helper    \* "open", "stopping" or "closed"

queueVars == <<queue, stage, attempt, sender, helper>>

Taken == {b \in Batches : stage[b] = "taken"}

QueueInit ==
  /\ queue = << >>
  /\ stage = [b \in Batches |-> "new"]
  /\ attempt = 0
  /\ sender = "idle"
  /\ helper = "open"

SetStage(b, s) == stage' = [stage EXCEPT ![b] = s]

\* A full queue refuses; the pipeline gets the error at once.
Enqueue(b) ==
  /\ helper = "open" /\ stage[b] = "new"
  /\ IF Len(queue) < QueueSize
       THEN queue' = Append(queue, b) /\ SetStage(b, "queued")
       ELSE SetStage(b, "refused") /\ UNCHANGED queue
  /\ UNCHANGED <<attempt, sender, helper>>

\* The only consumer (NumConsumers: 1) takes a batch when it has none.
Take(b) ==
  /\ sender = "idle" /\ queue # << >> /\ b = Head(queue)
  /\ queue' = Tail(queue)
  /\ SetStage(b, "taken")
  /\ attempt' = 1 /\ sender' = "pushing"
  /\ UNCHANGED helper

Done(b, s) ==
  /\ SetStage(b, s)
  /\ attempt' = 0 /\ sender' = "idle"
  /\ UNCHANGED <<queue, helper>>

\* What the push of the batch that was taken returns.
PushSucceeds(b) == stage[b] = "taken" /\ sender = "pushing" /\ Done(b, "stored")

PushFails(b) ==
  /\ stage[b] = "taken" /\ sender = "pushing"
  /\ sender' = "waiting"
  /\ UNCHANGED <<queue, stage, attempt, helper>>

\* After the backoff; a shutdown ends the wait instead, and so does the time.
Retry(b) ==
  /\ stage[b] = "taken" /\ sender = "waiting"
  /\ helper = "open" /\ attempt < MaxAttempts
  /\ attempt' = attempt + 1 /\ sender' = "pushing"
  /\ UNCHANGED <<queue, stage, helper>>

GiveUp(b) ==
  /\ stage[b] = "taken" /\ sender = "waiting"
  /\ helper # "open" \/ attempt = MaxAttempts
  /\ Done(b, "dropped")

\* Shutdown stops the retries, lets the consumer drain the queue, and only
\* then shuts the exporter down, which closes its database client.
Shutdown ==
  /\ MayClose /\ helper = "open"
  /\ helper' = "stopping"
  /\ UNCHANGED <<queue, stage, attempt, sender>>

CloseClient ==
  /\ helper = "stopping" /\ queue = << >> /\ sender = "idle"
  /\ helper' = "closed"
  /\ UNCHANGED <<queue, stage, attempt, sender>>

\* The steps of the queue that leave a push alone.
QueueStep == \/ \E b \in Batches : Enqueue(b) \/ Retry(b) \/ GiveUp(b)
             \/ Shutdown \/ CloseClient

\* Nothing is offered any more, and nothing is left to do.
Quiet == queue = << >> /\ sender = "idle" /\ \A b \in Batches : stage[b] # "new"

QueueTypeOK ==
  /\ queue \in Seq(Batches)
  /\ stage \in [Batches -> {"new", "refused", "queued", "taken", "stored", "dropped"}]
  /\ attempt \in 0 .. MaxAttempts
  /\ sender \in {"idle", "pushing", "waiting"}
  /\ helper \in {"open", "stopping", "closed"}

\* The stage of each batch as BatchDelivery knows it.
Stage == [b \in Batches |-> IF stage[b] \in {"queued", "taken"} THEN "accepted" ELSE stage[b]]
=============================================================================
