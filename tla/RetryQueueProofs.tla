-------------------------- MODULE RetryQueueProofs --------------------------
(***************************************************************************)
(* What every exporter over the sending queue may rely on, whatever its    *)
(* push does: the lemmas that the proofs about ClickhouseTx and            *)
(* ClickhouseMetrics share.                                                *)
(***************************************************************************)
EXTENDS RetryQueue, TLAPS

\* At most one batch is taken, what is in the queue is still queued, each batch
\* once, and an idle consumer has none.
OneTaken ==
  /\ \A i \in 1 .. Len(queue) : stage[queue[i]] = "queued"
  /\ \A i, j \in 1 .. Len(queue) : queue[i] = queue[j] => i = j
  /\ \A b, c \in Taken : b = c
  /\ sender = "idle" => Taken = {}

\* A step of the queue, of its consumer, or of none of them.
QueueMove ==
  \/ \E b \in Batches : \/ Enqueue(b) \/ Take(b) \/ Retry(b) \/ GiveUp(b)
                        \/ PushSucceeds(b) \/ PushFails(b)
  \/ Shutdown \/ CloseClient
  \/ UNCHANGED queueVars

\* The type invariant of the queue.
LEMMA QueueTyped == ASSUME QueueTypeOK, QueueMove PROVE QueueTypeOK'
<1> USE QueueAssumption DEF QueueAssumption, QueueTypeOK, SetStage, Done, queueVars
<1>1. ASSUME NEW b \in Batches, Enqueue(b) PROVE QueueTypeOK'
  <2>1. Append(queue, b) \in Seq(Batches)
    OBVIOUS
  <2>2. CASE queue' = Append(queue, b) /\ SetStage(b, "queued")
    BY <1>1, <2>1, <2>2 DEF Enqueue
  <2>3. CASE SetStage(b, "refused") /\ UNCHANGED queue
    BY <1>1, <2>3 DEF Enqueue
  <2> QED BY <1>1, <2>2, <2>3 DEF Enqueue
<1>2. ASSUME NEW b \in Batches, Take(b) PROVE QueueTypeOK'
  BY <1>2 DEF Take
<1>3. ASSUME NEW b \in Batches, Retry(b) PROVE QueueTypeOK'
  BY <1>3 DEF Retry
<1>4. ASSUME NEW b \in Batches, GiveUp(b) \/ PushSucceeds(b) PROVE QueueTypeOK'
  BY <1>4 DEF GiveUp, PushSucceeds
<1>5. ASSUME NEW b \in Batches, PushFails(b) PROVE QueueTypeOK'
  BY <1>5 DEF PushFails
<1>6. CASE Shutdown \/ CloseClient \/ UNCHANGED queueVars
  BY <1>6 DEF Shutdown, CloseClient
<1> QED BY <1>1, <1>2, <1>3, <1>4, <1>5, <1>6 DEF QueueMove

\* The positions of a sequence that grew by one element.
LEMMA OnePositionMore == \A n \in Nat : \A i \in 1 .. (n + 1) : i \in 1 .. n \/ i = n + 1
  OBVIOUS

\* The head of the queue is a batch that is queued.
LEMMA HeadIsQueued ==
  ASSUME QueueTypeOK, OneTaken, NEW b \in Batches, Take(b)
  PROVE  stage[b] = "queued"
<1>1. b = queue[1] /\ 1 \in 1 .. Len(queue)
  BY DEF Take, QueueTypeOK
<1> QED BY <1>1 DEF OneTaken

\* OneTaken is preserved by every step.
LEMMA OneTakenKept == ASSUME QueueTypeOK, OneTaken, QueueMove PROVE OneTaken'
<1> USE DEF QueueTypeOK, OneTaken, SetStage, Done, Taken, queueVars
<1>0. /\ \A i \in 1 .. Len(queue) : queue[i] \in Batches
      /\ \A b \in Batches : stage[b] # "queued" => \A i \in 1 .. Len(queue) : queue[i] # b
  <2>1. \A i \in 1 .. Len(queue) : queue[i] \in Batches
    BY queue \in Seq(Batches)
  <2> QED BY <2>1
<1>1. ASSUME NEW b \in Batches, Enqueue(b) PROVE OneTaken'
  <2>1. CASE queue' = Append(queue, b) /\ SetStage(b, "queued")
    <3>1. /\ Len(queue') = Len(queue) + 1 /\ queue'[Len(queue) + 1] = b
          /\ \A i \in 1 .. Len(queue) : queue'[i] = queue[i] /\ queue[i] # b
      <4>1. queue \in Seq(Batches) /\ queue' = Append(queue, b)
        BY <2>1
      <4>2. \A i \in 1 .. Len(queue) : queue[i] # b
        BY <1>0, <1>1 DEF Enqueue
      <4> QED BY ONLY b \in Batches, <4>1, <4>2
    <3>2. \A i \in 1 .. Len(queue') : i \in 1 .. Len(queue) \/ i = Len(queue) + 1
      <4>1. Len(queue) \in Nat
        OBVIOUS
      <4> QED BY ONLY <3>1, <4>1, OnePositionMore
    <3>3. \A i \in 1 .. Len(queue') : stage'[queue'[i]] = "queued"
      <4>1. stage'[b] = "queued" /\ \A c \in Batches : c # b => stage'[c] = stage[c]
        BY <2>1
      <4>2. \A i \in 1 .. Len(queue) : queue[i] \in Batches /\ stage[queue[i]] = "queued"
        BY <1>0
      <4> QED BY ONLY <3>1, <3>2, <4>1, <4>2
    <3>4. \A i, j \in 1 .. Len(queue') : queue'[i] = queue'[j] => i = j
      <4>1. \A i, j \in 1 .. Len(queue) : queue[i] = queue[j] => i = j
        OBVIOUS
      <4> QED BY ONLY <3>1, <3>2, <4>1
    <3>5. Taken' = Taken
      BY <1>1, <2>1 DEF Enqueue
    <3> HIDE DEF Taken
    <3> QED BY <1>1, <3>3, <3>4, <3>5 DEF Enqueue
  <2>2. CASE SetStage(b, "refused") /\ UNCHANGED queue
    <3>1. /\ \A i \in 1 .. Len(queue) : stage'[queue[i]] = "queued"
          /\ Taken' = Taken
      BY <1>0, <1>1, <2>2 DEF Enqueue
    <3> HIDE DEF Taken
    <3> QED BY <1>1, <2>2, <3>1 DEF Enqueue
  <2> QED BY <1>1, <2>1, <2>2 DEF Enqueue
<1>2. ASSUME NEW b \in Batches, Take(b) PROVE OneTaken'
  <2>1. queue' = Tail(queue) /\ queue # << >> /\ b = queue[1]
    BY <1>2 DEF Take
  <2>2. /\ Len(queue') = Len(queue) - 1
        /\ \A i \in 1 .. Len(queue') : queue'[i] = queue[i + 1] /\ queue'[i] # b
    <3>1. queue \in Seq(Batches) /\ \A i, j \in 1 .. Len(queue) : queue[i] = queue[j] => i = j
      OBVIOUS
    <3> QED BY ONLY <2>1, <3>1
  <2>3. /\ Len(queue) \in Nat /\ Len(queue') \in Nat
        /\ \A i \in 1 .. Len(queue') : i + 1 \in 1 .. Len(queue) /\ i \in 1 .. Len(queue)
    BY <2>1, <2>2
  <2>4. \A i \in 1 .. Len(queue') : stage'[queue'[i]] = "queued"
    <3>1. \A i \in 1 .. Len(queue) : queue[i] \in Batches /\ stage[queue[i]] = "queued"
      BY <1>0
    <3>2. \A c \in Batches : c # b => stage'[c] = stage[c]
      BY <1>2 DEF Take
    <3> QED BY ONLY <2>2, <2>3, <3>1, <3>2
  <2>5. \A i, j \in 1 .. Len(queue') : queue'[i] = queue'[j] => i = j
    <3>1. \A i, j \in 1 .. Len(queue) : queue[i] = queue[j] => i = j
      OBVIOUS
    <3> QED BY ONLY <2>2, <2>3, <3>1
  <2>6. (\A c, d \in Taken' : c = d) /\ sender' = "pushing"
    <3>1. Taken = {} /\ sender' = "pushing"
      BY <1>2 DEF Take
    <3>2. Taken' \subseteq {b}
      BY <1>2, <3>1 DEF Take
    <3> QED BY <3>1, <3>2
  <2> HIDE DEF Taken
  <2> QED BY <2>4, <2>5, <2>6
<1>3. ASSUME NEW b \in Batches, NEW s \in {"stored", "dropped"}, stage[b] = "taken", Done(b, s)
      PROVE  OneTaken'
  <2>1. \A i \in 1 .. Len(queue) : queue[i] # b
    BY <1>0, <1>3
  <2>2. /\ \A i \in 1 .. Len(queue) : stage'[queue[i]] = "queued"
        /\ Taken' = {} /\ queue' = queue
    BY <1>0, <1>3, <2>1
  <2> HIDE DEF Taken
  <2> QED BY <2>2
<1>4. ASSUME NEW b \in Batches, Retry(b) \/ PushFails(b) PROVE OneTaken'
  BY <1>4 DEF Retry, PushFails
<1>5. CASE Shutdown \/ CloseClient \/ UNCHANGED queueVars
  BY <1>5 DEF Shutdown, CloseClient
<1>6. ASSUME NEW b \in Batches, GiveUp(b) PROVE OneTaken'
  <2>1. stage[b] = "taken" /\ Done(b, "dropped")
    BY <1>6 DEF GiveUp
  <2> QED BY <1>3, <2>1
<1>7. ASSUME NEW b \in Batches, PushSucceeds(b) PROVE OneTaken'
  <2>1. stage[b] = "taken" /\ Done(b, "stored")
    BY <1>7 DEF PushSucceeds
  <2> QED BY <1>3, <2>1
<1> QED BY <1>1, <1>2, <1>4, <1>5, <1>6, <1>7 DEF QueueMove

-----------------------------------------------------------------------------
(* The stages as BatchDelivery knows them.                                  *)

\* A batch is offered.
LEMMA StageOfEnqueue ==
  ASSUME QueueTypeOK, NEW b \in Batches, Enqueue(b)
  PROVE  /\ Stage[b] = "new"
         /\ \/ Stage' = [Stage EXCEPT ![b] = "accepted"]
            \/ Stage' = [Stage EXCEPT ![b] = "refused"]
BY DEF QueueTypeOK, Enqueue, SetStage, Stage

\* A batch is settled: its push succeeds, or the consumer gives it up.
LEMMA StageOfEnd ==
  ASSUME QueueTypeOK, NEW b \in Batches
  PROVE  /\ GiveUp(b) => Stage[b] = "accepted" /\ Stage' = [Stage EXCEPT ![b] = "dropped"]
         /\ PushSucceeds(b) => Stage[b] = "accepted" /\ Stage' = [Stage EXCEPT ![b] = "stored"]
<1> USE DEF QueueTypeOK, Done, SetStage, Stage
<1>1. ASSUME GiveUp(b) PROVE Stage[b] = "accepted" /\ Stage' = [Stage EXCEPT ![b] = "dropped"]
  BY <1>1 DEF GiveUp
<1>2. ASSUME PushSucceeds(b) PROVE Stage[b] = "accepted" /\ Stage' = [Stage EXCEPT ![b] = "stored"]
  BY <1>2 DEF PushSucceeds
<1> QED BY <1>1, <1>2

\* Nothing else is seen of the queue.
LEMMA StageUnseen ==
  ASSUME QueueTypeOK, OneTaken,
         \/ \E b \in Batches : Take(b) \/ Retry(b) \/ PushFails(b)
         \/ Shutdown \/ CloseClient
         \/ UNCHANGED stage
  PROVE  UNCHANGED Stage
<1>1. ASSUME NEW b \in Batches, Take(b) PROVE UNCHANGED Stage
  <2>1. stage[b] = "queued"
    BY <1>1, HeadIsQueued
  <2> QED BY <1>1, <2>1 DEF Take, Stage, SetStage, QueueTypeOK
<1>2. CASE UNCHANGED stage
  BY <1>2 DEF Stage
<1> QED BY <1>1, <1>2 DEF Retry, PushFails, Shutdown, CloseClient
=============================================================================
