----------------------- MODULE ClickhouseMetricsProofs -----------------------
(***************************************************************************)
(* Theorems about ClickhouseMetrics, for any batches, types, queue and     *)
(* number of attempts.                                                     *)
(***************************************************************************)
EXTENDS ClickhouseMetrics, RetryQueueProofs

\* Every step is one of the queue, of its consumer, or of none of them.
LEMMA StepsAreMoves == ASSUME [Next]_vars PROVE QueueMove
<1>1. CASE QueueOnly \/ TakeNext
  BY <1>1 DEF QueueOnly, QueueStep, TakeNext, QueueMove
<1>2. ASSUME NEW b \in Batches, MainStep(b) PROVE QueueMove
  BY <1>2 DEF MainStep, Start, AddFails, Spawn, Wait, Collect, QueueMove
<1>3. ASSUME NEW t \in Types, InsertStep(t) PROVE QueueMove
  BY <1>3 DEF InsertStep, Begin, InsertFails, Send, Exec, ExecUnseen, QueueMove
<1>4. CASE UNCHANGED vars
  BY <1>4 DEF vars, QueueMove
<1> QED BY <1>1, <1>2, <1>3, <1>4 DEF Next, Finished

\* The type invariant holds in every state.
THEOREM TypeCorrect == Spec => []TypeOK
<1> USE TypesAssumption DEF TypesAssumption, TypeOK
<1>1. Init => TypeOK
  BY QueueAssumption DEF QueueAssumption, QueueTypeOK, Init, QueueInit
<1>2. TypeOK /\ [Next]_vars => TypeOK'
  <2> SUFFICES ASSUME TypeOK, [Next]_vars PROVE TypeOK'
    OBVIOUS
  <2>0. QueueTypeOK'
    BY StepsAreMoves, QueueTyped
  <2> USE DEF pushVars, dbVars, Goto
  <2>1. ASSUME UNCHANGED <<pushVars, dbVars>> PROVE TypeOK'
    BY <2>0, <2>1
  <2>2. ASSUME NEW b \in Batches, Start(b) \/ AddFails(b) PROVE TypeOK'
    BY <2>0, <2>2 DEF Start, AddFails
  <2>3. ASSUME NEW b \in Batches, Spawn(b) PROVE TypeOK'
    BY <2>0, <2>3 DEF Spawn
  <2>4. ASSUME NEW b \in Batches, Wait \/ Collect(b) PROVE TypeOK'
    BY <2>0, <2>4 DEF Wait, Collect
  <2>5. ASSUME NEW t \in Types, Begin(t) \/ InsertFails(t) PROVE TypeOK'
    BY <2>0, <2>5 DEF Begin, InsertFails
  <2>6. ASSUME NEW t \in Types, Send(t) PROVE TypeOK'
    BY <2>0, <2>6 DEF Send
  <2>7. ASSUME NEW t \in Types, NEW b \in Batches, Exec(b, t) PROVE TypeOK'
    BY <2>0, <2>7 DEF Exec
  <2>8. ASSUME NEW t \in Types, NEW b \in Batches, ExecUnseen(b, t) PROVE TypeOK'
    <3>1. /\ copies' \in [Batches -> [Types -> Nat]] /\ lost' \in [Batches -> [Types -> Nat]]
      BY <2>8 DEF ExecUnseen
    <3>2. /\ insert' \in [Types -> {"none", "begin", "exec", "done", "ended"}]
          /\ result' \in [Types -> {"nil", "error"}] /\ UNCHANGED <<main, errsChan>>
      BY <2>8 DEF ExecUnseen
    <3> QED BY <2>0, <3>1, <3>2
  <2> QED
    BY <2>1, <2>2, <2>3, <2>4, <2>5, <2>6, <2>7, <2>8
       DEF Next, QueueOnly, TakeNext, MainStep, InsertStep, Finished, vars
<1> QED BY <1>1, <1>2, PTL DEF Spec

-----------------------------------------------------------------------------
(* What InsertMetrics and its goroutines know of each other.                *)

\* A push is under way only while the consumer is pushing; its goroutines run
\* only while it waits for them; the channel holds the result of those that have
\* ended; the batch has a type for each of its metrics, and a goroutine that runs
\* is that of a type it has.
Together ==
  /\ OneTaken
  /\ main # "none" => sender = "pushing"
  /\ NothingLeftBehind
  /\ main \in {"none", "add"} => errsChan = {}
  /\ main \in {"wait", "collect"} =>
       /\ \A t \in Types : insert[t] # "none" /\ (insert[t] = "ended" <=> t \in errsChan)
       /\ \A b \in Taken :
            /\ b \notin Unset
            /\ \A t \in Types : insert[t] \in {"begin", "exec"} => t \in TypesOf[b]

\* Together is preserved by every step.
THEOREM TogetherInvariant == Spec => []Together
<1> USE DEF Together, NothingLeftBehind
<1>1. Init => Together
  BY DEF Init, QueueInit, OneTaken, Taken
<1>2. TypeOK /\ Together /\ [Next]_vars => Together'
  <2> SUFFICES ASSUME TypeOK, Together, [Next]_vars PROVE Together'
    OBVIOUS
  <2>0. OneTaken'
    BY StepsAreMoves, OneTakenKept DEF TypeOK
  <2> USE DEF queueVars, pushVars, dbVars, Goto
  <2>1. ASSUME UNCHANGED pushVars, main = "none" \/ (Taken' = Taken /\ sender' = "pushing")
        PROVE  Together'
    <3>1. CASE main = "none"
      BY <2>0, <2>1, <3>1
    <3>2. CASE Taken' = Taken /\ sender' = "pushing"
      BY <2>0, <2>1, <3>2
    <3> QED BY <2>1, <3>1, <3>2
  <2>2. ASSUME QueueOnly PROVE Together'
    <3>1. UNCHANGED pushVars
      BY <2>2 DEF QueueOnly
    <3>2. sender # "pushing" => main = "none"
      OBVIOUS
    <3>3. sender = "pushing" => sender' = "pushing" /\ Taken' = Taken
      BY <2>2 DEF QueueOnly, QueueStep, Enqueue, Retry, GiveUp, Shutdown, CloseClient,
                  SetStage, Taken, TypeOK, QueueTypeOK
    <3> QED BY <2>1, <3>1, <3>2, <3>3
  <2>3. ASSUME TakeNext PROVE Together'
    <3>1. main = "none" /\ UNCHANGED pushVars
      BY <2>3 DEF TakeNext, Take
    <3> QED BY <2>1, <3>1
  <2>4. ASSUME NEW b \in Batches, Start(b) PROVE Together'
    BY <2>0, <2>4 DEF Start
  <2>5. ASSUME NEW b \in Batches, AddFails(b) PROVE Together'
    BY <2>0, <2>5 DEF AddFails
  <2>6. ASSUME NEW b \in Batches, Spawn(b) PROVE Together'
    <3>1. /\ main' = "wait" /\ UNCHANGED <<queue, stage, sender, errsChan>>
          /\ errsChan = {} /\ sender = "pushing"
          /\ \A t \in Types : insert'[t] = IF t \in TypesOf[b] THEN "begin" ELSE "done"
      BY <2>6 DEF Spawn
    <3>2. Taken' = {b} /\ b \notin Unset
      BY <2>6, <3>1 DEF Spawn, OneTaken, Taken
    <3> QED BY <2>0, <3>1, <3>2
  <2>7. ASSUME Wait PROVE Together'
    <3>1. main' = "collect" /\ UNCHANGED <<insert, errsChan, sender>> /\ Taken' = Taken
      BY <2>7 DEF Wait, Taken
    <3>2. \A t \in Types : insert[t] = "ended"
      BY <2>7 DEF Wait, AllDone
    <3> QED BY <2>0, <2>7, <3>1, <3>2 DEF Wait
  <2>8. ASSUME NEW b \in Batches, Collect(b) PROVE Together'
    <3>1. main' = "none" /\ errsChan' = {} /\ UNCHANGED insert /\ main = "collect"
      BY <2>8 DEF Collect
    <3> QED BY <2>0, <3>1
  <2>9. ASSUME NEW t \in Types, NEW s \in {"exec", "done", "ended"}, insert[t] \in {"begin", "exec", "done"},
               Goto(t, s), s = "exec" => insert[t] = "begin",
               errsChan' = IF s = "ended" THEN errsChan \cup {t} ELSE errsChan,
               UNCHANGED <<queueVars, main>>
        PROVE  Together'
    <3>1. main = "wait" /\ UNCHANGED sender /\ Taken' = Taken
      <4>1. main = "wait"
        <5>1. insert[t] \notin {"none", "ended"}
          BY <2>9
        <5>2. main \in {"none", "add", "wait", "collect"}
          BY DEF TypeOK
        <5> QED BY <5>1, <5>2
      <4>2. UNCHANGED sender /\ Taken' = Taken
        BY <2>9 DEF Taken
      <4> QED BY <4>1, <4>2
    <3>2. /\ insert'[t] = s
          /\ \A u \in Types : u # t => insert'[u] = insert[u]
      BY <2>9 DEF TypeOK
    <3>3. \A u \in Types : insert'[u] # "none" /\ (insert'[u] = "ended" <=> u \in errsChan')
      BY <2>9, <3>1, <3>2
    <3>4. \A b \in Taken' : b \notin Unset /\ \A u \in Types : insert'[u] \in {"begin", "exec"} => u \in TypesOf[b]
      BY <2>9, <3>1, <3>2
    <3> QED BY <2>0, <2>9, <3>1, <3>3, <3>4
  <2>10. ASSUME NEW t \in Types, Begin(t) \/ InsertFails(t) \/ Send(t) PROVE Together'
    <3>1. CASE Begin(t)
      BY <2>9, <3>1 DEF Begin
    <3>2. CASE InsertFails(t)
      BY <2>9, <3>2 DEF InsertFails
    <3>3. CASE Send(t)
      BY <2>9, <3>3 DEF Send
    <3> QED BY <2>10, <3>1, <3>2, <3>3
  <2>11. ASSUME NEW t \in Types, NEW b \in Batches, Exec(b, t) \/ ExecUnseen(b, t) PROVE Together'
    BY <2>9, <2>11 DEF Exec, ExecUnseen
  <2>12. CASE UNCHANGED vars
    BY <2>0, <2>12 DEF vars, Taken
  <2> QED
    BY <2>2, <2>3, <2>4, <2>5, <2>6, <2>7, <2>8, <2>10, <2>11, <2>12
       DEF Next, MainStep, InsertStep, Finished
<1> QED BY <1>1, <1>2, TypeCorrect, PTL DEF Spec

\* When a push is over none of its goroutines can still insert.
THEOREM NoneIsLeft == Spec => []NothingLeftBehind
<1>1. Together => NothingLeftBehind
  BY DEF Together
<1> QED BY <1>1, TogetherInvariant, PTL

-----------------------------------------------------------------------------
(* The copies of a batch.                                                   *)

\* The rows of type t may still be inserted by the attempt under way.
MayInsert(t) ==
  /\ sender = "pushing"
  /\ main \in {"none", "add"} \/ insert[t] \in {"begin", "exec"}

\* An attempt that may still insert a type has not done so; a batch that was
\* never taken has no copies, nor has a type it lacks; and a goroutine that ended
\* without an error has inserted its rows.
CopiesInv ==
  /\ \A b \in Batches, t \in Types :
       /\ copies[b][t] <= MaxAttempts
       /\ stage[b] \in {"new", "refused", "queued"} => copies[b][t] = 0
       /\ t \notin TypesOf[b] \/ b \in Unset => copies[b][t] = 0
  /\ \A b \in Taken, t \in Types :
       /\ copies[b][t] <= attempt
       /\ MayInsert(t) => copies[b][t] < attempt
       /\ (main \in {"wait", "collect"} /\ t \in TypesOf[b] /\ insert[t] \in {"done", "ended"} /\ result[t] = "nil")
            => copies[b][t] > 0

\* An insertion, seen or not, is the first of its attempt.
LEMMA InsertionIsNew ==
  ASSUME TypeOK, Together, CopiesInv, NEW b \in Taken, NEW t \in Types, insert[t] = "exec"
  PROVE  /\ main = "wait" /\ sender = "pushing"
         /\ t \in TypesOf[b] /\ b \notin Unset
         /\ copies[b][t] < attempt /\ attempt <= MaxAttempts
<1>1. main = "wait"
  <2>1. main \in {"none", "add", "wait", "collect"}
    BY DEF TypeOK
  <2> QED BY <2>1 DEF Together, NothingLeftBehind
<1>2. sender = "pushing" /\ t \in TypesOf[b] /\ b \notin Unset
  BY <1>1 DEF Together
<1>3. copies[b][t] < attempt
  BY <1>1, <1>2 DEF CopiesInv, MayInsert
<1>4. attempt <= MaxAttempts
  BY QueueAssumption DEF QueueAssumption, TypeOK, QueueTypeOK
<1> QED BY <1>1, <1>2, <1>3, <1>4

\* CopiesInv is preserved by every step.
THEOREM CopiesInvariant == Spec => []CopiesInv
<1> USE QueueAssumption, TypesAssumption DEF QueueAssumption, TypesAssumption, CopiesInv, MayInsert
<1>1. Init => CopiesInv
  BY DEF Init, QueueInit, Taken
<1>2. TypeOK /\ Together /\ CopiesInv /\ [Next]_vars => CopiesInv'
  <2> SUFFICES ASSUME TypeOK, Together, CopiesInv, [Next]_vars PROVE CopiesInv'
    OBVIOUS
  <2> USE DEF TypeOK, QueueTypeOK, queueVars, pushVars, dbVars, SetStage, Done, Taken, Goto
  <2>1. ASSUME NEW b \in Batches, Enqueue(b), UNCHANGED <<pushVars, dbVars>> PROVE CopiesInv'
    <3>1. \A c \in Batches : stage'[c] = stage[c] \/ (c = b /\ stage'[c] \in {"queued", "refused"})
      BY <2>1 DEF Enqueue
    <3>2. stage[b] = "new" /\ UNCHANGED <<attempt, sender>>
      BY <2>1 DEF Enqueue
    <3>3. Taken' = Taken
      BY <3>1, <3>2
    <3> HIDE DEF Taken
    <3> QED BY <2>1, <3>1, <3>2, <3>3
  <2>2. ASSUME NEW b \in Batches, Retry(b), UNCHANGED <<pushVars, dbVars>> PROVE CopiesInv'
    <3>1. \A c \in Taken : c = b
      BY <2>2 DEF Retry, Together, OneTaken
    <3>2. main = "none"
      BY <2>2 DEF Retry, Together
    <3> QED BY <2>2, <3>1, <3>2 DEF Retry
  <2>3. ASSUME NEW b \in Batches, GiveUp(b), UNCHANGED <<pushVars, dbVars>> PROVE CopiesInv'
    <3>1. Taken' = {}
      BY <2>3 DEF GiveUp, Together, OneTaken
    <3> HIDE DEF Taken
    <3> QED BY <2>3, <3>1 DEF GiveUp
  <2>4. ASSUME Shutdown \/ CloseClient, UNCHANGED <<pushVars, dbVars>> PROVE CopiesInv'
    <3>1. UNCHANGED <<stage, attempt, sender, main, insert, result, copies>>
      BY <2>4 DEF Shutdown, CloseClient
    <3>2. Taken' = Taken /\ \A t \in Types : MayInsert(t)' = MayInsert(t)
      BY <3>1
    <3> HIDE DEF Taken, MayInsert
    <3> QED BY <3>1, <3>2
  <2>5. ASSUME NEW b \in Batches, Take(b), UNCHANGED <<pushVars, dbVars>> PROVE CopiesInv'
    <3>1. stage[b] = "queued" /\ main = "none" /\ Taken = {}
      BY <2>5, HeadIsQueued DEF Take, Together, OneTaken
    <3>2. Taken' = {b}
      BY <2>5, <3>1 DEF Take
    <3> HIDE DEF Taken
    <3> QED BY <2>5, <3>1, <3>2 DEF Take
  <2>6. ASSUME NEW b \in Batches, Start(b) PROVE CopiesInv'
    BY <2>6 DEF Start
  <2>7. ASSUME NEW b \in Batches, AddFails(b) PROVE CopiesInv'
    BY <2>7 DEF AddFails, PushFails
  <2>8. ASSUME NEW b \in Batches, Spawn(b) PROVE CopiesInv'
    BY <2>8 DEF Spawn, Together, OneTaken
  <2>9. ASSUME Wait PROVE CopiesInv'
    BY <2>9 DEF Wait
  <2>10. ASSUME NEW b \in Batches, Collect(b) PROVE CopiesInv'
    <3>1. UNCHANGED <<copies, insert, result>> /\ main' = "none" /\ main = "collect"
      BY <2>10 DEF Collect
    <3>2. CASE PushSucceeds(b)
      <4>1. Taken' = {}
        BY <3>2 DEF PushSucceeds, Together, OneTaken
      <4> HIDE DEF Taken
      <4> QED BY <3>1, <3>2, <4>1 DEF PushSucceeds
    <3>3. CASE PushFails(b)
      BY <3>1, <3>3 DEF PushFails
    <3> QED BY <2>10, <3>2, <3>3 DEF Collect
  <2>11. ASSUME NEW t \in Types, Begin(t) PROVE CopiesInv'
    BY <2>11 DEF Begin
  <2>12. ASSUME NEW t \in Types, InsertFails(t) PROVE CopiesInv'
    BY <2>12 DEF InsertFails
  <2>13. ASSUME NEW t \in Types, Send(t) PROVE CopiesInv'
    BY <2>13 DEF Send
  <2>14. ASSUME NEW t \in Types, NEW b \in Taken, insert[t] = "exec",
                copies' = [copies EXCEPT ![b][t] = @ + 1],
                Goto(t, "done"), UNCHANGED <<queueVars, main>>,
                \A u \in Types : u # t => result'[u] = result[u]
         PROVE  CopiesInv'
    <3>1. /\ main = "wait" /\ t \in TypesOf[b] /\ b \notin Unset
          /\ copies[b][t] < attempt /\ attempt <= MaxAttempts
      BY <2>14, InsertionIsNew
    <3>2. /\ copies'[b][t] = copies[b][t] + 1 /\ copies[b][t] \in Nat
          /\ \A c \in Batches, u \in Types : c # b \/ u # t => copies'[c][u] = copies[c][u]
      BY <2>14
    <3>3. insert'[t] = "done" /\ \A u \in Types : u # t => insert'[u] = insert[u]
      BY <2>14
    <3>4. UNCHANGED <<stage, attempt, sender, main>> /\ Taken' = Taken /\ stage[b] = "taken"
      BY <2>14
    <3>5. ASSUME NEW c \in Batches, NEW u \in Types
          PROVE  /\ copies'[c][u] <= MaxAttempts
                 /\ stage'[c] \in {"new", "refused", "queued"} => copies'[c][u] = 0
                 /\ u \notin TypesOf[c] \/ c \in Unset => copies'[c][u] = 0
      <4>1. CASE c = b /\ u = t
        BY <3>1, <3>2, <3>4, <4>1
      <4>2. CASE c # b \/ u # t
        BY <3>2, <3>4, <4>2
      <4> QED BY <4>1, <4>2
    <3>6. ASSUME NEW c \in Taken', NEW u \in Types
          PROVE  /\ copies'[c][u] <= attempt'
                 /\ MayInsert(u)' => copies'[c][u] < attempt'
                 /\ (main' \in {"wait", "collect"} /\ u \in TypesOf[c] /\ insert'[u] \in {"done", "ended"} /\ result'[u] = "nil")
                      => copies'[c][u] > 0
      <4>1. c = b
        BY <3>4 DEF Together, OneTaken
      <4>2. CASE u = t
        BY <3>1, <3>2, <3>3, <3>4, <4>1, <4>2
      <4>3. CASE u # t
        BY <2>14, <3>2, <3>3, <3>4, <4>1, <4>3
      <4> QED BY <4>2, <4>3
    <3> QED BY <3>5, <3>6
  <2>15. ASSUME NEW t \in Types, NEW b \in Batches, Exec(b, t) PROVE CopiesInv'
    BY <2>14, <2>15 DEF Exec
  <2>16. ASSUME NEW t \in Types, NEW b \in Batches, ExecUnseen(b, t) PROVE CopiesInv'
    BY <2>14, <2>16 DEF ExecUnseen
  <2>17. CASE UNCHANGED vars
    BY <2>17 DEF vars
  <2> QED
    BY <2>1, <2>2, <2>3, <2>4, <2>5, <2>6, <2>7, <2>8, <2>9, <2>10, <2>11, <2>12, <2>13, <2>15, <2>16, <2>17
       DEF Next, QueueOnly, QueueStep, TakeNext, MainStep, InsertStep, Finished
<1> QED BY <1>1, <1>2, TypeCorrect, TogetherInvariant, PTL DEF Spec

\* However often a batch is retried, no attempt inserts a type twice, or a type
\* the batch lacks.
THEOREM EachAttemptOnce == Spec => []OncePerAttempt
<1>1. CopiesInv => OncePerAttempt
  BY DEF CopiesInv, OncePerAttempt
<1> QED BY <1>1, CopiesInvariant, PTL

-----------------------------------------------------------------------------
(* The refinement: a step of the exporter is a step of BatchDelivery, or    *)
(* one that it does not see.                                                *)

\* The exporter implements the delivery of batches.
THEOREM Implements == Spec => ImplementsDelivery
<1> USE TypesAssumption DEF TypesAssumption
<1>1. Init => Delivery!Init
  BY DEF Init, QueueInit, Delivery!Init, Stage, PartCopies
<1>2. TypeOK /\ Together /\ CopiesInv /\ [Next]_vars => [Delivery!Next]_(Delivery!vars)
  <2> SUFFICES ASSUME TypeOK, Together, CopiesInv, [Next]_vars PROVE [Delivery!Next]_(Delivery!vars)
    OBVIOUS
  <2>0. QueueTypeOK /\ OneTaken
    BY DEF TypeOK, Together
  <2>1. ASSUME UNCHANGED copies PROVE UNCHANGED PartCopies
    BY <2>1 DEF PartCopies
  <2>2. ASSUME \/ \E b \in Batches : Take(b) \/ Retry(b) \/ PushFails(b)
               \/ Shutdown \/ CloseClient \/ UNCHANGED stage,
               UNCHANGED copies
        PROVE  UNCHANGED Delivery!vars
    BY <2>0, <2>1, <2>2, StageUnseen DEF Delivery!vars
  <2>3. ASSUME NEW b \in Batches, Enqueue(b), UNCHANGED copies PROVE Delivery!Offer(b)
    BY <2>0, <2>1, <2>3, StageOfEnqueue DEF Delivery!Offer
  <2>4. ASSUME NEW b \in Batches, GiveUp(b), UNCHANGED copies PROVE Delivery!Finish(b)
    BY <2>0, <2>1, <2>4, StageOfEnd DEF Delivery!Finish
  <2>5. ASSUME NEW b \in Batches, Collect(b) PROVE [Delivery!Next]_(Delivery!vars)
    <3>1. UNCHANGED copies
      BY <2>5 DEF Collect, dbVars
    <3>2. CASE PushFails(b)
      BY <2>2, <3>1, <3>2
    <3>3. CASE NoError /\ PushSucceeds(b)
      <4>1. Stage[b] = "accepted" /\ Stage' = [Stage EXCEPT ![b] = "stored"]
        BY <2>0, <3>3, StageOfEnd
      <4>2. b \in Taken /\ main = "collect"
        BY <2>5 DEF Collect
      <4>3. \A t \in TypesOf[b] : insert[t] = "ended" /\ result[t] = "nil"
        BY <3>3, <4>2 DEF Together, NothingLeftBehind, NoError, TypeOK
      <4>4. \A t \in TypesOf[b] : copies[b][t] > 0
        BY <4>2, <4>3 DEF CopiesInv
      <4>5. \A t \in TypesOf[b] : PartCopies'[b][t] > 0
        BY <3>1, <4>4 DEF PartCopies
      <4>6. Delivery!Finish(b)
        BY <2>1, <3>1, <4>1, <4>5 DEF Delivery!Finish
      <4> QED BY <4>6 DEF Delivery!Next
    <3> QED BY <2>5, <3>2, <3>3 DEF Collect
  <2>6. ASSUME NEW t \in Types, NEW b \in Batches, Exec(b, t) \/ ExecUnseen(b, t)
        PROVE  Delivery!Next
    <3>1. /\ b \in Taken /\ insert[t] = "exec" /\ UNCHANGED stage
          /\ copies' = [copies EXCEPT ![b][t] = @ + 1]
      BY <2>6 DEF Exec, ExecUnseen, queueVars
    <3>2. t \in TypesOf[b]
      BY <3>1, InsertionIsNew
    <3>3. PartCopies' = [PartCopies EXCEPT ![b][t] = @ + 1]
      BY <3>1, <3>2 DEF PartCopies, TypeOK
    <3>4. Stage[b] = "accepted" /\ UNCHANGED Stage
      BY <3>1 DEF Stage, Taken
    <3>5. Delivery!Insert(b, t)
      BY <3>3, <3>4 DEF Delivery!Insert
    <3> QED BY <3>2, <3>5 DEF Delivery!Next
  <2>7. CASE QueueOnly
    BY <2>2, <2>3, <2>4, <2>7 DEF QueueOnly, QueueStep, Delivery!Next, dbVars
  <2>8. CASE TakeNext
    BY <2>2, <2>8 DEF TakeNext, dbVars
  <2>9. ASSUME NEW b \in Batches, Start(b) \/ AddFails(b) \/ Spawn(b) \/ Wait
        PROVE  UNCHANGED Delivery!vars
    BY <2>2, <2>9 DEF Start, AddFails, Spawn, Wait, queueVars, dbVars
  <2>10. ASSUME NEW t \in Types, Begin(t) \/ InsertFails(t) \/ Send(t)
         PROVE  UNCHANGED Delivery!vars
    BY <2>2, <2>10 DEF Begin, InsertFails, Send, queueVars, dbVars
  <2>11. CASE UNCHANGED vars
    BY <2>2, <2>11 DEF vars, queueVars, dbVars
  <2>12. ASSUME NEW b \in Batches, MainStep(b) PROVE [Delivery!Next]_(Delivery!vars)
    BY <2>5, <2>9, <2>12 DEF MainStep
  <2>13. ASSUME NEW t \in Types, InsertStep(t) PROVE [Delivery!Next]_(Delivery!vars)
    BY <2>6, <2>10, <2>13 DEF InsertStep
  <2> QED
    BY <2>7, <2>8, <2>11, <2>12, <2>13 DEF Next, Finished
<1> QED BY <1>1, <1>2, TypeCorrect, TogetherInvariant, CopiesInvariant, PTL
        DEF Spec, ImplementsDelivery, Delivery!Spec
=============================================================================
