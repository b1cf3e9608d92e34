------------------------- MODULE BulkIndexerProofs -------------------------
(***************************************************************************)
(* Theorems about BulkIndexer, for any documents, any number of workers    *)
(* and any retry settings.                                                 *)
(***************************************************************************)
EXTENDS BulkIndexer, TLAPS, FunctionTheorems, FiniteSetTheorems

\* The type invariant holds in every state.
THEOREM TypeCorrect == Spec => []TypeOK
<1> USE ConstantsAssumption DEF ConstantsAssumption, TypeOK, Places
<1>1. Init => TypeOK
  BY DEF Init, FirstAttempt
<1>2. TypeOK /\ [Next]_vars => TypeOK'
  <2> SUFFICES ASSUME TypeOK, [Next]_vars PROVE TypeOK'
    OBVIOUS
  <2> USE DEF docVars, workerVars, closeVars, history, Move
  <2>0. /\ \A w \in Workers : w \in 0 .. NumWorkers
        /\ \A w \in Workers : (IF w = NumWorkers THEN 0 ELSE w + 1) \in 0 .. NumWorkers
    BY DEF Workers
  <2>1. ASSUME NEW d \in Docs, Push(d) PROVE TypeOK'
    BY <2>1 DEF Push
  <2>2. ASSUME NEW d \in Docs, Cancel(d) PROVE TypeOK'
    BY <2>2 DEF Cancel
  <2>3. ASSUME NEW w \in Workers, NEW d \in Docs, Receive(w, d) PROVE TypeOK'
    BY <2>0, <2>3 DEF Receive
  <2>4. ASSUME NEW w \in Workers, NEW d \in Docs, Write(w, d) PROVE TypeOK'
    BY <2>0, <2>4 DEF Write
  <2>5. ASSUME NEW w \in Workers, NEW d \in Docs, WriteFails(w, d) PROVE TypeOK'
    BY <2>5 DEF WriteFails, Outcomes
  <2>6. ASSUME NEW w \in Workers, Answered(w) PROVE TypeOK'
    BY <2>6 DEF Answered, Answers, Count, Buffered, At
  <2>7. ASSUME NEW w \in Workers, RequestRetried(w) PROVE TypeOK'
    BY <2>7 DEF RequestRetried, Unanswered, Count
  <2>8. ASSUME NEW w \in Workers, Release(w)
        PROVE  /\ holder' \in [Workers -> {"none", "worker"} \cup Visitors]
               /\ flush' \in [Workers -> {"idle", "sending", "answering"}]
               /\ tries' \in [Workers -> Nat]
               /\ visit' \in [Visitors -> 0 .. NumWorkers]
               /\ closer' \in {"open", "closing", "draining", "flushing", "closed"}
    BY <2>0, <2>8 DEF Release, LeaveWorker
  <2>9. ASSUME NEW w \in Workers, RequestGivenUp(w) PROVE TypeOK'
    BY <2>8, <2>9 DEF RequestGivenUp, Unanswered, Count, Outcomes
  <2>10. ASSUME NEW w \in Workers, FlushDone(w) PROVE TypeOK'
    BY <2>8, <2>10 DEF FlushDone
  <2>11. ASSUME NEW w \in Workers, NEW d \in Docs, ItemCreated(w, d) PROVE TypeOK'
    BY <2>11 DEF ItemCreated, Outcomes
  <2>12. ASSUME NEW w \in Workers, NEW d \in Docs, FailureUnseen(w, d) PROVE TypeOK'
    BY <2>12 DEF FailureUnseen, Outcomes
  <2>13. ASSUME NEW w \in Workers, NEW d \in Docs, OnFailureDrop(w, d) PROVE TypeOK'
    BY <2>13 DEF OnFailureDrop, Outcomes
  <2>14. ASSUME NEW w \in Workers, NEW d \in Docs, OnFailureRetry(w, d) PROVE TypeOK'
    BY <2>0, <2>14 DEF OnFailureRetry, Rewind
  <2>15. ASSUME NEW w \in Workers, NEW d \in Docs, Resubmit(w, d) PROVE TypeOK'
    BY <2>15 DEF Resubmit
  <2>16. ASSUME NEW w \in Workers, NEW d \in Docs, ResubmitPanics(w, d) PROVE TypeOK'
    BY <2>16 DEF ResubmitPanics
  <2>17. ASSUME NEW v \in Visitors, NEW w \in Workers, VisitWorker(v, w) PROVE TypeOK'
    BY <2>0, <2>17 DEF VisitWorker, LeaveWorker
  <2>18. ASSUME TickerWakes PROVE TypeOK'
    BY <2>18 DEF TickerWakes, Visitors
  <2>19. ASSUME Shutdown \/ TickerEnds PROVE TypeOK'
    BY <2>19 DEF Shutdown, TickerEnds
  <2>20. ASSUME WorkersEnd PROVE TypeOK'
    BY <2>20 DEF WorkersEnd, Visitors
  <2>21. CASE UNCHANGED vars
    BY <2>21 DEF vars
  <2> QED
    BY <2>1, <2>2, <2>3, <2>4, <2>5, <2>6, <2>7, <2>9, <2>10, <2>11, <2>12, <2>13, <2>14,
       <2>15, <2>16, <2>17, <2>18, <2>19, <2>20, <2>21
       DEF Next, WorkerStep, FlushStep, VisitorStep, CloseStep, Finished
<1> QED BY <1>1, <1>2, PTL DEF Spec

-----------------------------------------------------------------------------
(* What holds of each document, wherever it is: how many of its copies come *)
(* from lost answers, that its body reader is at the start whenever the     *)
(* document may still be written, and that it retries only if it may.       *)

MayRetry == RetryEnabled /\ MaxRequests > 1

DocInv ==
  /\ \A d \in Docs :
       /\ where[d] \notin {"created", "indexed"} => copies[d] <= lost[d]
       /\ copies[d] <= lost[d] + 1
       /\ where[d] \in {"created", "indexed"} => copies[d] > 0
       /\ where[d] \in {"new", "queued", "held", "retrying"} => body[d] = "start"
       /\ where[d] = "retrying" => MayRetry
  /\ torn = {}
  /\ process = "panicked" => MayRetry

\* DocInv is preserved by every step.
THEOREM DocInvariant == Spec => []DocInv
<1> USE DEF DocInv
<1>1. Init => DocInv
  BY DEF Init, FirstAttempt
<1>2. TypeOK /\ DocInv /\ [Next]_vars => DocInv'
  <2> SUFFICES ASSUME TypeOK, DocInv, [Next]_vars PROVE DocInv'
    OBVIOUS
  <2> USE DEF TypeOK, docVars, workerVars, closeVars, history, Move
  <2>1. ASSUME NEW d \in Docs, Push(d) PROVE DocInv'
    BY <2>1 DEF Push
  <2>2. ASSUME NEW d \in Docs, Cancel(d) PROVE DocInv'
    BY <2>2 DEF Cancel
  <2>3. ASSUME NEW w \in Workers, NEW d \in Docs, Receive(w, d) PROVE DocInv'
    BY <2>3 DEF Receive
  <2>4. ASSUME NEW w \in Workers, NEW d \in Docs, Write(w, d) PROVE DocInv'
    BY <2>4 DEF Write, Held, At
  <2>5. ASSUME NEW w \in Workers, NEW d \in Docs, WriteFails(w, d) PROVE DocInv'
    BY <2>5 DEF WriteFails, Held, At
  <2>6. ASSUME NEW w \in Workers, Answered(w) PROVE DocInv'
    BY <2>6 DEF Answered, Answers, Count, Buffered, At
  <2>7. ASSUME NEW w \in Workers, RequestRetried(w) PROVE DocInv'
    BY <2>7 DEF RequestRetried, Unanswered, Count
  <2>8. ASSUME NEW w \in Workers, RequestGivenUp(w) PROVE DocInv'
    BY <2>8 DEF RequestGivenUp, Unanswered, Count, Buffered, At
  <2>9. ASSUME NEW w \in Workers, FlushDone(w) PROVE DocInv'
    BY <2>9 DEF FlushDone
  <2>10. ASSUME NEW w \in Workers, NEW d \in Docs, ItemCreated(w, d) PROVE DocInv'
    BY <2>10 DEF ItemCreated, NextItem
  <2>11. ASSUME NEW w \in Workers, NEW d \in Docs, FailureUnseen(w, d) PROVE DocInv'
    BY <2>11 DEF FailureUnseen, NextItem
  <2>12. ASSUME NEW w \in Workers, NEW d \in Docs, OnFailureDrop(w, d) PROVE DocInv'
    BY <2>12 DEF OnFailureDrop, NextItem
  <2>13. ASSUME NEW w \in Workers, NEW d \in Docs, OnFailureRetry(w, d) PROVE DocInv'
    <3>1. MayRetry
      BY <2>13, ConstantsAssumption
         DEF OnFailureRetry, ShouldRetry, MaxAttempts, MayRetry, ConstantsAssumption
    <3> QED BY <2>13, <3>1 DEF OnFailureRetry, NextItem, Rewind
  <2>14. ASSUME NEW w \in Workers, NEW d \in Docs, Resubmit(w, d) PROVE DocInv'
    BY <2>14 DEF Resubmit, At
  <2>15. ASSUME NEW w \in Workers, NEW d \in Docs, ResubmitPanics(w, d) PROVE DocInv'
    BY <2>15 DEF ResubmitPanics, At
  <2>16. ASSUME NEW v \in Visitors, NEW w \in Workers, VisitWorker(v, w) PROVE DocInv'
    BY <2>16 DEF VisitWorker
  <2>17. ASSUME TickerWakes \/ Shutdown \/ CloseStep PROVE DocInv'
    BY <2>17 DEF TickerWakes, Shutdown, CloseStep, TickerEnds, WorkersEnd
  <2>18. CASE UNCHANGED vars
    BY <2>18 DEF vars
  <2> QED
    BY <2>1, <2>2, <2>3, <2>4, <2>5, <2>6, <2>7, <2>8, <2>9, <2>10, <2>11, <2>12, <2>13,
       <2>14, <2>15, <2>16, <2>17, <2>18
       DEF Next, WorkerStep, FlushStep, VisitorStep, Finished
<1> QED BY <1>1, <1>2, TypeCorrect, PTL DEF Spec

\* Every copy of a document but one comes from an answer that was lost.
THEOREM DuplicatesBounded == Spec => []DuplicatesOnlyFromLostAnswers
<1>1. DocInv => DuplicatesOnlyFromLostAnswers
  BY DEF DocInv, DuplicatesOnlyFromLostAnswers
<1> QED BY <1>1, DocInvariant, PTL

\* No request carries an item without its document.
THEOREM BodiesWhole == Spec => []BodiesAreWhole
<1>1. DocInv => BodiesAreWhole
  BY DEF DocInv, BodiesAreWhole
<1> QED BY <1>1, DocInvariant, PTL

\* An exporter that never retries items never panics in Shutdown.
THEOREM PanicsNeedRetries == Spec => []PanicsOnlyWithRetries
<1>1. DocInv => PanicsOnlyWithRetries
  BY DEF DocInv, PanicsOnlyWithRetries, MayRetry
<1> QED BY <1>1, DocInvariant, PTL

-----------------------------------------------------------------------------
(* How often a document has been sent: at most MaxRetries + 1 times for     *)
(* each attempt that is over, and tries[w] times for the one under way in   *)
(* w's buffer.                                                              *)

Rounds == MaxRetries + 1

SendInv ==
  /\ \A w \in Workers :
       /\ holder[w] = "none" <=> flush[w] = "idle"
       /\ flush[w] = "idle" => tries[w] = 0
       /\ tries[w] <= MaxRetries
  /\ \A d \in Docs :
       /\ attempts[d] = 1 \/ attempts[d] <= MaxAttempts
       /\ where[d] \in {"new", "refused", "queued", "held", "retrying"} =>
            sends[d] <= (attempts[d] - 1) * Rounds
       /\ where[d] = "buffered" =>
            owner[d] \in Workers /\ sends[d] <= (attempts[d] - 1) * Rounds + tries[owner[d]]
       /\ sends[d] <= attempts[d] * Rounds

\* The bounds on attempts and retries are numbers.
LEMMA RetriesType == MaxAttempts \in Nat /\ MaxRetries \in Nat /\ Rounds \in Nat \ {0}
  BY ConstantsAssumption DEF ConstantsAssumption, MaxAttempts, MaxRetries, Rounds

\* One more attempt is worth Rounds more sends.
LEMMA OneMoreRound ==
  ASSUME NEW a \in Nat \ {0}, NEW k \in Nat
  PROVE  /\ (a - 1) * k \in Nat /\ a * k \in Nat
         /\ a * k = (a - 1) * k + k
  OBVIOUS

\* SendInv is preserved by every step.
THEOREM SendInvariant == Spec => []SendInv
<1> USE RetriesType DEF SendInv
<1>1. Init => SendInv
  BY OneMoreRound DEF Init, FirstAttempt
<1>2. TypeOK /\ SendInv /\ [Next]_vars => SendInv'
  <2> SUFFICES ASSUME TypeOK, SendInv, [Next]_vars PROVE SendInv'
    OBVIOUS
  <2> USE DEF TypeOK, docVars, workerVars, closeVars, history, Move
  <2>0. \A d \in Docs : /\ (attempts[d] - 1) * Rounds \in Nat /\ attempts[d] * Rounds \in Nat
                        /\ attempts[d] * Rounds = (attempts[d] - 1) * Rounds + MaxRetries + 1
    <3> HIDE DEF SendInv
    <3> TAKE d \in Docs
    <3>1. Rounds = MaxRetries + 1
      BY DEF Rounds
    <3>2. attempts[d] \in Nat \ {0}
      OBVIOUS
    <3>3. /\ (attempts[d] - 1) * Rounds \in Nat /\ attempts[d] * Rounds \in Nat
          /\ attempts[d] * Rounds = (attempts[d] - 1) * Rounds + Rounds
      BY <3>2, OneMoreRound
    <3> QED BY <3>1, <3>3
  <2>1. ASSUME NEW d \in Docs, Push(d) PROVE SendInv'
    BY <2>1 DEF Push
  <2>2. ASSUME NEW d \in Docs, Cancel(d) PROVE SendInv'
    BY <2>2 DEF Cancel
  <2>3. ASSUME NEW w \in Workers, NEW d \in Docs, Receive(w, d) PROVE SendInv'
    BY <2>3 DEF Receive
  <2>4. ASSUME NEW w \in Workers, NEW d \in Docs, Write(w, d) PROVE SendInv'
    BY <2>0, <2>4 DEF Write, Held, At
  <2>5. ASSUME NEW w \in Workers, NEW d \in Docs, WriteFails(w, d) PROVE SendInv'
    BY <2>5 DEF WriteFails, Held, At
  <2>6. ASSUME NEW w \in Workers, Answered(w) PROVE SendInv'
    <3>1. \A d \in Buffered(w) : d \in Docs /\ sends[d] + 1 <= attempts[d] * Rounds
      BY <2>0 DEF Buffered, At
    <3>2. \A d \in Docs : sends'[d] <= attempts'[d] * Rounds
      BY <2>6, <3>1 DEF Answered, Count
    <3>3. \A d \in Docs \ Buffered(w) : sends'[d] = sends[d] /\ where'[d] = where[d]
      BY <2>6 DEF Answered, Count
    <3>4. \A d \in Buffered(w) : where'[d] \in Answers
      BY <2>6, <3>1 DEF Answered
    <3> QED
      BY <2>6, <3>2, <3>3, <3>4 DEF Answered, Answers
  <2>7. ASSUME NEW w \in Workers, RequestRetried(w) PROVE SendInv'
    BY <2>0, <2>7 DEF RequestRetried, Unanswered, Count, Buffered, At
  <2>8. ASSUME NEW w \in Workers, RequestGivenUp(w) PROVE SendInv'
    BY <2>0, <2>8 DEF RequestGivenUp, Unanswered, Count, Buffered, At, Release
  <2>9. ASSUME NEW w \in Workers, FlushDone(w) PROVE SendInv'
    BY <2>9 DEF FlushDone, Release
  <2>10. ASSUME NEW w \in Workers, NEW d \in Docs, ItemCreated(w, d) PROVE SendInv'
    BY <2>10 DEF ItemCreated, NextItem
  <2>11. ASSUME NEW w \in Workers, NEW d \in Docs, FailureUnseen(w, d) PROVE SendInv'
    BY <2>11 DEF FailureUnseen, NextItem
  <2>12. ASSUME NEW w \in Workers, NEW d \in Docs, OnFailureDrop(w, d) PROVE SendInv'
    BY <2>12 DEF OnFailureDrop, NextItem
  <2>13. ASSUME NEW w \in Workers, NEW d \in Docs, OnFailureRetry(w, d) PROVE SendInv'
    <3>1. attempts'[d] = attempts[d] + 1 /\ attempts[d] + 1 <= MaxAttempts
      BY <2>13 DEF OnFailureRetry, ShouldRetry
    <3>2. (attempts'[d] - 1) * Rounds = attempts[d] * Rounds
      BY <3>1
    <3>3. attempts[d] * Rounds <= attempts'[d] * Rounds
      BY <2>0, <3>1, OneMoreRound
    <3>4. \A e \in Docs \ {d} : /\ where'[e] = where[e] /\ attempts'[e] = attempts[e]
                                /\ owner'[e] = owner[e]
      BY <2>13 DEF OnFailureRetry
    <3> QED
      BY <2>13, <3>1, <3>2, <3>3, <3>4 DEF OnFailureRetry, NextItem, Rewind
  <2>14. ASSUME NEW w \in Workers, NEW d \in Docs, Resubmit(w, d) PROVE SendInv'
    BY <2>14 DEF Resubmit, At
  <2>15. ASSUME NEW w \in Workers, NEW d \in Docs, ResubmitPanics(w, d) PROVE SendInv'
    BY <2>15 DEF ResubmitPanics, At
  <2>16. ASSUME NEW v \in Visitors, NEW w \in Workers, VisitWorker(v, w) PROVE SendInv'
    BY <2>16 DEF VisitWorker, Visitors
  <2>17. ASSUME TickerWakes \/ Shutdown \/ CloseStep PROVE SendInv'
    BY <2>17 DEF TickerWakes, Shutdown, CloseStep, TickerEnds, WorkersEnd
  <2>18. CASE UNCHANGED vars
    BY <2>18 DEF vars
  <2> QED
    BY <2>1, <2>2, <2>3, <2>4, <2>5, <2>6, <2>7, <2>8, <2>9, <2>10, <2>11, <2>12, <2>13,
       <2>14, <2>15, <2>16, <2>17, <2>18
       DEF Next, WorkerStep, FlushStep, VisitorStep, Finished
<1> QED BY <1>1, <1>2, TypeCorrect, PTL DEF Spec

\* No document is carried by more requests than its budget.
THEOREM SendsBounded == Spec => []SendsWithinBudget
<1>1. TypeOK /\ SendInv => SendsWithinBudget
  <2> SUFFICES ASSUME TypeOK, SendInv, NEW d \in Docs PROVE sends[d] <= SendBudget
    BY DEF SendsWithinBudget
  <2>1. sends[d] \in Nat /\ attempts[d] \in Nat \ {0} /\ sends[d] <= attempts[d] * Rounds
    BY DEF SendInv, TypeOK
  <2>2. CASE MayRetry
    <3>1. Rounds = MaxRequests /\ attempts[d] <= MaxRequests /\ MaxRequests \in Nat
      BY <2>1, <2>2, ConstantsAssumption
         DEF MayRetry, Rounds, MaxRetries, MaxAttempts, ConstantsAssumption, SendInv
    <3>2. \A a, m \in Nat : a <= m => a * m <= m * m
      OBVIOUS
    <3> QED BY <2>1, <2>2, <3>1, <3>2 DEF MayRetry, SendBudget
  <2>3. CASE ~MayRetry
    BY <2>1, <2>3, ConstantsAssumption
       DEF MayRetry, Rounds, MaxRetries, MaxAttempts, ConstantsAssumption, SendInv, SendBudget
  <2> QED BY <2>2, <2>3
<1> QED BY <1>1, SendInvariant, TypeCorrect, PTL

-----------------------------------------------------------------------------
(* Where the documents are: an owner has what it holds, what is in its      *)
(* buffer, and during the callbacks of a flush the items of that flush.     *)

Unowned == {"new", "refused", "queued"} \cup Outcomes

PlaceInv ==
  /\ \A d \in Docs : owner[d] = 0 <=> where[d] \in Unowned
  /\ \A w \in Workers : holder[w] = "none" <=> flush[w] = "idle"
  /\ \A w \in Workers, d \in Docs :
       owner[d] = w => \/ where[d] = "held"
                       \/ where[d] = "buffered" /\ flush[w] # "answering"
                       \/ where[d] \in Answers \cup {"retrying"} /\ flush[w] = "answering"

\* PlaceInv is preserved by every step.
THEOREM PlaceInvariant == Spec => []PlaceInv
<1> USE DEF PlaceInv, Unowned, Outcomes, Answers
<1>0. \A w \in Workers : w # 0
  BY DEF Workers
<1>1. Init => PlaceInv
  BY <1>0 DEF Init
<1>2. TypeOK /\ PlaceInv /\ [Next]_vars => PlaceInv'
  <2> SUFFICES ASSUME TypeOK, PlaceInv, [Next]_vars PROVE PlaceInv'
    OBVIOUS
  <2> USE <1>0 DEF TypeOK, docVars, workerVars, closeVars, history, Move
  <2>1. ASSUME NEW d \in Docs, Push(d) \/ Cancel(d) PROVE PlaceInv'
    BY <2>1 DEF Push, Cancel
  <2>2. ASSUME NEW w \in Workers, NEW d \in Docs, Receive(w, d) \/ WriteFails(w, d) PROVE PlaceInv'
    BY <2>2 DEF Receive, WriteFails, Held, At
  <2>3. ASSUME NEW w \in Workers, NEW d \in Docs, Write(w, d) PROVE PlaceInv'
    BY <2>3 DEF Write, Held, At
  <2>4. ASSUME NEW w \in Workers, Answered(w) PROVE PlaceInv'
    <3>1. /\ \A d \in Buffered(w) : where'[d] \in Answers /\ owner[d] = w /\ d \in Docs
          /\ \A d \in Docs \ Buffered(w) : where'[d] = where[d]
      BY <2>4 DEF Answered, Buffered, At
    <3>2. /\ owner' = owner /\ holder' = holder /\ flush[w] = "sending"
          /\ flush' = [flush EXCEPT ![w] = "answering"]
      BY <2>4 DEF Answered
    <3> QED BY <3>1, <3>2 DEF Buffered, At
  <2>5. ASSUME NEW w \in Workers, RequestRetried(w) PROVE PlaceInv'
    BY <2>5 DEF RequestRetried
  <2>6. ASSUME NEW w \in Workers, RequestGivenUp(w) PROVE PlaceInv'
    BY <2>6 DEF RequestGivenUp, Unanswered, Buffered, At, Release
  <2>7. ASSUME NEW w \in Workers, FlushDone(w) PROVE PlaceInv'
    BY <2>7 DEF FlushDone, Release
  <2>8. ASSUME NEW w \in Workers, NEW d \in Docs,
               ItemCreated(w, d) \/ FailureUnseen(w, d) \/ OnFailureDrop(w, d)
        PROVE  PlaceInv'
    BY <2>8 DEF ItemCreated, FailureUnseen, OnFailureDrop, NextItem
  <2>9. ASSUME NEW w \in Workers, NEW d \in Docs, OnFailureRetry(w, d) PROVE PlaceInv'
    BY <2>9 DEF OnFailureRetry, NextItem
  <2>10. ASSUME NEW w \in Workers, NEW d \in Docs, Resubmit(w, d) \/ ResubmitPanics(w, d) PROVE PlaceInv'
    BY <2>10 DEF Resubmit, ResubmitPanics, At
  <2>11. ASSUME NEW v \in Visitors, NEW w \in Workers, VisitWorker(v, w) PROVE PlaceInv'
    BY <2>11 DEF VisitWorker, Visitors
  <2>12. ASSUME TickerWakes \/ Shutdown \/ CloseStep \/ UNCHANGED vars PROVE PlaceInv'
    BY <2>12 DEF TickerWakes, Shutdown, CloseStep, TickerEnds, WorkersEnd, vars
  <2> QED
    BY <2>1, <2>2, <2>3, <2>4, <2>5, <2>6, <2>7, <2>8, <2>9, <2>10, <2>11, <2>12
       DEF Next, WorkerStep, FlushStep, VisitorStep, Finished
<1> QED BY <1>1, <1>2, TypeCorrect, PTL DEF Spec

-----------------------------------------------------------------------------
(* Close: once the ticker and the workers have ended nothing comes back to  *)
(* the queue, and the closer leaves nothing with the workers it has passed. *)

CloseInv ==
  /\ \A v \in Visitors, w \in Workers : holder[w] = v => visit[v] = w
  /\ closer \in {"draining", "flushing", "closed"} => visit["ticker"] = 0
  /\ closer = "flushing" <=> visit["closer"] # 0
  /\ closer \in {"flushing", "closed"} =>
       /\ \A d \in Docs : where[d] \notin {"queued", "held"}
       /\ \A w \in Workers : holder[w] # "worker"
  /\ closer = "flushing" => \A d \in Docs : owner[d] # 0 => owner[d] >= visit["closer"]
  /\ closer = "closed" => \A d \in Docs : owner[d] = 0

\* When the closer leaves a worker nothing is left there.
LEMMA CloserLeaves ==
  ASSUME TypeOK, CloseInv, NEW w \in Workers, visit["closer"] = w, LeaveWorker("closer", w),
         \A d \in Docs : where'[d] \notin {"queued", "held"},
         \A d \in Docs : owner'[d] \in {0, owner[d]} /\ owner'[d] # w,
         \A u \in Workers : holder'[u] \in {"none", holder[u]}, holder'[w] = "none"
  PROVE  CloseInv'
<1> USE DEF CloseInv, TypeOK, Visitors, LeaveWorker
<1>1. w \in 1 .. NumWorkers /\ NumWorkers \in Nat \ {0} /\ closer = "flushing"
  BY ConstantsAssumption DEF ConstantsAssumption, Workers
<1>2. /\ visit'["ticker"] = 0 /\ visit["ticker"] = 0
      /\ visit'["closer"] = IF w = NumWorkers THEN 0 ELSE w + 1
      /\ closer' = IF w = NumWorkers THEN "closed" ELSE "flushing"
  BY <1>1
<1>3. \A d \in Docs : owner[d] \in 0 .. NumWorkers /\ (owner'[d] # 0 => owner'[d] = owner[d] /\ owner'[d] > w)
  BY <1>1
<1>4. \A u \in Workers : holder'[u] \notin {"worker", "ticker", "closer"}
  <2> SUFFICES ASSUME NEW u \in Workers PROVE holder'[u] \notin {"worker", "ticker", "closer"}
    OBVIOUS
  <2>1. CASE u = w
    BY <2>1
  <2>2. CASE u # w
    <3>1. visit["ticker"] # u /\ visit["closer"] # u /\ holder[u] # "worker"
      BY <1>1, <1>2, <2>2 DEF Workers
    <3> QED BY <3>1
  <2> QED BY <2>1, <2>2
<1>5. CASE w = NumWorkers
  BY <1>1, <1>2, <1>3, <1>4, <1>5
<1>6. CASE w # NumWorkers
  BY <1>1, <1>2, <1>3, <1>4, <1>6
<1> QED BY <1>5, <1>6

\* A visitor that is not the closer, or the worker itself, ends its flush.
LEMMA ReleaseKeeps ==
  ASSUME TypeOK, CloseInv, NEW w \in Workers, Release(w), holder[w] # "closer",
         UNCHANGED <<where, owner>> \/ closer \notin {"flushing", "closed"}
  PROVE  CloseInv'
<1> USE DEF CloseInv, TypeOK, Visitors, Release, LeaveWorker
<1>1. holder' = [holder EXCEPT ![w] = "none"] /\ closer' = closer
  OBVIOUS
<1>2. visit'["closer"] = visit["closer"]
  OBVIOUS
<1>3. \A u \in Workers : holder'[u] = "ticker" => visit'["ticker"] = u
  OBVIOUS
<1>4. closer \in {"draining", "flushing", "closed"} => visit'["ticker"] = 0
  BY DEF Workers
<1> QED BY <1>1, <1>2, <1>3, <1>4

\* CloseInv is preserved by every step.
THEOREM CloseInvariant == Spec => []CloseInv
<1> USE DEF CloseInv
<1>0. NumWorkers \in Nat \ {0} /\ 1 \in Workers /\ \A w \in Workers : w \in Nat \ {0}
  BY ConstantsAssumption DEF ConstantsAssumption, Workers
<1>1. Init => CloseInv
  BY <1>0 DEF Init, Visitors
<1>2. TypeOK /\ PlaceInv /\ CloseInv /\ [Next]_vars => CloseInv'
  <2> SUFFICES ASSUME TypeOK, PlaceInv, CloseInv, [Next]_vars PROVE CloseInv'
    OBVIOUS
  <2> USE <1>0 DEF TypeOK, docVars, workerVars, closeVars, history, Move
  <2>1. ASSUME NEW d \in Docs, Push(d) \/ Cancel(d) PROVE CloseInv'
    BY <2>1 DEF Push, Cancel
  <2>2. ASSUME NEW w \in Workers, NEW d \in Docs, Receive(w, d) PROVE CloseInv'
    BY <2>2 DEF Receive
  <2>3. ASSUME NEW w \in Workers, NEW d \in Docs, Write(w, d) \/ WriteFails(w, d) PROVE CloseInv'
    BY <2>3 DEF Write, WriteFails, Held, At, Visitors
  <2>4. ASSUME NEW w \in Workers, Answered(w) PROVE CloseInv'
    <3>1. \A d \in Docs : where'[d] = where[d] \/ where'[d] \in Answers
      BY <2>4 DEF Answered
    <3> QED BY <2>4, <3>1 DEF Answered, Answers
  <2>5. ASSUME NEW w \in Workers, RequestRetried(w) PROVE CloseInv'
    BY <2>5 DEF RequestRetried, Unanswered
  <2>6. ASSUME NEW w \in Workers, RequestGivenUp(w) PROVE CloseInv'
    <3>1. /\ Release(w) /\ flush[w] = "sending"
          /\ where' = [d \in Docs |-> IF d \in Buffered(w) THEN "requestFailed" ELSE where[d]]
          /\ owner' = [d \in Docs |-> IF d \in Buffered(w) THEN 0 ELSE owner[d]]
      BY <2>6 DEF RequestGivenUp, Unanswered
    <3>2. holder[w] # "none" /\ holder' = [holder EXCEPT ![w] = "none"]
      BY <3>1 DEF PlaceInv, Release
    <3>3. CASE holder[w] = "closer"
      <4>1. visit["closer"] = w /\ closer = "flushing" /\ LeaveWorker("closer", w)
        BY <3>1, <3>3 DEF Release, Visitors
      <4>2. \A d \in Docs : where[d] # "held" /\ where'[d] \notin {"queued", "held"}
        BY <3>1, <4>1
      <4>3. \A d \in Docs : owner'[d] \in {0, owner[d]} /\ owner'[d] # w
        BY <3>1, <4>2 DEF PlaceInv, Buffered, At
      <4>4. \A u \in Workers : holder'[u] \in {"none", holder[u]}
        BY <3>2
      <4> QED BY <3>2, <4>1, <4>2, <4>3, <4>4, CloserLeaves
    <3>4. CASE holder[w] # "closer"
      <4>1. closer \notin {"flushing", "closed"}
        BY <3>2, <3>4 DEF Visitors
      <4> QED BY <3>1, <3>4, <4>1, ReleaseKeeps
    <3> QED BY <3>3, <3>4
  <2>7. ASSUME NEW w \in Workers, FlushDone(w) PROVE CloseInv'
    <3>1. /\ Release(w) /\ flush[w] = "answering" /\ UNCHANGED <<where, owner>>
          /\ \A d \in Docs : owner[d] = w => where[d] = "held"
      BY <2>7 DEF FlushDone
    <3>2. holder[w] # "none" /\ holder' = [holder EXCEPT ![w] = "none"]
      BY <3>1 DEF PlaceInv, Release
    <3>3. CASE holder[w] = "closer"
      <4>1. visit["closer"] = w /\ closer = "flushing" /\ LeaveWorker("closer", w)
        BY <3>1, <3>3 DEF Release, Visitors
      <4>2. \A d \in Docs : where'[d] \notin {"queued", "held"} /\ owner'[d] = owner[d] /\ owner'[d] # w
        BY <3>1, <4>1
      <4>3. \A u \in Workers : holder'[u] \in {"none", holder[u]}
        BY <3>2
      <4> QED BY <3>2, <4>1, <4>2, <4>3, CloserLeaves
    <3>4. CASE holder[w] # "closer"
      BY <3>1, <3>4, ReleaseKeeps
    <3> QED BY <3>3, <3>4
  <2>8. ASSUME NEW w \in Workers, NEW d \in Docs,
               ItemCreated(w, d) \/ FailureUnseen(w, d) \/ OnFailureDrop(w, d)
        PROVE  CloseInv'
    BY <2>8 DEF ItemCreated, FailureUnseen, OnFailureDrop
  <2>9. ASSUME NEW w \in Workers, NEW d \in Docs, OnFailureRetry(w, d) PROVE CloseInv'
    BY <2>9 DEF OnFailureRetry, NextItem
  <2>10. ASSUME NEW w \in Workers, NEW d \in Docs, Resubmit(w, d) \/ ResubmitPanics(w, d) PROVE CloseInv'
    BY <2>10 DEF Resubmit, ResubmitPanics
  <2>11. ASSUME NEW v \in Visitors, NEW w \in Workers, VisitWorker(v, w) PROVE CloseInv'
    <3>1. visit[v] = w /\ holder[w] = "none" /\ UNCHANGED <<where, owner>>
      BY <2>11 DEF VisitWorker
    <3>2. CASE Buffered(w) = {} /\ v = "closer"
      <4>1. LeaveWorker("closer", w) /\ UNCHANGED holder
        BY <2>11, <3>2 DEF VisitWorker
      <4>2. closer = "flushing"
        BY <3>1, <3>2
      <4>3. \A d \in Docs : where[d] \notin {"queued", "held"} /\ owner[d] # w
        BY <3>1, <3>2, <4>2 DEF PlaceInv, Buffered, At
      <4>4. visit["closer"] = w
        BY <3>1, <3>2
      <4>5. \A u \in Workers : holder'[u] \in {"none", holder[u]}
        BY <4>1
      <4>6. holder'[w] = "none"
        BY <3>1, <4>1
      <4> QED BY <3>1, <4>1, <4>3, <4>4, <4>5, <4>6, CloserLeaves
    <3>3. CASE Buffered(w) = {} /\ v = "ticker"
      <4>1. UNCHANGED <<holder, closer>> /\ visit'["closer"] = visit["closer"]
        BY <2>11, <3>3 DEF VisitWorker, LeaveWorker, Visitors
      <4>2. closer \notin {"draining", "flushing", "closed"}
        BY <3>1, <3>3
      <4>3. \A u \in Workers : holder[u] # "ticker"
        BY <3>1, <3>3
      <4> QED BY <3>1, <4>1, <4>2, <4>3 DEF Visitors
    <3>4. CASE Buffered(w) # {}
      <4>1. holder' = [holder EXCEPT ![w] = v] /\ UNCHANGED <<visit, closer>>
        BY <2>11, <3>4 DEF VisitWorker
      <4> QED BY <3>1, <4>1 DEF Visitors
    <3> QED BY <3>2, <3>3, <3>4 DEF Visitors
  <2>12. ASSUME TickerWakes \/ Shutdown PROVE CloseInv'
    BY <2>12 DEF TickerWakes, Shutdown, Visitors
  <2>13. ASSUME TickerEnds PROVE CloseInv'
    BY <2>13 DEF TickerEnds
  <2>14. ASSUME WorkersEnd PROVE CloseInv'
    <3>1. /\ closer = "draining" /\ closer' = "flushing" /\ visit' = [visit EXCEPT !["closer"] = 1]
          /\ UNCHANGED <<where, owner, holder>>
      BY <2>14 DEF WorkersEnd
    <3>2. \A d \in Docs : where[d] # "queued"
      BY <2>14 DEF WorkersEnd, Queue
    <3>3. \A d \in Docs : where[d] # "held"
      <4>1. \A d \in Docs : where[d] = "held" => owner[d] \in Workers
        <5> SUFFICES ASSUME NEW d \in Docs, where[d] = "held" PROVE owner[d] \in Workers
          OBVIOUS
        <5>1. where[d] \notin Unowned
          BY DEF Unowned, Outcomes
        <5>2. owner[d] # 0
          BY <5>1 DEF PlaceInv
        <5>3. owner[d] \in 0 .. NumWorkers
          OBVIOUS
        <5> QED BY ONLY <1>0, <5>2, <5>3 DEF Workers
      <4> QED BY <2>14, <4>1 DEF WorkersEnd, Idle, Held, At
    <3>4. \A w \in Workers : holder[w] \notin {"worker", "closer"}
      BY <2>14, <3>1 DEF WorkersEnd, Idle, Visitors
    <3>5. \A d \in Docs : owner[d] # 0 => owner[d] >= 1
      OBVIOUS
    <3> QED BY <3>1, <3>2, <3>3, <3>4, <3>5 DEF Visitors
  <2>15. CASE UNCHANGED vars
    BY <2>15 DEF vars
  <2> QED
    BY <2>1, <2>2, <2>3, <2>4, <2>5, <2>6, <2>7, <2>8, <2>9, <2>10, <2>11, <2>12, <2>13, <2>14, <2>15
       DEF Next, WorkerStep, FlushStep, VisitorStep, CloseStep, Finished
<1> QED BY <1>1, <1>2, TypeCorrect, PlaceInvariant, PTL DEF Spec

\* A completed Shutdown has left no accepted document unsettled.
THEOREM NothingLeftBehind == Spec => []CloseLeavesNothingBehind
<1>1. PlaceInv /\ CloseInv => CloseLeavesNothingBehind
  BY DEF PlaceInv, Unowned, CloseInv, CloseLeavesNothingBehind, Accepted, Settled
<1> QED BY <1>1, PlaceInvariant, CloseInvariant, PTL

-----------------------------------------------------------------------------
(* Gridlock: the queue is full, every worker has a callback that waits for  *)
(* room in it, and no worker is at its receive.                             *)

Gridlock == /\ ~HasRoom
            /\ \A w \in Workers : At(w, "retrying") # {} /\ ~Idle(w)

InFlight == {d \in Docs : Accepted(d) /\ ~Settled(d)}

\* There is no way out of a gridlock: nothing that pushDocuments accepted is delivered,
\* dropped or logged any more, not by Shutdown either (which makes a waiting Add panic).
THEOREM GridlockIsForever ==
  Spec => [][Gridlock => Gridlock' /\ \A d \in Docs : Accepted(d) => where'[d] = where[d]]_vars
<1> DEFINE Stuck == Gridlock' /\ \A d \in Docs : Accepted(d) => where'[d] = where[d]
<1>1. TypeOK /\ PlaceInv /\ [Next]_vars /\ Gridlock => Stuck
  <2> SUFFICES ASSUME TypeOK, PlaceInv, [Next]_vars, Gridlock PROVE Stuck
    OBVIOUS
  <2> USE DEF TypeOK, docVars, workerVars, closeVars, history, Move
  <2>0. \A w \in Workers : /\ flush[w] = "answering" /\ holder[w] # "none"
                           /\ At(w, "retrying") # {} /\ ~Idle(w)
    BY DEF Gridlock, PlaceInv, At, Answers
  <2>1. ASSUME UNCHANGED <<where, owner, holder>> PROVE Stuck
    BY <2>1 DEF Gridlock, HasRoom, Queue, At, Idle, Held
  <2>2. ASSUME NEW d \in Docs, Cancel(d) PROVE Stuck
    <3>1. where[d] = "new" /\ where' = [where EXCEPT ![d] = "refused"] /\ owner' = [owner EXCEPT ![d] = 0]
      BY <2>2 DEF Cancel
    <3>2. Queue' = Queue
      BY <3>1 DEF Queue
    <3>3. \A w \in Workers : w # 0 /\ owner[d] # w
      BY <3>1 DEF PlaceInv, Unowned, Workers
    <3>4. \A w \in Workers : \A p : p # "refused" => At(w, p)' = At(w, p)
      BY <3>1, <3>3 DEF At
    <3>5. UNCHANGED holder
      BY <2>2 DEF Cancel
    <3>6. HasRoom' = HasRoom
      BY <3>2 DEF HasRoom, QueueCap
    <3>7. \A w \in Workers : (At(w, "retrying") # {})' /\ (~Idle(w))'
      BY <2>0, <3>4, <3>5 DEF Idle, Held
    <3>8. Gridlock'
      BY <3>6, <3>7 DEF Gridlock
    <3> QED BY <3>1, <3>8 DEF Accepted
  <2>3. ASSUME NEW d \in Docs, Push(d) PROVE Stuck
    BY <2>3 DEF Push, Gridlock
  <2>4. ASSUME NEW w \in Workers, WorkerStep(w) PROVE Stuck
    BY <2>0, <2>4 DEF WorkerStep, Receive, Write, WriteFails
  <2>5. ASSUME NEW w \in Workers, Answered(w) \/ RequestRetried(w) \/ RequestGivenUp(w) PROVE Stuck
    BY <2>0, <2>5 DEF Answered, RequestRetried, RequestGivenUp, Unanswered
  <2>6. ASSUME NEW w \in Workers, FlushDone(w) PROVE Stuck
    BY <2>0, <2>6 DEF FlushDone, At
  <2>7. ASSUME NEW w \in Workers, NEW d \in Docs,
               \/ ItemCreated(w, d)    \/ FailureUnseen(w, d)
               \/ OnFailureRetry(w, d) \/ OnFailureDrop(w, d)
        PROVE  Stuck
    BY <2>0, <2>7 DEF ItemCreated, FailureUnseen, OnFailureRetry, OnFailureDrop, NextItem
  <2>8. ASSUME NEW w \in Workers, NEW d \in Docs, Resubmit(w, d) PROVE Stuck
    BY <2>8 DEF Resubmit, Gridlock
  <2>9. ASSUME NEW w \in Workers, NEW d \in Docs, ResubmitPanics(w, d) PROVE Stuck
    BY <2>1, <2>9 DEF ResubmitPanics
  <2>10. ASSUME NEW v \in Visitors, VisitorStep(v) PROVE Stuck
    BY <2>0, <2>10 DEF VisitorStep, VisitWorker
  <2>11. ASSUME TickerWakes \/ Shutdown \/ CloseStep PROVE Stuck
    BY <2>1, <2>11 DEF TickerWakes, Shutdown, CloseStep, TickerEnds, WorkersEnd
  <2>12. CASE UNCHANGED vars
    BY <2>1, <2>12 DEF vars
  <2> HIDE DEF Stuck
  <2> QED
    BY <2>2, <2>3, <2>4, <2>5, <2>6, <2>7, <2>8, <2>9, <2>10, <2>11, <2>12 DEF Next, FlushStep, Finished
<1> QED BY <1>1, TypeCorrect, PlaceInvariant, PTL DEF Spec

\* It takes two documents in flight for every worker: one that waits and one in the
\* queue.  With fewer the retries of items never lock the exporter.
THEOREM GridlockTakesDocuments == Spec => [](Gridlock => Cardinality(InFlight) >= 2 * NumWorkers)
<1>1. TypeOK /\ PlaceInv /\ Gridlock => Cardinality(InFlight) >= 2 * NumWorkers
  <2> SUFFICES ASSUME TypeOK, PlaceInv, Gridlock PROVE Cardinality(InFlight) >= 2 * NumWorkers
    OBVIOUS
  <2> DEFINE f == [w \in Workers |-> CHOOSE d \in At(w, "retrying") : TRUE]
             R == {d \in Docs : where[d] = "retrying"}
  <2>1. IsFiniteSet(Docs) /\ NumWorkers \in Nat \ {0}
    BY ConstantsAssumption DEF ConstantsAssumption
  <2>2. Queue \in SUBSET Docs /\ R \in SUBSET Docs /\ InFlight \in SUBSET Docs
    BY DEF Queue, InFlight
  <2>3. Queue \cap R = {} /\ Queue \cup R \in SUBSET InFlight
    BY DEF Queue, InFlight, Accepted, Settled, Outcomes
  <2>4. IsFiniteSet(Workers) /\ Cardinality(Workers) = NumWorkers
    BY <2>1, FS_Interval DEF Workers
  <2>5. \A w \in Workers : f[w] \in R /\ owner[f[w]] = w
    <3> SUFFICES ASSUME NEW w \in Workers PROVE f[w] \in R /\ owner[f[w]] = w
      OBVIOUS
    <3>1. f[w] \in At(w, "retrying")
      BY DEF Gridlock
    <3> HIDE DEF f
    <3> QED BY <3>1 DEF At
  <2>6. f \in [Workers -> R] /\ \A w, u \in Workers : f[w] = f[u] => w = u
    BY <2>5
  <2> HIDE DEF f, R
  <2>7. IsFiniteSet(Queue) /\ IsFiniteSet(R) /\ IsFiniteSet(InFlight)
    BY <2>1, <2>2, FS_Subset
  <2>8. NumWorkers <= Cardinality(R)
    BY <2>4, <2>6, <2>7, Fun_IsInj, FS_Injection
  <2>9. /\ Cardinality(Queue) \in Nat /\ Cardinality(R) \in Nat /\ Cardinality(InFlight) \in Nat
        /\ Cardinality(Queue \cup R) \in Nat
    BY <2>3, <2>7, FS_Union, FS_CardinalityType
  <2>10. NumWorkers <= Cardinality(Queue)
    BY <2>1, <2>9 DEF Gridlock, HasRoom, QueueCap
  <2>11. Cardinality(Queue \cup R) = Cardinality(Queue) + Cardinality(R)
    <3>1. Cardinality(Queue \cup R) = Cardinality(Queue) + Cardinality(R) - Cardinality(Queue \cap R)
      BY ONLY <2>7, FS_Union
    <3>2. Cardinality(Queue \cap R) = 0
      BY <2>3, FS_EmptySet
    <3> QED BY <2>9, <3>1, <3>2
  <2>12. Cardinality(Queue \cup R) <= Cardinality(InFlight)
    BY <2>3, <2>7, FS_Subset
  <2> QED BY <2>1, <2>8, <2>9, <2>10, <2>11, <2>12
<1> QED BY <1>1, TypeCorrect, PlaceInvariant, PTL

-----------------------------------------------------------------------------
(* The refinement: a step of the indexer is a step of DocDelivery, or one   *)
(* that it does not see.                                                    *)

\* How DocDelivery sees the places of a document.
LEMMA StageOfPlace ==
  \A d \in Docs :
    /\ where[d] = "new" => Stage[d] = "new"
    /\ where[d] = "refused" => Stage[d] = "refused"
    /\ where[d] = "indexed" => Stage[d] = "indexed"
    /\ where[d] \in {"logged", "unreported", "requestFailed"} => Stage[d] = "failed"
    /\ where[d] \in {"queued", "held", "buffered", "retrying"} \cup Answers => Stage[d] = "accepted"
BY DEF Stage, Settled, Outcomes, Answers

\* The documents S are stored, and the documents T end with the fate o.
LEMMA DeliverStep ==
  ASSUME NEW S \in SUBSET Docs, NEW T \in SUBSET Docs, NEW o \in {"indexed", "failed"},
         \A d \in S \cup T : Stage[d] = "accepted",
         \A d \in S \cap WithId : copies[d] = 0,
         copies' = Count(copies, S),
         o = "indexed" => \A d \in T : copies'[d] > 0,
         Stage' = [d \in Docs |-> IF d \in T THEN o ELSE Stage[d]]
  PROVE  Delivery!Next
<1> DEFINE fate == [d \in T |-> o]
<1>1. fate \in [T -> {"indexed", "failed"}] /\ \A d \in T : fate[d] = o
  OBVIOUS
<1>2. Stage' = [d \in Docs |-> IF d \in T THEN fate[d] ELSE Stage[d]]
  BY <1>1
<1>3. \A d \in T : fate[d] = "indexed" => copies'[d] > 0
  BY <1>1
<1> HIDE DEF fate
<1>4. \E f \in [T -> {"indexed", "failed"}] :
        /\ \A d \in T : f[d] = "indexed" => copies'[d] > 0
        /\ Stage' = [d \in Docs |-> IF d \in T THEN f[d] ELSE Stage[d]]
  BY <1>1, <1>2, <1>3
<1>5. S \subseteq Delivery!Accepted /\ T \subseteq Delivery!Accepted
  BY DEF Delivery!Accepted
<1>6. Delivery!Deliver(S, T)
  BY <1>4, <1>5 DEF Delivery!Deliver, Count
<1> QED BY <1>6 DEF Delivery!Next

\* One document moves; DocDelivery sees nothing, or its end.
LEMMA MoveStep ==
  ASSUME TypeOK, NEW d \in Docs, NEW p \in Places, NEW w \in 0 .. NumWorkers,
         Move(d, p, w), UNCHANGED copies, Stage[d] = "accepted"
  PROVE  /\ p \notin {"new", "refused"} \cup Outcomes => UNCHANGED Delivery!vars
         /\ p \in Outcomes /\ (p = "indexed" => copies[d] > 0) => Delivery!Next
<1> USE DEF Places, Outcomes, Answers
<1>1. where'[d] = p /\ \A e \in Docs : e # d => where'[e] = where[e]
  BY DEF Move, TypeOK
<1>2. \A e \in Docs : e # d => Stage'[e] = Stage[e]
  BY <1>1 DEF Stage, Settled
<1>3. ASSUME p \notin {"new", "refused"} \cup Outcomes PROVE UNCHANGED Delivery!vars
  <2>1. Stage'[d] = "accepted"
    BY <1>1, <1>3 DEF Stage, Settled
  <2>2. Stage' = Stage
    BY <1>2, <2>1 DEF Stage
  <2> QED BY <2>2 DEF Delivery!vars
<1>4. ASSUME p \in Outcomes, p = "indexed" => copies[d] > 0 PROVE Delivery!Next
  <2> DEFINE o == IF p = "indexed" THEN "indexed" ELSE "failed"
  <2>1. Stage'[d] = o
    BY <1>1, <1>4 DEF Stage, Settled
  <2>2. Stage' = [e \in Docs |-> IF e \in {d} THEN o ELSE Stage[e]]
    BY <1>2, <2>1 DEF Stage
  <2>3. copies' = Count(copies, {})
    BY DEF Count, TypeOK
  <2>4. o \in {"indexed", "failed"} /\ (o = "indexed" => copies'[d] > 0)
    BY <1>4
  <2> HIDE DEF o
  <2>5. {} \in SUBSET Docs /\ {d} \in SUBSET Docs
    OBVIOUS
  <2> QED BY <2>2, <2>3, <2>4, <2>5, DeliverStep
<1> QED BY <1>3, <1>4

\* The indexer and its callbacks implement the delivery of documents.
THEOREM Implements == Spec => ImplementsDelivery
<1>1. Init => Delivery!Init
  BY DEF Init, Delivery!Init, Stage
<1>2. TypeOK /\ DocInv /\ [Next]_vars => [Delivery!Next]_(Delivery!vars)
  <2> SUFFICES ASSUME TypeOK, DocInv, [Next]_vars PROVE [Delivery!Next]_(Delivery!vars)
    OBVIOUS
  <2> USE DEF docVars, workerVars, closeVars, history
  <2>0. ASSUME UNCHANGED <<where, copies>> PROVE UNCHANGED Delivery!vars
    BY <2>0 DEF Delivery!vars, Stage, Settled
  <2>1. ASSUME NEW d \in Docs, Push(d) \/ Cancel(d) PROVE Delivery!Next
    <3>1. \E p \in {"queued", "refused"} : where' = [where EXCEPT ![d] = p]
      BY <2>1 DEF Push, Cancel, Move
    <3>2. where[d] = "new" /\ UNCHANGED copies
      BY <2>1 DEF Push, Cancel
    <3>3. \E s \in {"accepted", "refused"} : Stage' = [Stage EXCEPT ![d] = s]
      BY <3>1, <3>2 DEF Stage, Settled, Outcomes, TypeOK
    <3>4. Delivery!Offer(d)
      BY <3>2, <3>3, StageOfPlace DEF Delivery!Offer
    <3> QED BY <3>4 DEF Delivery!Next
  <2>2. ASSUME NEW w \in Workers, NEW d \in Docs, Receive(w, d) \/ Write(w, d)
        PROVE  UNCHANGED Delivery!vars
    <3>1. w \in 0 .. NumWorkers
      BY DEF Workers
    <3>2. \E p \in {"held", "buffered"} : Move(d, p, w)
      BY <2>2 DEF Receive, Write
    <3>3. Stage[d] = "accepted" /\ UNCHANGED copies
      BY <2>2, StageOfPlace DEF Receive, Write, Held, At
    <3> QED BY <3>1, <3>2, <3>3, MoveStep DEF Places, Outcomes
  <2>3. ASSUME NEW w \in Workers, NEW d \in Docs, WriteFails(w, d) PROVE Delivery!Next
    <3>1. \E p \in {"unreported", "logged"} : Move(d, p, 0)
      BY <2>3 DEF WriteFails
    <3>2. Stage[d] = "accepted" /\ UNCHANGED copies /\ 0 \in 0 .. NumWorkers
      BY <2>3, StageOfPlace, ConstantsAssumption DEF WriteFails, Held, At, ConstantsAssumption
    <3> QED BY <3>1, <3>2, MoveStep DEF Places, Outcomes
  <2>4. ASSUME NEW w \in Workers, NEW d \in Docs, ItemCreated(w, d) PROVE Delivery!Next
    <3>1. where[d] = "created" /\ Move(d, "indexed", 0) /\ UNCHANGED copies
      BY <2>4 DEF ItemCreated, NextItem
    <3>2. Stage[d] = "accepted" /\ copies[d] > 0 /\ 0 \in 0 .. NumWorkers
      BY <3>1, StageOfPlace, ConstantsAssumption DEF DocInv, Answers, ConstantsAssumption
    <3> QED BY <3>1, <3>2, MoveStep DEF Places, Outcomes
  <2>5. ASSUME NEW w \in Workers, NEW d \in Docs, FailureUnseen(w, d) \/ OnFailureDrop(w, d)
        PROVE  Delivery!Next
    <3>1. \E p \in {"unreported", "logged"} : Move(d, p, 0)
      BY <2>5 DEF FailureUnseen, OnFailureDrop
    <3>2. Stage[d] = "accepted" /\ UNCHANGED copies /\ 0 \in 0 .. NumWorkers
      BY <2>5, StageOfPlace, ConstantsAssumption
         DEF FailureUnseen, OnFailureDrop, NextItem, Answers, ConstantsAssumption
    <3> QED BY <3>1, <3>2, MoveStep DEF Places, Outcomes
  <2>6. ASSUME NEW w \in Workers, NEW d \in Docs, OnFailureRetry(w, d) \/ Resubmit(w, d)
        PROVE  UNCHANGED Delivery!vars
    <3>1. w \in 0 .. NumWorkers /\ 0 \in 0 .. NumWorkers
      BY ConstantsAssumption DEF Workers, ConstantsAssumption
    <3>2. \E p \in {"retrying", "queued"}, u \in {0, w} : Move(d, p, u)
      BY <2>6 DEF OnFailureRetry, Resubmit
    <3>3. Stage[d] = "accepted" /\ UNCHANGED copies
      BY <2>6, StageOfPlace DEF OnFailureRetry, Resubmit, NextItem, Answers, At
    <3> QED BY <3>1, <3>2, <3>3, MoveStep DEF Places, Outcomes
  <2>7. ASSUME NEW w \in Workers, Answered(w) PROVE Delivery!Next
    <3>1. PICK answer \in [Buffered(w) -> Answers] :
            LET created == {d \in Buffered(w) : answer[d] = "created"} IN
            /\ \A d \in created : Creatable(d)
            /\ copies' = Count(copies, created)
            /\ where'  = [d \in Docs |-> IF d \in Buffered(w) THEN answer[d] ELSE where[d]]
      BY <2>7 DEF Answered
    <3> DEFINE created == {d \in Buffered(w) : answer[d] = "created"}
    <3>2. /\ created \in SUBSET Docs /\ \A d \in created \cap WithId : copies[d] = 0
          /\ \A d \in created : Stage[d] = "accepted"
      BY <3>1, StageOfPlace DEF Buffered, At, Creatable
    <3>3. \A d \in Docs : Stage'[d] = Stage[d]
      <4>1. \A d \in Docs : \/ where'[d] = where[d]
                            \/ where[d] = "buffered" /\ where'[d] \in Answers
        BY <3>1 DEF Buffered, At
      <4> QED BY <4>1 DEF Stage, Settled, Outcomes, Answers
    <3>4. Stage' = [d \in Docs |-> IF d \in {} THEN "failed" ELSE Stage[d]]
      BY <3>3 DEF Stage
    <3>5. copies' = Count(copies, created)
      BY <3>1
    <3> HIDE DEF created
    <3>6. {} \in SUBSET Docs /\ \A d \in created \cup {} : Stage[d] = "accepted"
      BY <3>2
    <3> QED BY <3>2, <3>4, <3>5, <3>6, DeliverStep
  <2>8. ASSUME NEW w \in Workers, Unanswered(w)
        PROVE  \E S \in SUBSET Docs : /\ \A d \in S : Stage[d] = "accepted"
                                      /\ \A d \in S \cap WithId : copies[d] = 0
                                      /\ copies' = Count(copies, S)
    <3>1. PICK S \in SUBSET {d \in Buffered(w) : Creatable(d) /\ lost[d] < MaxLost} :
            copies' = Count(copies, S)
      BY <2>8 DEF Unanswered
    <3>2. S \in SUBSET Docs /\ \A d \in S : where[d] = "buffered" /\ Creatable(d)
      BY <3>1 DEF Buffered, At
    <3> QED BY <3>1, <3>2, StageOfPlace DEF Creatable
  <2>9. ASSUME NEW w \in Workers, RequestRetried(w) PROVE Delivery!Next
    <3>1. PICK S \in SUBSET Docs : /\ \A d \in S : Stage[d] = "accepted"
                                   /\ \A d \in S \cap WithId : copies[d] = 0
                                   /\ copies' = Count(copies, S)
      BY <2>8, <2>9 DEF RequestRetried
    <3>2. Stage' = [d \in Docs |-> IF d \in {} THEN "failed" ELSE Stage[d]]
      BY <2>9 DEF RequestRetried, Stage, Settled
    <3>3. {} \in SUBSET Docs /\ \A d \in S \cup {} : Stage[d] = "accepted"
      BY <3>1
    <3> QED BY <3>1, <3>2, <3>3, DeliverStep
  <2>10. ASSUME NEW w \in Workers, RequestGivenUp(w) PROVE Delivery!Next
    <3>1. PICK S \in SUBSET Docs : /\ \A d \in S : Stage[d] = "accepted"
                                   /\ \A d \in S \cap WithId : copies[d] = 0
                                   /\ copies' = Count(copies, S)
      BY <2>8, <2>10 DEF RequestGivenUp
    <3>2. where' = [d \in Docs |-> IF d \in Buffered(w) THEN "requestFailed" ELSE where[d]]
      BY <2>10 DEF RequestGivenUp
    <3>3. /\ Buffered(w) \in SUBSET Docs /\ \A d \in Buffered(w) : where[d] = "buffered"
          /\ \A d \in S \cup Buffered(w) : Stage[d] = "accepted"
      BY <3>1, StageOfPlace DEF Buffered, At
    <3>4. Stage' = [d \in Docs |-> IF d \in Buffered(w) THEN "failed" ELSE Stage[d]]
      BY <3>2, <3>3 DEF Stage, Settled, Outcomes
    <3> QED BY <3>1, <3>3, <3>4, DeliverStep
  <2>11. ASSUME NEW w \in Workers, NEW d \in Docs, ResubmitPanics(w, d) PROVE UNCHANGED Delivery!vars
    BY <2>0, <2>11 DEF ResubmitPanics
  <2>12. ASSUME NEW w \in Workers, FlushDone(w) PROVE UNCHANGED Delivery!vars
    BY <2>0, <2>12 DEF FlushDone
  <2>13. ASSUME NEW v \in Visitors, NEW w \in Workers, VisitWorker(v, w) PROVE UNCHANGED Delivery!vars
    BY <2>0, <2>13 DEF VisitWorker
  <2>14. ASSUME TickerWakes \/ Shutdown \/ CloseStep \/ UNCHANGED vars PROVE UNCHANGED Delivery!vars
    BY <2>0, <2>14 DEF TickerWakes, Shutdown, CloseStep, TickerEnds, WorkersEnd, vars
  <2> QED
    BY <2>1, <2>2, <2>3, <2>4, <2>5, <2>6, <2>7, <2>9, <2>10, <2>11, <2>12, <2>13, <2>14
       DEF Next, WorkerStep, FlushStep, VisitorStep, Finished
<1> QED BY <1>1, <1>2, TypeCorrect, DocInvariant, PTL DEF Spec, ImplementsDelivery, Delivery!Spec
=============================================================================
