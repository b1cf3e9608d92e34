-------------------------- MODULE JaegerInitProofs --------------------------
(***************************************************************************)
(* Theorems about JaegerInit, for any number of collectors, of cases and   *)
(* of failures.                                                            *)
(***************************************************************************)
EXTENDS JaegerInit, TLAPS

\* The type invariant holds in every state.
THEOREM TypeCorrect == Spec => []TypeOK
<1> USE ConstantsAssumption DEF ConstantsAssumption, TypeOK, Cases
<1>1. Init => TypeOK
  <2> SUFFICES ASSUME Init PROVE TypeOK
    OBVIOUS
  <2>1. refused \in BOOLEAN
    BY Zenon DEF Init
  <2>2. 1 \in Cases /\ faults \in 0 .. MaxFaults
    BY DEF Init
  <2> HIDE DEF Cases
  <2> QED BY <2>1, <2>2 DEF Init
<1>2. TypeOK /\ [Next]_vars => TypeOK'
  <2> SUFFICES ASSUME TypeOK, [Next]_vars PROVE TypeOK'
    OBVIOUS
  <2> USE DEF store, Goto, Fault, Steps
  <2>1. ASSUME NEW c \in Collectors, Start(c) PROVE TypeOK'
    BY <2>1 DEF Start
  <2>2. ASSUME NEW c \in Collectors, NextCase(c)
        PROVE  /\ pc' \in [Collectors -> Steps \cup {"down", "exporting"}]
               /\ case' \in [Collectors -> Cases]
    <3>1. case[c] \in Cases /\ (case[c] < NumCases => case[c] + 1 \in Cases)
      OBVIOUS
    <3> HIDE DEF Cases
    <3> QED BY <2>2, <3>1 DEF NextCase
  <2>3. ASSUME NEW k \in Cases, NEW kind \in {"first", "auto"}, NewIndex(k, kind)
        PROVE  /\ index' \in [Cases -> {"none", "first", "auto"}]
               /\ mapped' \subseteq Cases
    BY <2>3 DEF NewIndex
  <2>4. \A c \in Collectors : AfterTemplate(c) \in Steps
    BY DEF AfterTemplate
  <2>5. ASSUME NEW c \in Collectors, ExistsTemplate(c) PROVE TypeOK'
    BY <2>4, <2>5 DEF ExistsTemplate
  <2>6. ASSUME NEW c \in Collectors, CreateTemplate(c) PROVE TypeOK'
    BY <2>4, <2>6 DEF CreateTemplate
  <2>7. ASSUME NEW c \in Collectors, ExistsILMPolicy(c) PROVE TypeOK'
    BY <2>7 DEF ExistsILMPolicy
  <2>8. ASSUME NEW c \in Collectors, CreateILMPolicy(c) PROVE TypeOK'
    BY <2>8 DEF CreateILMPolicy
  <2>9. ASSUME NEW c \in Collectors, ExistsInitIndices(c) PROVE TypeOK'
    BY <2>2, <2>9 DEF ExistsInitIndices
  <2>10. ASSUME NEW c \in Collectors, CreateFirstIndex(c) PROVE TypeOK'
    BY <2>2, <2>3, <2>10 DEF CreateFirstIndex
  <2>11. ASSUME NEW c \in Collectors, ErrorAnswer(c) PROVE TypeOK'
    <3> HIDE DEF Cases
    <3>1. CASE NextCase(c)
      BY <2>2, <2>11, <3>1 DEF ErrorAnswer
    <3>2. CASE \E step \in Steps : Goto(c, step)
      BY <2>11, <3>2 DEF ErrorAnswer
    <3> QED BY <2>4, <2>11, <3>1, <3>2 DEF ErrorAnswer
  <2>12. ASSUME NEW c \in Collectors, NoAnswer(c) PROVE TypeOK'
    <3>1. case[c] \in Cases
      OBVIOUS
    <3> HIDE DEF Cases
    <3>2. CASE UNCHANGED <<index, mapped>>
      <4>1. template' \subseteq Cases /\ policy' \subseteq Cases
        BY <2>12, <3>1 DEF NoAnswer
      <4> QED BY <2>12, <3>2, <4>1 DEF NoAnswer
    <3>3. CASE NewIndex(case[c], "first") /\ UNCHANGED <<template, policy>>
      <4>1. /\ index' \in [Cases -> {"none", "first", "auto"}]
            /\ mapped' \subseteq Cases
        BY <2>3, <3>1, <3>3
      <4> QED BY <2>12, <3>3, <4>1 DEF NoAnswer
    <3> QED BY <2>12, <3>2, <3>3 DEF NoAnswer
  <2>13. ASSUME NEW c \in Collectors, Die(c) PROVE TypeOK'
    BY <2>13 DEF Die
  <2>14. ASSUME NEW c \in Collectors, Export(c) PROVE TypeOK'
    BY <2>3, <2>14 DEF Export
  <2>15. CASE UNCHANGED vars
    BY <2>15 DEF vars
  <2> QED
    BY <2>1, <2>5, <2>6, <2>7, <2>8, <2>9, <2>10, <2>11, <2>12, <2>13, <2>14, <2>15
       DEF Next, Request, Settled
<1> QED BY <1>1, <1>2, PTL DEF Spec

-----------------------------------------------------------------------------
(* Templates are never removed, so a collector whose requests were answered *)
(* well keeps the template it saw or put until it asks for the index.       *)

\* A collector that nothing has failed asks for an index after its template.
THEOREM CleanIndexMapped == Spec => []CleanIndexIsMapped
<1> USE DEF CleanIndexIsMapped
<1>1. Init => CleanIndexIsMapped
  BY DEF Init
<1>2. TypeOK /\ CleanIndexIsMapped /\ [Next]_vars => CleanIndexIsMapped'
  <2> SUFFICES ASSUME TypeOK, CleanIndexIsMapped, [Next]_vars PROVE CleanIndexIsMapped'
    OBVIOUS
  <2> USE DEF TypeOK, store, Goto
  <2>1. ASSUME NEW c \in Collectors, Start(c) PROVE CleanIndexIsMapped'
    BY <2>1 DEF Start
  <2>2. ASSUME NEW c \in Collectors, ExistsTemplate(c) PROVE CleanIndexIsMapped'
    BY <2>2 DEF ExistsTemplate, AfterTemplate
  <2>3. ASSUME NEW c \in Collectors, CreateTemplate(c) PROVE CleanIndexIsMapped'
    BY <2>3 DEF CreateTemplate, AfterTemplate
  <2>4. ASSUME NEW c \in Collectors, ExistsILMPolicy(c) PROVE CleanIndexIsMapped'
    BY <2>4 DEF ExistsILMPolicy
  <2>5. ASSUME NEW c \in Collectors, CreateILMPolicy(c) PROVE CleanIndexIsMapped'
    BY <2>5 DEF CreateILMPolicy
  <2>6. ASSUME NEW c \in Collectors, ExistsInitIndices(c) PROVE CleanIndexIsMapped'
    BY <2>6 DEF ExistsInitIndices, NextCase
  <2>7. ASSUME NEW c \in Collectors, CreateFirstIndex(c) PROVE CleanIndexIsMapped'
    BY <2>7 DEF CreateFirstIndex, NextCase
  <2>8. ASSUME NEW c \in Collectors, ErrorAnswer(c) PROVE CleanIndexIsMapped'
    BY <2>8 DEF ErrorAnswer, NextCase, AfterTemplate, Steps
  <2>9. ASSUME NEW c \in Collectors, NoAnswer(c) PROVE CleanIndexIsMapped'
    BY <2>9 DEF NoAnswer
  <2>10. ASSUME NEW c \in Collectors, Die(c) PROVE CleanIndexIsMapped'
    BY <2>10 DEF Die
  <2>11. ASSUME NEW c \in Collectors, Export(c) PROVE CleanIndexIsMapped'
    BY <2>11 DEF Export
  <2>12. CASE UNCHANGED vars
    BY <2>12 DEF vars
  <2> QED
    BY <2>1, <2>2, <2>3, <2>4, <2>5, <2>6, <2>7, <2>8, <2>9, <2>10, <2>11, <2>12
       DEF Next, Request, Settled
<1> QED BY <1>1, <1>2, TypeCorrect, PTL DEF Spec

-----------------------------------------------------------------------------
(* As long as no request is answered with an error: the cases behind a      *)
(* collector are ready, the one it is at has what it has already asked for, *)
(* and whatever index there is was created properly, by whichever collector *)
(* and whether or not it is still alive.                                    *)

Behind(c) == IF pc[c] = "exporting" THEN Cases ELSE 1 .. case[c] - 1

Progress(c) ==
  pc[c] # "down" =>
    /\ \A k \in Behind(c) : Ready(k)
    /\ pc[c] \in {"getPolicy", "putPolicy", "getIndex", "putIndex"} => case[c] \in template
    /\ pc[c] \in {"getPolicy", "putPolicy"} => case[c] = PolicyCase
    /\ pc[c] \in {"getIndex", "putIndex"} => policy # {}

ErrorFree ==
  ~refused => /\ \A c \in Collectors : Progress(c)
              /\ \A k \in Cases : index[k] # "none" => Ready(k)

\* ErrorFree is preserved by every step.
THEOREM ErrorFreeInvariant == Spec => []ErrorFree
<1>1. Init => ErrorFree
  BY DEF Init, ErrorFree, Progress
<1>2. TypeOK /\ ErrorFree /\ [Next]_vars => ErrorFree'
  <2> SUFFICES ASSUME TypeOK, ErrorFree, [Next]_vars, ~refused' PROVE ErrorFree'
    BY DEF ErrorFree
  <2> USE ConstantsAssumption DEF ConstantsAssumption, TypeOK, Cases, PolicyCase, store, Goto
  <2>0. ~refused /\ \A c \in Collectors : ~ErrorAnswer(c)
    <3>1. \A c \in Collectors : ~ErrorAnswer(c)
      BY DEF ErrorAnswer
    <3> QED
      BY <3>1 DEF Next, vars, Start, Request, ExistsTemplate, CreateTemplate, ExistsILMPolicy, CreateILMPolicy,
                  ExistsInitIndices, CreateFirstIndex, NoAnswer, Die, Export, Settled
  <2>1. /\ \A c \in Collectors : Progress(c)
        /\ \A k \in Cases : index[k] # "none" => Ready(k)
    BY <2>0 DEF ErrorFree
  <2>2. ASSUME NEW c \in Collectors, NextCase(c), NEW k \in Cases, k = case[c], Ready(k)',
               UNCHANGED <<template, policy>>, \A j \in Cases : Ready(j) => Ready(j)',
               pc[c] \in {"getIndex", "putIndex"}
        PROVE  \A b \in Collectors : Progress(b)'
    <3>1. \A b \in Collectors \ {c} : pc'[b] = pc[b] /\ case'[b] = case[b]
      BY <2>2 DEF NextCase
    <3>2. \A j \in 1 .. k : Ready(j)'
      <4>1. \A j \in 1 .. k : j \in Cases /\ (j = k \/ j \in 1 .. k - 1)
        OBVIOUS
      <4>2. \A j \in 1 .. k - 1 : Ready(j)
        BY <2>1, <2>2 DEF Progress, Behind
      <4> QED BY <2>2, <4>1, <4>2
    <3>3. ASSUME NEW b \in Collectors \ {c} PROVE Progress(b)'
      <4>1. Behind(b)' = Behind(b) /\ Behind(b) \subseteq Cases
        BY <3>1, <3>3 DEF Behind
      <4> QED BY <2>1, <2>2, <3>1, <3>3, <4>1 DEF Progress
    <3>4. CASE k < NumCases
      <4>1. pc'[c] = "getTemplate" /\ case'[c] = k + 1 /\ k + 1 - 1 = k
        BY <2>2, <3>4 DEF NextCase
      <4>2. Progress(c)'
        BY <3>2, <4>1 DEF Progress, Behind
      <4> QED BY <3>3, <4>2
    <3>5. CASE k = NumCases
      <4>1. pc'[c] = "exporting" /\ Cases = 1 .. k
        BY <2>2, <3>5 DEF NextCase
      <4>2. Progress(c)'
        BY <3>2, <4>1 DEF Progress, Behind
      <4> QED BY <3>3, <4>2
    <3> QED BY <2>2, <3>4, <3>5
  <2>3. ASSUME NEW k \in Cases, k \in template, policy # {}, index[k] = "none",
               NEW kind \in {"first", "auto"}, NewIndex(k, kind), UNCHANGED <<template, policy>>
        PROVE  /\ \A j \in Cases : Ready(j) => Ready(j)'
               /\ kind = "first" => Ready(k)'
               /\ \A j \in Cases \ {k} : index'[j] = index[j]
    BY <2>3 DEF NewIndex, Ready
  <2>4. ASSUME NEW c \in Collectors, Start(c) PROVE ErrorFree'
    BY <2>1, <2>4 DEF Start, ErrorFree, Progress, Behind, Ready
  <2>5. ASSUME NEW c \in Collectors, ExistsTemplate(c) PROVE ErrorFree'
    <3>1. \A k \in Cases : Ready(k)' = Ready(k)
      BY <2>5 DEF ExistsTemplate, Ready
    <3>2. AfterTemplate(c) = "getIndex" => policy # {}
      BY <2>1, <2>5 DEF ExistsTemplate, AfterTemplate, Progress, Behind, Ready
    <3> QED BY <2>1, <2>5, <3>1, <3>2 DEF ExistsTemplate, AfterTemplate, ErrorFree, Progress, Behind
  <2>6. ASSUME NEW c \in Collectors, CreateTemplate(c) PROVE ErrorFree'
    <3>1. \A k \in Cases : Ready(k)' = Ready(k)
      BY <2>6 DEF CreateTemplate, Ready
    <3>2. AfterTemplate(c) = "getIndex" => policy # {}
      BY <2>1, <2>6 DEF CreateTemplate, AfterTemplate, Progress, Behind, Ready
    <3> QED BY <2>1, <2>6, <3>1, <3>2 DEF CreateTemplate, AfterTemplate, ErrorFree, Progress, Behind
  <2>7. ASSUME NEW c \in Collectors, ExistsILMPolicy(c) PROVE ErrorFree'
    <3>1. \A k \in Cases : Ready(k)' = Ready(k)
      BY <2>7 DEF ExistsILMPolicy, Ready
    <3> QED BY <2>1, <2>7, <3>1 DEF ExistsILMPolicy, ErrorFree, Progress, Behind
  <2>8. ASSUME NEW c \in Collectors, CreateILMPolicy(c) PROVE ErrorFree'
    <3>1. \A k \in Cases : Ready(k) => Ready(k)'
      BY <2>8 DEF CreateILMPolicy, Ready
    <3> QED BY <2>1, <2>8, <3>1 DEF CreateILMPolicy, ErrorFree, Progress, Behind
  <2>9. ASSUME NEW c \in Collectors, ExistsInitIndices(c) PROVE ErrorFree'
    <3>1. \A k \in Cases : Ready(k)' = Ready(k)
      BY <2>9 DEF ExistsInitIndices, Ready
    <3>2. PICK k \in Cases : k = case[c]
      OBVIOUS
    <3>3. CASE index[k] # "none"
      <4>1. Ready(k)'
        BY <2>1, <3>1, <3>3
      <4>2. \A b \in Collectors : Progress(b)'
        BY <2>2, <2>9, <3>1, <3>2, <3>3, <4>1 DEF ExistsInitIndices
      <4> QED BY <2>1, <2>9, <3>1, <4>2 DEF ExistsInitIndices, ErrorFree
    <3>4. CASE index[k] = "none"
      <4>1. \A b \in Collectors : Progress(b)'
        BY <2>1, <2>9, <3>1, <3>2, <3>4 DEF ExistsInitIndices, Progress, Behind
      <4> QED BY <2>1, <2>9, <3>1, <4>1 DEF ExistsInitIndices, ErrorFree
    <3> QED BY <3>3, <3>4
  <2>10. ASSUME NEW c \in Collectors, CreateFirstIndex(c) PROVE ErrorFree'
    <3>1. PICK k \in Cases : k = case[c]
      OBVIOUS
    <3>2. k \in template /\ policy # {} /\ UNCHANGED <<template, policy>>
      BY <2>1, <2>10, <3>1 DEF CreateFirstIndex, Progress
    <3>3. /\ \A j \in Cases : Ready(j) => Ready(j)'
          /\ Ready(k)'
          /\ \A j \in Cases \ {k} : index'[j] = index[j]
      <4>1. CASE index[k] = "none"
        BY <2>3, <2>10, <3>1, <3>2, <4>1 DEF CreateFirstIndex
      <4>2. CASE index[k] # "none"
        <5>1. UNCHANGED <<index, mapped>>
          BY <2>10, <3>1, <4>2 DEF CreateFirstIndex
        <5> QED BY <2>1, <3>2, <4>2, <5>1 DEF Ready
      <4> QED BY <4>1, <4>2
    <3>4. \A b \in Collectors : Progress(b)'
      BY <2>2, <2>10, <3>1, <3>2, <3>3 DEF CreateFirstIndex
    <3>5. \A j \in Cases : index'[j] # "none" => Ready(j)'
      BY <2>1, <3>3
    <3> QED BY <2>1, <3>2, <3>4, <3>5 DEF ErrorFree
  <2>11. ASSUME NEW c \in Collectors, Export(c) PROVE ErrorFree'
    <3>1. \A k \in Cases : index[k] # "none"
      BY <2>1, <2>11 DEF Export, Progress, Behind, Ready
    <3> QED BY <2>11, <3>1 DEF Export
  <2>12. CASE UNCHANGED vars
    BY <2>1, <2>12 DEF vars, ErrorFree, Progress, Behind, Ready
  <2>13. ASSUME NEW c \in Collectors, pc' = [pc EXCEPT ![c] = "down"], UNCHANGED case,
                template \subseteq template', policy \subseteq policy',
                \A k \in Cases : Ready(k) => Ready(k)'
         PROVE  \A b \in Collectors : Progress(b)'
    <3>1. \A b \in Collectors : Progress(b)
      BY <2>1
    <3>2. pc'[c] = "down" /\ \A b \in Collectors \ {c} : pc'[b] = pc[b] /\ case'[b] = case[b]
      BY <2>13
    <3>3. ASSUME NEW b \in Collectors \ {c} PROVE Progress(b)'
      <4>1. Behind(b)' = Behind(b) /\ Behind(b) \subseteq Cases
        BY <3>2, <3>3 DEF Behind
      <4> QED BY <2>13, <3>1, <3>2, <3>3, <4>1 DEF Progress
    <3>4. Progress(c)'
      BY <3>2 DEF Progress
    <3> QED BY <3>3, <3>4
  <2>14. ASSUME NEW c \in Collectors, Die(c) PROVE ErrorFree'
    <3>1. \A k \in Cases : Ready(k)' = Ready(k)
      BY <2>14 DEF Die, Ready
    <3>2. \A b \in Collectors : Progress(b)'
      BY <2>13, <2>14, <3>1 DEF Die
    <3> QED BY <2>1, <2>14, <3>1, <3>2 DEF Die, ErrorFree
  <2>15. ASSUME NEW c \in Collectors, NoAnswer(c) PROVE ErrorFree'
    <3>1. /\ pc' = [pc EXCEPT ![c] = "down"] /\ UNCHANGED case
          /\ template \subseteq template' /\ policy \subseteq policy'
      BY <2>15 DEF NoAnswer
    <3>2. /\ \A k \in Cases : Ready(k) => Ready(k)'
          /\ \A k \in Cases : index'[k] # "none" => Ready(k)'
      <4>1. CASE UNCHANGED <<index, mapped>>
        BY <2>1, <3>1, <4>1 DEF Ready
      <4>2. CASE pc[c] = "putIndex" /\ index[case[c]] = "none" /\ NewIndex(case[c], "first") /\ UNCHANGED <<template, policy>>
        <5>1. PICK k \in Cases : k = case[c]
          OBVIOUS
        <5>2. k \in template /\ policy # {}
          BY <2>1, <4>2, <5>1 DEF Progress
        <5> QED BY <2>1, <2>3, <4>2, <5>1, <5>2
      <4> QED BY <2>15, <4>1, <4>2 DEF NoAnswer
    <3>3. \A b \in Collectors : Progress(b)'
      BY <2>13, <3>1, <3>2
    <3> QED BY <3>2, <3>3 DEF ErrorFree
  <2> QED
    BY <2>0, <2>4, <2>5, <2>6, <2>7, <2>8, <2>9, <2>10, <2>11, <2>12, <2>14, <2>15
       DEF Next, Request, Settled
<1> QED BY <1>1, <1>2, TypeCorrect, PTL DEF Spec

\* As long as no request is answered with an error, a collector that exports finds
\* every case ready, whichever of them died and started again.
THEOREM ReadyToExport == Spec => []ExportingMeansReady
<1>1. ErrorFree => ExportingMeansReady
  BY DEF ErrorFree, ExportingMeansReady, Progress, Behind
<1> QED BY <1>1, ErrorFreeInvariant, PTL

\* No index is damaged before a request is answered with an error.
THEOREM DamageNeedsError == Spec => []DamageTakesAnError
<1>1. ErrorFree => DamageTakesAnError
  BY DEF ErrorFree, DamageTakesAnError
<1> QED BY <1>1, ErrorFreeInvariant, PTL
=============================================================================
