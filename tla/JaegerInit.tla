----------------------------- MODULE JaegerInit -----------------------------
(***************************************************************************)
(* What the traces exporter in jaeger mode does to Elasticsearch before it *)
(* exports (jaeger_es_init.go): for each kind of data, in order, it looks  *)
(* for an index template, an ILM policy and a first index that carries the *)
(* write alias, and creates what it does not find.  Several collectors may *)
(* start at once, requests may fail, a collector may die and start again,  *)
(* and collectors that are done already write to the alias.                *)
(***************************************************************************)
EXTENDS Integers, FiniteSets

CONSTANTS
  Collectors,  \* the collectors with a jaeger traces exporter
  NumCases,    \* len(esCase): service, span, dependencies
  Written,     \* the cases whose alias the exporter writes to
  MaxFaults    \* bound: requests that fail, and collectors that die

Cases == 1 .. NumCases

\* esCase[0], jaeger-service, is the one with a policyName.
PolicyCase == 1

ASSUME ConstantsAssumption ==
  /\ IsFiniteSet(Collectors)
  /\ NumCases \in Nat \ {0}
  /\ Written \subseteq Cases
  /\ MaxFaults \in Nat

Steps == {"getTemplate", "putTemplate", "getPolicy", "putPolicy", "getIndex", "putIndex"}

VARIABLES
  pc,        \* each collector's next request, "down", or "exporting"
  case,      \* the position of its loop over esCase
  clean,     \* "clean" while all its requests of this start were answered well
  template,  \* Elasticsearch: the cases with a template
  policy,    \* Elasticsearch: the cases whose policyName exists
  index,     \* per case "none", "first" (carries the alias), or "auto"
  mapped,    \* cases whose index was created when the template existed
  faults,    \* failures so far
  refused    \* a request was answered with an error

store == <<template, policy, index, mapped>>
vars  == <<pc, case, clean, store, faults, refused>>

Init ==
  /\ pc = [c \in Collectors |-> "down"]
  /\ case = [c \in Collectors |-> 1]
  /\ clean = [c \in Collectors |-> "clean"]
  /\ template = {} /\ policy = {} /\ mapped = {}
  /\ index = [k \in Cases |-> "none"]
  /\ faults = 0 /\ refused = FALSE

Goto(c, step) == pc' = [pc EXCEPT ![c] = step] /\ UNCHANGED case

Fault == faults < MaxFaults /\ faults' = faults + 1

\* newTracesExporter calls init.
Start(c) ==
  /\ pc[c] = "down"
  /\ pc' = [pc EXCEPT ![c] = "getTemplate"]
  /\ case' = [case EXCEPT ![c] = 1]
  /\ clean' = [clean EXCEPT ![c] = "clean"]
  /\ UNCHANGED <<store, faults, refused>>

\* Only case PolicyCase has a policy to look for.
AfterTemplate_NoPolicy(c) == "getIndex"
AfterTemplate(c) == IF case[c] = PolicyCase THEN "getPolicy" ELSE "getIndex"

\* The end of one turn of the loop in checkAndInitElasticsearch.
NextCase_TooFar(c) ==
  IF case[c] <= NumCases
    THEN /\ pc' = [pc EXCEPT ![c] = "getTemplate"]
         /\ case' = [case EXCEPT ![c] = @ + 1]
    ELSE Goto(c, "exporting")

NextCase_OneShort(c) ==
  IF case[c] + 1 < NumCases
    THEN /\ pc' = [pc EXCEPT ![c] = "getTemplate"]
         /\ case' = [case EXCEPT ![c] = @ + 1]
    ELSE Goto(c, "exporting")

NextCase(c) ==
  IF case[c] < NumCases
    THEN /\ pc' = [pc EXCEPT ![c] = "getTemplate"]
         /\ case' = [case EXCEPT ![c] = @ + 1]
    ELSE Goto(c, "exporting")

-----------------------------------------------------------------------------
(* The requests, answered well.                                            *)

ExistsTemplate_AnyTemplate(c) ==
  /\ pc[c] = "getTemplate"
  /\ Goto(c, IF template # {} THEN AfterTemplate(c) ELSE "putTemplate")
  /\ UNCHANGED <<clean, store, faults, refused>>

ExistsTemplate(c) ==
  /\ pc[c] = "getTemplate"
  /\ Goto(c, IF case[c] \in template THEN AfterTemplate(c) ELSE "putTemplate")
  /\ UNCHANGED <<clean, store, faults, refused>>

CreateTemplate(c) ==
  /\ pc[c] = "putTemplate"
  /\ template' = template \cup {case[c]}
  /\ Goto(c, AfterTemplate(c))
  /\ UNCHANGED <<clean, policy, index, mapped, faults, refused>>

ExistsILMPolicy(c) ==
  /\ pc[c] = "getPolicy"
  /\ Goto(c, IF case[c] \in policy THEN "getIndex" ELSE "putPolicy")
  /\ UNCHANGED <<clean, store, faults, refused>>

CreateILMPolicy(c) ==
  /\ pc[c] = "putPolicy"
  /\ policy' = policy \cup {case[c]}
  /\ Goto(c, "getIndex")
  /\ UNCHANGED <<clean, template, index, mapped, faults, refused>>

\* `template`-* matches the first index and an index named like the alias.
ExistsInitIndices(c) ==
  /\ pc[c] = "getIndex"
  /\ IF index[case[c]] # "none" THEN NextCase(c) ELSE Goto(c, "putIndex")
  /\ UNCHANGED <<clean, store, faults, refused>>

\* Elasticsearch creates an index: it takes the template that exists now, and
\* with it the policy's name and the write alias to roll over.
NewIndex(k, kind) ==
  /\ index' = [index EXCEPT ![k] = kind]
  /\ mapped' = IF k \in template THEN mapped \cup {k} ELSE mapped

\* Refused, and only logged, when the first index or an index named like its
\* alias exists by now.
CreateFirstIndex(c) ==
  /\ pc[c] = "putIndex"
  /\ IF index[case[c]] = "none"
       THEN NewIndex(case[c], "first") ELSE UNCHANGED <<index, mapped>>
  /\ NextCase(c)
  /\ UNCHANGED <<clean, template, policy, faults, refused>>

-----------------------------------------------------------------------------
(* The requests, failing.                                                  *)

\* An error status, with an error body: to the exists functions whatever is
\* not a 404 (for the indices: not "{}") means that it exists; the create
\* functions log the failure; checkAndInitElasticsearch goes on either way.
ErrorAnswer(c) ==
  /\ pc[c] \in Steps /\ Fault
  /\ clean' = [clean EXCEPT ![c] = "faulty"] /\ refused' = TRUE
  /\ \/ pc[c] \in {"getTemplate", "putTemplate"} /\ Goto(c, AfterTemplate(c))
     \/ pc[c] \in {"getPolicy", "putPolicy"}     /\ Goto(c, "getIndex")
     \/ pc[c] \in {"getIndex", "putIndex"}       /\ NextCase(c)
  /\ UNCHANGED store

\* No answer: the nil response is dereferenced and the collector dies.  The
\* request itself may have been executed.
NoAnswer(c) ==
  /\ pc[c] \in Steps /\ Fault
  /\ Goto(c, "down")
  /\ \/ UNCHANGED store
     \/ /\ pc[c] = "putTemplate" /\ template' = template \cup {case[c]}
        /\ UNCHANGED <<policy, index, mapped>>
     \/ /\ pc[c] = "putPolicy" /\ policy' = policy \cup {case[c]}
        /\ UNCHANGED <<template, index, mapped>>
     \/ /\ pc[c] = "putIndex" /\ index[case[c]] = "none" /\ NewIndex(case[c], "first")
        /\ UNCHANGED <<template, policy>>
  /\ UNCHANGED <<clean, refused>>

\* The collector dies, or is restarted, at any other moment.
Die(c) ==
  /\ pc[c] # "down" /\ Fault
  /\ Goto(c, "down")
  /\ UNCHANGED <<clean, store, refused>>

-----------------------------------------------------------------------------
\* The bulk request of a collector that exports: writing to an alias that does
\* not exist makes Elasticsearch create an index of that name.
Export_BeforeInit(c) ==
  /\ \E k \in Written : index[k] = "none" /\ NewIndex(k, "auto")
  /\ UNCHANGED <<pc, case, clean, template, policy, faults, refused>>

Export(c) ==
  /\ pc[c] = "exporting"
  /\ \E k \in Written : index[k] = "none" /\ NewIndex(k, "auto")
  /\ UNCHANGED <<pc, case, clean, template, policy, faults, refused>>

Request(c) == \/ ExistsTemplate(c) \/ CreateTemplate(c) \/ ExistsILMPolicy(c)
              \/ CreateILMPolicy(c) \/ ExistsInitIndices(c) \/ CreateFirstIndex(c)

\* Every collector exports, and nothing is left to create.
Settled == /\ \A c \in Collectors : pc[c] = "exporting"
           /\ \A k \in Written : index[k] # "none"
           /\ UNCHANGED vars

Next == \/ \E c \in Collectors : \/ Start(c) \/ Request(c) \/ ErrorAnswer(c)
                                 \/ NoAnswer(c) \/ Die(c) \/ Export(c)
        \/ Settled

Spec     == Init /\ [][Next]_vars
FairSpec == Spec /\ \A c \in Collectors : WF_vars(Start(c) \/ Request(c) \/ ErrorAnswer(c))
-----------------------------------------------------------------------------
\* Type invariant of the variables above.
TypeOK ==
  /\ pc \in [Collectors -> Steps \cup {"down", "exporting"}]
  /\ case \in [Collectors -> Cases]
  /\ clean \in [Collectors -> {"clean", "faulty"}]
  /\ template \subseteq Cases /\ policy \subseteq Cases
  /\ index \in [Cases -> {"none", "first", "auto"}]
  /\ mapped \subseteq Cases
  /\ faults \in 0 .. MaxFaults /\ refused \in BOOLEAN

\* Rollover works for case k: the write alias is on an index that took its
\* template, and the policy that the template names exists, put before the index
\* or after it.
Ready(k) == index[k] = "first" /\ k \in mapped /\ policy # {}

\* However many collectors start together, die between any two requests, with
\* or without an answer, and start again: as long as no request is answered with an
\* error, a collector that exports finds every case ready, although any of the
\* requests may have been made by another one between its own.
ExportingMeansReady ==
  ~refused => \A c \in Collectors : pc[c] = "exporting" => \A k \in Cases : Ready(k)

\* An index without its template or its policy, or in the place of the write
\* alias, takes an error answer: neither the order of the requests nor the death
\* of a collector, whose request may have been executed, ever leads to one.
DamageTakesAnError ==
  ~refused => \A k \in Cases : index[k] # "none" => Ready(k)

\* While no template or policy request has failed the first index of a case is
\* created from the template, deaths and restarts included: it is asked for
\* only by a collector that has seen, or put, the template of that case.
CleanIndexIsMapped ==
  \A c \in Collectors :
    clean[c] = "clean" /\ pc[c] \in {"getPolicy", "putPolicy", "getIndex", "putIndex"}
      => case[c] \in template

\* "create increment index(*-00001) as rollover starter" (jaeger_es_init.go:153):
\* once a collector whose requests were all answered well has gone through the
\* cases, each of them has its rollover index.
CleanStartHasRolloverIndex ==
  \A c \in Collectors :
    pc[c] = "exporting" /\ clean[c] = "clean" => \A k \in Cases : index[k] = "first"

\* In the end every collector exports and goes on exporting, failures or not:
\* init has no retries and no way to give up, so it comes to its end once the
\* collector stays alive.  Every case is ready then, the ones that a collector
\* left half done when it died included, unless a request was answered with an error.
EventuallyReady ==
  <>[](/\ \A c \in Collectors : pc[c] = "exporting"
       /\ ~refused => \A k \in Cases : Ready(k))
=============================================================================
