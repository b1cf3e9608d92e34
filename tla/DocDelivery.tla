---------------------------- MODULE DocDelivery ----------------------------
(***************************************************************************)
(* What the Elasticsearch exporter promises for a document: once accepted, *)
(* it is stored some number of times and in the end reported indexed, or   *)
(* given up.  It is reported indexed only if it is in the index, and one   *)
(* with a documentID is there at most once.  BulkIndexer implements this.  *)
(***************************************************************************)
EXTENDS Integers

CONSTANTS Docs,    \* the documents
          WithId   \* those with a documentID

VARIABLES stage,   \* "new", "refused", "accepted", "indexed" or "failed"
          copies   \* how often each document is in the index

vars == <<stage, copies>>

Accepted == {d \in Docs : stage[d] = "accepted"}

TypeOK == /\ stage \in [Docs -> {"new", "refused", "accepted", "indexed", "failed"}]
          /\ copies \in [Docs -> Nat]

Init == /\ stage  = [d \in Docs |-> "new"]
        /\ copies = [d \in Docs |-> 0]

\* pushDocuments returns nil, or the error of its context.
Offer(d) == /\ stage[d] = "new"
            /\ \E s \in {"accepted", "refused"} : stage' = [stage EXCEPT ![d] = s]
            /\ UNCHANGED copies

\* A request stores the documents S and decides the fate of the documents T.
Deliver(S, T) ==
  /\ S \subseteq Accepted /\ T \subseteq Accepted
  /\ \A d \in S \cap WithId : copies[d] = 0
  /\ copies' = [d \in Docs |-> IF d \in S THEN copies[d] + 1 ELSE copies[d]]
  /\ \E fate \in [T -> {"indexed", "failed"}] :
       /\ \A d \in T : fate[d] = "indexed" => copies'[d] > 0
       /\ stage' = [d \in Docs |-> IF d \in T THEN fate[d] ELSE stage[d]]

Next == \/ \E d \in Docs : Offer(d)
        \/ \E S, T \in SUBSET Docs : Deliver(S, T)

Spec == Init /\ [][Next]_vars
=============================================================================
