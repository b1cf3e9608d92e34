--------------------------- MODULE BatchDelivery ---------------------------
(***************************************************************************)
(* What a ClickHouse exporter promises for a batch of telemetry: it is     *)
(* accepted or refused at once; its parts are then inserted some number of *)
(* times; in the end it is reported stored, which takes every one of its   *)
(* parts to be in the database, or dropped.  ClickhouseTx and              *)
(* ClickhouseMetrics implement this.                                       *)
(***************************************************************************)
EXTENDS Integers

CONSTANTS Batches,   \* the batches handed to the exporter
          Parts      \* the parts of each batch; each is inserted on its own

VARIABLES stage,     \* "new", "refused", "accepted", "stored" or "dropped"
          copies     \* per batch and part, how often it is in the database

vars == <<stage, copies>>

Init == /\ stage  = [b \in Batches |-> "new"]
        /\ copies = [b \in Batches |-> [p \in Parts[b] |-> 0]]

Offer(b) == /\ stage[b] = "new"
            /\ \E s \in {"accepted", "refused"} : stage' = [stage EXCEPT ![b] = s]
            /\ UNCHANGED copies

Insert(b, p) == /\ stage[b] = "accepted"
                /\ copies' = [copies EXCEPT ![b][p] = @ + 1]
                /\ UNCHANGED stage

\* The last insertion and the report may be one step.
Finish(b) == /\ stage[b] = "accepted"
             /\ \/ UNCHANGED copies
                \/ \E p \in Parts[b] : copies' = [copies EXCEPT ![b][p] = @ + 1]
             /\ \/ /\ \A p \in Parts[b] : copies'[b][p] > 0
                   /\ stage' = [stage EXCEPT ![b] = "stored"]
                \/ stage' = [stage EXCEPT ![b] = "dropped"]

Next == \E b \in Batches : Offer(b) \/ Finish(b) \/ \E p \in Parts[b] : Insert(b, p)

Spec == Init /\ [][Next]_vars

\* Every accepted batch is stored or dropped in the end.
EverySettled == \A b \in Batches : stage[b] = "accepted" ~> stage[b] \in {"stored", "dropped"}
=============================================================================
