------------------------ MODULE MCClickhouseMetrics ------------------------
(* Small instances of ClickhouseMetrics for TLC.                           *)
EXTENDS ClickhouseMetrics, TLC

CONSTANTS b1, b2, gauge, sum, histogram

\* A batch of two types, and one of one type.
TwoBatches == [b \in {b1, b2} |-> CASE b = b1 -> {gauge, sum}
                                    [] b = b2 -> {histogram}]
=============================================================================
