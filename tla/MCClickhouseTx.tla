--------------------------- MODULE MCClickhouseTx ---------------------------
(* Small instances of ClickhouseTx for TLC.                                *)
EXTENDS ClickhouseTx

CONSTANTS b1, b2, b3, shop, cart

\* A batch of two resources of which the second has no name, one with a single
\* resource, and an empty one.
MixedBatches ==
  [b \in {b1, b2, b3} |-> CASE b = b1 -> <<shop, NoService>>
                            [] b = b2 -> <<cart>>
                            [] b = b3 -> << >>]
=============================================================================
