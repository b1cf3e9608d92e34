--------------------------- MODULE MCBulkIndexer ---------------------------
(* Small instances of BulkIndexer for TLC: documents without an id are      *)
(* interchangeable, so the runs without liveness use them as a symmetry set. *)
EXTENDS BulkIndexer, TLC

Symmetry == Permutations(Docs \ WithId)
=============================================================================
