------------------------- MODULE MCClickhouseSchema -------------------------
(* Small instances of ClickhouseSchema for TLC.                            *)
EXTENDS ClickhouseSchema, TLC

CONSTANTS e1, e2, e3, e4, default, otel, noName, noTrace, unset

\* Two traces exporters share a database, a metrics exporter leaves the option
\* out, and a logs exporter names its database in the endpoint and gives an
\* empty option.
SharedDatabase == (e1 :> otel) @@ (e2 :> otel) @@ (e3 :> unset) @@ (e4 :> noName)
SharedPath     == [e \in {e1, e2, e3, e4} |-> IF e = e4 THEN otel ELSE noName]
SharedSignal   == (e1 :> "traces") @@ (e2 :> "traces") @@ (e3 :> "metrics") @@ (e4 :> "logs")
=============================================================================
