--------------------------- MODULE ClickhouseSchema ---------------------------
(***************************************************************************)
(* What the ClickHouse exporters find and leave in the database when they  *)
(* start: the database itself, the tables of their signal and, for traces, *)
(* the materialized view that fills the table of trace ids.  Every         *)
(* exporter of every collector runs the same statements, concurrently and  *)
(* again after a crash or a failed start.                                  *)
(***************************************************************************)
EXTENDS Naturals

CONSTANTS
  Exporters,    \* the ClickHouse exporters of all collectors
  Signal,       \* per exporter: "traces", "logs" or "metrics"
  Database,     \* per exporter: the option database; Unset when it is not given
  Path,         \* per exporter: the database in the URL of the endpoint, or NoName
  Names,        \* the names of databases
  Default,      \* the database that every server has
  NoName,       \* the empty name
  Unset,
  MetricTables, \* the tables of the metric types
  Traces,       \* the traces that get stored
  NoTrace,      \* that of spans without an id
  MaxStarts     \* bound: starts of one exporter

ASSUME SchemaAssumption ==
  /\ Default \in Names /\ NoName \notin Names /\ Unset \notin Names \cup {NoName}
  /\ Signal \in [Exporters -> {"traces", "logs", "metrics"}]
  /\ Database \in [Exporters -> Names \cup {NoName, Unset}]
  /\ Path \in [Exporters -> Names \cup {NoName}]
  /\ MetricTables \cap {"traces", "trace_id_ts", "trace_id_ts_mv"} = {}
  /\ NoTrace \notin Traces /\ MaxStarts \in Nat

VARIABLES
  databases,  \* the databases of the server
  tables,     \* its tables and views, each with its database
  found,      \* the rows in traces and trace_id_ts: database, table and trace
  at,         \* per exporter: "down", "database", "tables" or "running"
  done,       \* per exporter: the CREATE statements of this start that returned
  starts      \* per exporter: how often it was started

serverVars == <<databases, tables, found>>
vars       == <<serverVars, at, done, starts>>

Init ==
  /\ databases = {Default}
  /\ tables = {} /\ found = {}
  /\ at = [e \in Exporters |-> "down"]
  /\ done = [e \in Exporters |-> {}]
  /\ starts = [e \in Exporters |-> 0]

\* cfg.Database: an option that is not given has the value of the default
\* configuration.
CfgDatabase(e) == IF Database[e] = Unset THEN Default ELSE Database[e]

\* buildDSN(database): the database the connection is made to.
Dsn(e, database) ==
  IF database # NoName THEN database
  ELSE IF CfgDatabase(e) # NoName THEN CfgDatabase(e)
  ELSE IF Path[e] # NoName THEN Path[e] ELSE Default

\* The client of the exporter.
Home(e) == Dsn(e, CfgDatabase(e))

\* The tables and views an exporter creates, and those of them that its code
\* creates before t: the metrics exporter ranges over a map, in any order.
TablesOf(e) == CASE Signal[e] = "traces"  -> {"traces", "trace_id_ts", "trace_id_ts_mv"}
                 [] Signal[e] = "logs"    -> {"logs"}
                 [] Signal[e] = "metrics" -> MetricTables

Before(t) == CASE t = "trace_id_ts"    -> {"traces"}
               [] t = "trace_id_ts_mv" -> {"traces", "trace_id_ts"}
               [] OTHER                -> {}

Goto(e, s) == at' = [at EXCEPT ![e] = s]

Start(e) ==
  /\ at[e] = "down" /\ starts[e] < MaxStarts
  /\ starts' = [starts EXCEPT ![e] = @ + 1]
  /\ done' = [done EXCEPT ![e] = {}]
  /\ Goto(e, "database")
  /\ UNCHANGED serverVars

\* createDatabase: the database called default is there; any other is created
\* through a connection to it.  A statement without a name is no statement.
HasDatabase_AnyName(e) == TRUE
HasDatabase(e) == CfgDatabase(e) # NoName

CreateDatabase(e) ==
  /\ at[e] = "database" /\ HasDatabase(e)
  /\ databases' = databases \cup {CfgDatabase(e)}
  /\ Goto(e, "tables")
  /\ UNCHANGED <<tables, found, done, starts>>

\* CREATE ... IF NOT EXISTS in the database of the client.
Created(e, t) == /\ Home(e) \in databases
                 /\ tables' = tables \cup {<<Home(e), t>>}

CreateTable_ErrorIgnored(e, t) ==
  /\ at[e] = "tables" /\ t \in TablesOf(e) \ done[e] /\ Before(t) \subseteq done[e]
  /\ Created(e, t) \/ UNCHANGED tables
  /\ done' = [done EXCEPT ![e] = @ \cup {t}]
  /\ UNCHANGED <<databases, found, at, starts>>

CreateTable(e, t) ==
  /\ at[e] = "tables" /\ t \in TablesOf(e) \ done[e] /\ Before(t) \subseteq done[e]
  /\ Created(e, t)
  /\ done' = [done EXCEPT ![e] = @ \cup {t}]
  /\ UNCHANGED <<databases, found, at, starts>>

StartReturns_BeforeTheView(e) ==
  /\ at[e] = "tables" /\ TablesOf(e) \ {"trace_id_ts_mv"} \subseteq done[e]
  /\ Goto(e, "running")
  /\ UNCHANGED <<serverVars, done, starts>>

StartReturns(e) ==
  /\ at[e] = "tables" /\ TablesOf(e) \subseteq done[e]
  /\ Goto(e, "running")
  /\ UNCHANGED <<serverVars, done, starts>>

\* A statement fails and start returns its error, which ends the collector; a
\* collector that runs crashes or is shut down.
Down(e) ==
  /\ at[e] # "down"
  /\ Goto(e, "down")
  /\ UNCHANGED <<serverVars, done, starts>>

\* ... or the statement is executed and its answer is lost.
DownUnseen(e) ==
  /\ \/ /\ at[e] = "database" /\ HasDatabase(e)
        /\ databases' = databases \cup {CfgDatabase(e)} /\ UNCHANGED tables
     \/ /\ at[e] = "tables"
        /\ \E t \in TablesOf(e) \ done[e] : Before(t) \subseteq done[e] /\ Created(e, t)
        /\ UNCHANGED databases
  /\ Goto(e, "down")
  /\ UNCHANGED <<found, done, starts>>

\* A span of trace x is inserted; ClickHouse runs the view, if there is one, on
\* the block that is inserted: it takes the ids that are not empty.
Insert(e, x) ==
  /\ at[e] = "running" /\ Signal[e] = "traces" /\ <<Home(e), "traces">> \in tables
  /\ found' = found \cup {<<Home(e), "traces", x>>}
       \cup IF <<Home(e), "trace_id_ts_mv">> \in tables /\ x # NoTrace
              THEN {<<Home(e), "trace_id_ts", x>>} ELSE {}
  /\ UNCHANGED <<databases, tables, at, done, starts>>

Step(e) ==
  \/ Start(e) \/ CreateDatabase(e) \/ StartReturns(e) \/ Down(e) \/ DownUnseen(e)
  \/ \E t \in TablesOf(e) : CreateTable(e, t)
  \/ \E x \in Traces \cup {NoTrace} : Insert(e, x)

Next == \E e \in Exporters : Step(e)

Spec == Init /\ [][Next]_vars
-----------------------------------------------------------------------------
AllTables == {"traces", "trace_id_ts", "trace_id_ts_mv", "logs"} \cup MetricTables

\* Type invariant of the variables above; no database without a name.
TypeOK ==
  /\ databases \subseteq Names
  /\ tables \subseteq databases \X AllTables
  /\ found \subseteq Names \X {"traces", "trace_id_ts"} \X (Traces \cup {NoTrace})
  /\ at \in [Exporters -> {"down", "database", "tables", "running"}]
  /\ done \in [Exporters -> SUBSET AllTables]
  /\ starts \in [Exporters -> 0 .. MaxStarts]

\* An exporter that accepts data has every table of its signal, whichever
\* exporters start beside it, whichever crashed half way and whoever created
\* the tables.
RunningHasItsTables ==
  \A e \in Exporters : at[e] = "running" => \A t \in TablesOf(e) : <<Home(e), t>> \in tables

\* Part of the inductive invariant: the view never exists without the table it
\* reads and the table it fills.  ClickHouse would reject the one, and every
\* insert after the other.
ViewHasItsTables ==
  \A d \in Names : <<d, "trace_id_ts_mv">> \in tables =>
    <<d, "traces">> \in tables /\ <<d, "trace_id_ts">> \in tables

\* Every trace that is stored can be found by its id, if it has one: no span is
\* inserted before the view is there.  The query server looks for traces in
\* trace_id_ts (query.go:24), as the README of the exporter does.
EveryTraceIndexed ==
  \A d \in Names, x \in Traces :
    <<d, "traces", x>> \in found => <<d, "trace_id_ts", x>> \in found
=============================================================================
