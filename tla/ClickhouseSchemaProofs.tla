----------------------- MODULE ClickhouseSchemaProofs -----------------------
(***************************************************************************)
(* Proofs about ClickhouseSchema, for any number of exporters, databases,  *)
(* tables and starts.                                                      *)
(***************************************************************************)
EXTENDS ClickhouseSchema, TLAPS

USE SchemaAssumption DEF SchemaAssumption

\* A named database that is configured is one of Names.
LEMMA ConfiguredName ==
  ASSUME NEW e \in Exporters, HasDatabase(e)
  PROVE  CfgDatabase(e) \in Names
  BY DEF HasDatabase, CfgDatabase

\* The tables of an exporter are among those the model knows.
LEMMA KnownTables == \A e \in Exporters : TablesOf(e) \subseteq AllTables
  BY DEF TablesOf, AllTables

\* The type invariant of the start of the exporters.
THEOREM TypeCorrect == Spec => []TypeOK
<1>1. Init => TypeOK
  BY DEF Init, TypeOK
<1>2. TypeOK /\ [Next]_vars => TypeOK'
  <2> SUFFICES ASSUME TypeOK, [Next]_vars PROVE TypeOK'
    OBVIOUS
  <2> USE DEF TypeOK, serverVars, Goto
  <2>1. ASSUME NEW e \in Exporters, Start(e) PROVE TypeOK'
    BY <2>1 DEF Start
  <2>2. ASSUME NEW e \in Exporters, CreateDatabase(e) PROVE TypeOK'
    BY <2>2, ConfiguredName DEF CreateDatabase
  <2>3. ASSUME NEW e \in Exporters, NEW t \in TablesOf(e), CreateTable(e, t) PROVE TypeOK'
    BY <2>3, KnownTables DEF CreateTable, Created
  <2>4. ASSUME NEW e \in Exporters, StartReturns(e) PROVE TypeOK'
    BY <2>4 DEF StartReturns
  <2>5. ASSUME NEW e \in Exporters, Down(e) PROVE TypeOK'
    BY <2>5 DEF Down
  <2>6. ASSUME NEW e \in Exporters, DownUnseen(e) PROVE TypeOK'
    BY <2>6, ConfiguredName, KnownTables DEF DownUnseen, Created
  <2>7. ASSUME NEW e \in Exporters, NEW x \in Traces \cup {NoTrace}, Insert(e, x) PROVE TypeOK'
    <3>1. Home(e) \in Names
      BY <2>7 DEF Insert
    <3> QED
      BY <2>7, <3>1 DEF Insert
  <2>8. CASE UNCHANGED vars
    BY <2>8 DEF vars
  <2> QED
    BY <2>1, <2>2, <2>3, <2>4, <2>5, <2>6, <2>7, <2>8 DEF Next, Step
<1> QED
  BY <1>1, <1>2, PTL DEF Spec

-----------------------------------------------------------------------------
(* RunningHasItsTables is not inductive by itself: that an exporter runs    *)
(* says nothing of the server unless every statement that returned left its *)
(* table there, which stays true when the exporter goes down.               *)

DoneIsThere == \A e \in Exporters : \A t \in done[e] : <<Home(e), t>> \in tables

RunningIsDone == \A e \in Exporters : at[e] = "running" => TablesOf(e) \subseteq done[e]

SchemaInv == DoneIsThere /\ RunningIsDone /\ ViewHasItsTables /\ EveryTraceIndexed

\* Nothing a step does makes a table go away.
LEMMA TablesStay == ASSUME [Next]_vars PROVE tables \subseteq tables'
  BY DEF Next, Step, vars, serverVars, Start, CreateDatabase, CreateTable, Created,
         StartReturns, Down, DownUnseen, Insert

\* The statements that returned left their tables, those of a running exporter
\* are all of them, and both the view and the rows depend on that.
THEOREM SchemaInvariant == Spec => []SchemaInv
<1>1. Init => SchemaInv
  BY DEF Init, SchemaInv, DoneIsThere, RunningIsDone, ViewHasItsTables, EveryTraceIndexed
<1>2. TypeOK /\ SchemaInv /\ [Next]_vars => SchemaInv'
  <2> SUFFICES ASSUME TypeOK, SchemaInv, [Next]_vars PROVE SchemaInv'
    OBVIOUS
  <2> USE DEF TypeOK, serverVars, Goto, SchemaInv
  <2>1. DoneIsThere'
    <3>1. ASSUME NEW e \in Exporters, NEW t \in TablesOf(e), CreateTable(e, t) PROVE DoneIsThere'
      BY <3>1, TablesStay DEF CreateTable, Created, DoneIsThere
    <3>2. ASSUME NEW e \in Exporters, Start(e) PROVE DoneIsThere'
      BY <3>2 DEF Start, DoneIsThere
    <3>3. ASSUME UNCHANGED done PROVE DoneIsThere'
      BY <3>3, TablesStay DEF DoneIsThere
    <3> QED
      BY <3>1, <3>2, <3>3
      DEF Next, Step, vars, CreateDatabase, StartReturns, Down, DownUnseen, Insert
  <2>2. RunningIsDone'
    <3> USE DEF RunningIsDone
    <3>1. ASSUME NEW e \in Exporters, Start(e) PROVE RunningIsDone'
      BY <3>1 DEF Start
    <3>2. ASSUME NEW e \in Exporters, CreateDatabase(e) PROVE RunningIsDone'
      BY <3>2 DEF CreateDatabase
    <3>3. ASSUME NEW e \in Exporters, NEW t \in TablesOf(e), CreateTable(e, t) PROVE RunningIsDone'
      BY <3>3 DEF CreateTable
    <3>4. ASSUME NEW e \in Exporters, StartReturns(e) PROVE RunningIsDone'
      BY <3>4 DEF StartReturns
    <3>5. ASSUME NEW e \in Exporters, Down(e) \/ DownUnseen(e) PROVE RunningIsDone'
      BY <3>5 DEF Down, DownUnseen
    <3>6. ASSUME UNCHANGED <<at, done>> PROVE RunningIsDone'
      BY <3>6
    <3> QED
      BY <3>1, <3>2, <3>3, <3>4, <3>5, <3>6 DEF Next, Step, vars, Insert
  <2>3. ViewHasItsTables'
    <3>1. ASSUME NEW e \in Exporters, NEW t \in TablesOf(e), Before(t) \subseteq done[e], Created(e, t)
          PROVE  ViewHasItsTables'
      <4>1. t = "trace_id_ts_mv" => <<Home(e), "traces">> \in tables /\ <<Home(e), "trace_id_ts">> \in tables
        BY <3>1 DEF Before, DoneIsThere
      <4> QED
        BY <3>1, <4>1 DEF Created, ViewHasItsTables
    <3>2. ASSUME UNCHANGED tables PROVE ViewHasItsTables'
      BY <3>2 DEF ViewHasItsTables
    <3> QED
      BY <3>1, <3>2
      DEF Next, Step, vars, Start, CreateDatabase, CreateTable, StartReturns, Down, DownUnseen, Insert
  <2>4. EveryTraceIndexed'
    <3>1. ASSUME NEW e \in Exporters, NEW x \in Traces \cup {NoTrace}, Insert(e, x) PROVE EveryTraceIndexed'
      <4>1. <<Home(e), "trace_id_ts_mv">> \in tables
        BY <3>1 DEF Insert, TablesOf, RunningIsDone, DoneIsThere
      <4> QED
        BY <3>1, <4>1 DEF Insert, EveryTraceIndexed
    <3>2. ASSUME UNCHANGED found PROVE EveryTraceIndexed'
      BY <3>2 DEF EveryTraceIndexed
    <3> QED
      BY <3>1, <3>2
      DEF Next, Step, vars, Start, CreateDatabase, CreateTable, StartReturns, Down, DownUnseen
  <2> QED
    BY <2>1, <2>2, <2>3, <2>4
<1> QED
  BY <1>1, <1>2, TypeCorrect, PTL DEF Spec

\* An exporter that accepts data has every table of its signal.
THEOREM TablesBeforeData == Spec => []RunningHasItsTables
<1>1. SchemaInv => RunningHasItsTables
  BY DEF SchemaInv, DoneIsThere, RunningIsDone, RunningHasItsTables
<1> QED
  BY <1>1, SchemaInvariant, PTL

\* Every trace that is stored can be found by its id, if it has one.
THEOREM TracesFound == Spec => []EveryTraceIndexed
<1>1. SchemaInv => EveryTraceIndexed
  BY DEF SchemaInv
<1> QED
  BY <1>1, SchemaInvariant, PTL
=============================================================================
