CONSTANTS
  e1 = e1
  e2 = e2
  e3 = e3
  e4 = e4
  default = default
  otel = otel
  noName = noName
  noTrace = noTrace
  unset = unset
  Exporters = {e1, e2, e3, e4}
  Signal <- SharedSignal
  Database <- SharedDatabase
  Path <- SharedPath
  Names = {default, otel}
  Default = default
  NoName = noName
  Unset = unset
  MetricTables = {"gauge", "sum"}
  Traces = {"x"}
  NoTrace = noTrace
  MaxStarts = 2
SPECIFICATION Spec
INVARIANTS
  TypeOK
  RunningHasItsTables
  EveryTraceIndexed
CHECK_DEADLOCK FALSE
