CONSTANTS
  web = web
  api = api
  rpc = rpc
  Clients = {web, api, rpc}
  Via <- Ways
  StorageTypes = {"elasticsearch", "clickhouse"}
  TracingType = "elasticsearch"
  MayFail = TRUE
  MayStop = TRUE
SPECIFICATION FairSpec
INVARIANTS
  TypeOK
PROPERTIES
  RequestsEnd
  ShutdownEnds
CHECK_DEADLOCK FALSE
