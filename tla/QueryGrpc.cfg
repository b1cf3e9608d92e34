CONSTANTS
  web = web
  api = api
  rpc = rpc
  Clients = {web, api, rpc}
  Via <- Ways
  StorageTypes = {"elasticsearch", "clickhouse"}
  TracingType = "elasticsearch"
  MayFail = FALSE
  MayStop = TRUE
SPECIFICATION FairSpec
PROPERTIES
  GrpcEndpointAnswers
CHECK_DEADLOCK FALSE
