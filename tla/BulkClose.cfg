CONSTANTS
  Docs = {d1, d2}
  WithId = {}
  NumWorkers = 2
  FlushItems = 2
  RetryEnabled = TRUE
  MaxRequests = 2
  MayClose = TRUE
  MaxLost = 1
SPECIFICATION FairSpec
PROPERTIES
  CloseReturns
  AcceptedIsSettled
