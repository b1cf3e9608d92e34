CONSTANTS
  Docs = {d1, d2}
  WithId = {}
  NumWorkers = 1
  FlushItems = 1
  RetryEnabled = TRUE
  MaxRequests = 2
  MayClose = FALSE
  MaxLost = 0
SPECIFICATION FairSpec
CHECK_DEADLOCK FALSE
PROPERTIES
  RetryIsQueued
