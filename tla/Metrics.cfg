CONSTANTS
  b1 = b1
  b2 = b2
  gauge = gauge
  sum = sum
  histogram = histogram
  Batches = {b1, b2}
  Types = {gauge, sum, histogram}
  TypesOf <- TwoBatches
  Unset = {b2}
  ChanSize = 3
  QueueSize = 1
  MaxAttempts = 3
  MayClose = TRUE
  MaxLost = 1
SPECIFICATION FairSpec
INVARIANTS
  TypeOK
  NothingLeftBehind
  OncePerAttempt
PROPERTIES
  ImplementsDelivery
  SettlesAsPromised
