CONSTANTS
  b1 = b1
  b2 = b2
  b3 = b3
  Batches = {b1, b2, b3}
  Names = {NoService, shop, cart}
  shop = shop
  cart = cart
  Services <- MixedBatches
  NoService = NoService
  QueueSize = 2
  MaxAttempts = 2
  MayClose = FALSE
  Signal = "logs"
  MaxLost = 1
SPECIFICATION Spec
INVARIANTS
  RowsNameTheirService
