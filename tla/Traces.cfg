CONSTANTS
  b1 = b1
  b2 = b2
  b3 = b3
  Batches = {b1, b2, b3}
  Names = {"", shop, cart}
  shop = shop
  cart = cart
  Services <- SomeServices
  Resources <- SomeResources
  Requests <- SomeRequests
  Hex <- HexOf
  Joined <- JoinedText
  Second = 10
  DefaultLimit = 4
  NoService = ""
  QueueSize = 2
  MaxAttempts = 3
  MayClose = TRUE
  Signal = "traces"
  MaxLost = 1
SPECIFICATION Spec
INVARIANTS
  TypeOK
  DuplicatesOnlyFromLostAnswers
  BlocksAreWhole
  NoTransactionLeft
  StoredIsRead
  AnswersAreWhatWasSent
  StoredIsFound
  ServicesAreListed
PROPERTIES
  ImplementsDelivery
