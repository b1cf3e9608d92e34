CONSTANTS
  Docs = {d1, d2, d3}
  WithId = {d3}
  NumWorkers = 1
  FlushItems = 2
  RetryEnabled = TRUE
  MaxRequests = 2
  MayClose = TRUE
  MaxLost = 2
SPECIFICATION Spec
SYMMETRY Symmetry
INVARIANTS
  TypeOK
  SendsWithinBudget
  DuplicatesOnlyFromLostAnswers
  BodiesAreWhole
  CloseLeavesNothingBehind
PROPERTIES
  ImplementsDelivery
