CONSTANTS
  Collectors = {c1, c2, c3}
  NumCases = 3
  Written = {1, 2}
  MaxFaults = 2
SPECIFICATION FairSpec
INVARIANTS
  TypeOK
  ExportingMeansReady
  DamageTakesAnError
  CleanIndexIsMapped
PROPERTIES
  EventuallyReady
