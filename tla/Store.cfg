CONSTANTS
  Rank <- MCRank
  Values <- MCValues
  Workloads <- MCWorkloads
  Queries <- MCQueries
  OperationQueries <- MCOperationQueries
  Words <- MCWords
  InARow <- MCInARow
  Hex <- MCHex
  Sprint <- MCSprint
  MaxAttributes = 3
  SearchSize = 3
  DefaultSize = 2
  NumTraces = 1
  ServicesSize = 1
  OperationsSize = 2
  MaxCopies = 1
  MaxQueries = 1
SPECIFICATION Spec
CHECK_DEADLOCK FALSE
INVARIANTS
  TypeOK
  DocumentsHoldTheirRecords
  JsonIsWellNested
  DedupPreventsRefusal
  PushTellsTheTruth
  TracesAreSummarised
PROPERTY AnswersShowTheIndex
