CONSTANTS
  Collectors = {c1, c2}
  NumCases = 3
  Written = {1, 2}
  MaxFaults = 1
SPECIFICATION Spec
INVARIANTS
  CleanStartHasRolloverIndex
