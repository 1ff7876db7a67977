SPECIFICATION FairSpec
CONSTANTS
  Budget = 5
  Attempts = 2
  PageSize = 2
  MaxPages = 3
  OffsetCap = 3
  Cities = 2
  Terms = 2
INVARIANTS
  TypeOK
  StatsAddUp
  PagesAreExact
  SweepCoversAll
  EndsForAReason
  StopsAfterPair
PROPERTIES
  Terminates
