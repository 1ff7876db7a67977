SPECIFICATION FairSpec
CONSTANTS
  MaxDay = 3
  WindowDays = 2
  Observations <- MCObservations
  Uncategorised <- MCUncategorised
INVARIANTS
  TypeOK
  WritesConform
  TablesAgree
PROPERTIES
  ForgetsOnlyPruned
  ClosedDaysFixed
  LateRowsReachGold
