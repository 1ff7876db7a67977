SPECIFICATION FairSpec
CONSTANTS
  v1 = v1
  i1 = i1
  Valid <- MCValid
  Invalid <- MCInvalid
  Unparseable = {}
  MaxOffset = 1
  MaxLog = 2
  MaxResets = 2
  SilverResets = TRUE
INVARIANTS
  RecordsLand
  DlqIsExact
PROPERTIES
  StoreSpec
  RecordsEventuallyLand
