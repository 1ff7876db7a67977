SPECIFICATION Spec
CONSTANTS
  Bodies <- MCBodies
  RawValues <- MCRawValues
  IntegerMax = 7
  LongMax = 15
  RoundsDown <- MCRoundsDown
INVARIANTS
  TypeOK
  RulesAgree
  PublishedReachSilver
  SilverIsExact
  GoodRecordsLand
CHECK_DEADLOCK FALSE
