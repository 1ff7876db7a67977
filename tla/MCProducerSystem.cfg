SPECIFICATION FairSpec
CONSTANTS
  MaxRecords = 3
  QueueLimit = 2
  FlushTicks = 1
  DeliveryTicks = 2
INVARIANTS
  TypeOK
  CleanSweepIsDurable
  EveryRecordAccounted
  LeftInFlightIsOld
PROPERTIES
  CallsReturn
