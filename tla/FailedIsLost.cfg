SPECIFICATION Spec
CONSTANTS
  MaxRecords = 3
  QueueLimit = 2
  FlushTicks = 1
  DeliveryTicks = 2
INVARIANTS
  FailedIsLost
