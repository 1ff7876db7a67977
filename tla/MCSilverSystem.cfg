SPECIFICATION FairSpec
CONSTANTS
  v1 = v1
  v2 = v2
  i1 = i1
  u1 = u1
  Valid <- MCValid
  Invalid <- MCInvalid
  Unparseable <- MCUnparseable
  MaxOffset = 4
  Commits <- MCCommits
  MaxVersion = 3
INVARIANTS
  TypeOK
  OneRowPerEvent
  NothingDropped
  CaughtUpIsCanonical
  DlqCountsOnce
PROPERTIES
  NeverForgotten
  StoreSpec
  EventuallyLanded
