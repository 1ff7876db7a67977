SPECIFICATION FairSpec
CONSTANTS
  v1 = v1
  i1 = i1
  Valid <- MCValid
  Invalid <- MCInvalid
  Unparseable = {}
  MaxOffset = 3
  MaxLog = 4
  MaxResets = 2
INVARIANTS
  TypeOK
  OncePerCheckpoint
PROPERTIES
  CopySpec
  IngestedOrLoud
