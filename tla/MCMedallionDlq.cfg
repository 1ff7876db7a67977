SPECIFICATION Spec
CONSTANTS
  v1 = v1
  i1 = i1
  Valid <- MCValid
  Invalid <- MCInvalid
  Unparseable = {}
  MaxOffset = 1
  MaxLog = 1
  MaxResets = 1
  SilverResets = FALSE
INVARIANTS
  DlqKeysUnique
