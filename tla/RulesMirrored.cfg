SPECIFICATION Spec
CONSTANTS
  Bodies <- MCBodies
  RawValues <- MCRawValues
  IntegerMax = 7
  LongMax = 15
  RoundsDown <- MCRoundsDown
INVARIANT RulesMirrored
CHECK_DEADLOCK FALSE
