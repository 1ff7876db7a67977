SPECIFICATION Spec
CONSTANTS
  Bodies <- MCBodies
  RawValues <- MCRawValues
  IntegerMax = 7
  LongMax = 15
  RoundsDown <- MCRoundsDown
INVARIANT ParseFailuresLabelled
CHECK_DEADLOCK FALSE
