SPECIFICATION Spec
CONSTANTS
  LastSecond = 4300
  Durations <- MCDurations
INVARIANT StopsOnTime
CHECK_DEADLOCK FALSE
