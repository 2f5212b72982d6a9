SPECIFICATION Spec
CONSTANTS
  Players = {ann, bob}
  MaxTime = 3
  MaxStarts = 4
  MaxDraws = 3
CHECK_DEADLOCK FALSE
INVARIANT RepeatsWithinASecond
