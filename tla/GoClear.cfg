SPECIFICATION Spec
CONSTANTS
  Caller = {a}
  Loop = loop
  Free = free
  MaxRetries = 1
  MaxLate = 0
  MaxEvents = 2
  MaxGauge = 0
INVARIANT NeverJams
CHECK_DEADLOCK FALSE
