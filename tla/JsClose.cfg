SPECIFICATION Spec
CONSTANTS
  Caller = {a}
  Timer = tick
  None = none
  MaxRetries = 1
  MaxLate = 1
  MaxEvents = 2
  MaxGauge = 1
INVARIANT CloseDelivers
