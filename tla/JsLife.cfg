SPECIFICATION FairSpec
CONSTANTS
  Caller = {a}
  Timer = tick
  None = none
  MaxRetries = 1
  MaxLate = 1
  MaxEvents = 2
  MaxGauge = 1
INVARIANTS TypeOK FlushedMeansSent
PROPERTIES OutboxSpec FlushSettles EventuallyDelivered
CHECK_DEADLOCK FALSE
