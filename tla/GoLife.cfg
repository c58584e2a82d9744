SPECIFICATION FairSpec
CONSTANTS
  Caller = {a}
  Loop = loop
  Free = free
  MaxRetries = 1
  MaxLate = 1
  MaxEvents = 2
  MaxGauge = 1
INVARIANTS TypeOK NilMeansSent
PROPERTIES OutboxSpec CallsReturn EventuallyDelivered
CHECK_DEADLOCK FALSE
