SPECIFICATION FairSpec
CONSTANTS
  Caller = {a, b}
  Loop = loop
  None = none
  MaxRetries = 1
  MaxLate = 1
  MaxEvents = 2
  MaxGauge = 1
  MaxStaged = 2
INVARIANTS TypeOK SuccessMeansSent
PROPERTIES OutboxSpec CallsReturn EventuallyDelivered
CHECK_DEADLOCK FALSE
