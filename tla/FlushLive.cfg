SPECIFICATION FairSpec
CONSTANTS
  Thread = {loop, caller}
  Loop = loop
  Free = free
  MaxRetries = 1
  Cancellable = TRUE
  MaxEvents = 2
  MaxGauge = 2
  MaxLate = 1
INVARIANTS TypeOK NoSilentLoss
PROPERTIES OutboxSpec ShownNeverRegresses EventuallyDelivered EventuallyCurrent
