SPECIFICATION Spec
CONSTANTS
  FlushSeconds = 2
  RetainSeconds = 24
  AttemptSeconds = 2
  MaxRetries = 2
  MaxMissed = 2
  MaxEvents = 2
  MaxSignals = 2
INVARIANTS TypeOK KeptWhileRetained LastWord ShutdownBounded
CHECK_DEADLOCK FALSE
