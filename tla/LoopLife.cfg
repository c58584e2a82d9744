SPECIFICATION FairSpec
CONSTANTS
  Caller = {c1, c2}
  LoopId = {l1, l2}
  None = none
INVARIANTS TypeOK AtMostOneLoop
PROPERTIES KeepsFlushing StopEnds
