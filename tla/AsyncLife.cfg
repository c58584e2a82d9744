SPECIFICATION FairSpec
CONSTANTS
  Caller = {c1, c2}
  TaskId = {l1, l2, l3}
  None = none
INVARIANTS TypeOK NoOrphanInSequence
PROPERTY StopReturns
