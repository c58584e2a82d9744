SPECIFICATION Spec
CONSTANTS
  Thread = {t1, t2}
  Free = free
  Handle <- MCHandle
  NoHandle = nohandle
  Bucket = {b1, b2, b3}
  NoBucket = nobucket
  CatAgg = {c1, c2}
SYMMETRY CategorySymmetry
INVARIANTS TypeOK OccupancyExact PayloadCounts
