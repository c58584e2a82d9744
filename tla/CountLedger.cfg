SPECIFICATION Spec
CONSTANTS
  Lang = {"py", "js", "go", "net"}
  Thread = {t1, t2}
  Free = free
  Bucket = {b1}
  Plain = plain
  NoKey = none
  SelfAgg = {s1}
  PartAgg = {p1}
  CatAgg = {c1}
  ByHand = byhand
  HandValues <- MCHandValues
  Amounts <- MCAmounts
  MaxFinite = 3
  Unread = unread
SYMMETRY ThreadSymmetry
INVARIANTS TypeOK LedgerBalanced
