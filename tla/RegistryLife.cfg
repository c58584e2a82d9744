SPECIFICATION FairSpec
CONSTANTS
  None = none
  Text <- MCText
  Keys <- MCKeys
  Values <- MCValues
  Messages <- MCMessages
  ObjectIds <- MCObjectIds
  Paths <- MCPaths
  StampPaths <- MCStampPaths
  Deltas = {1}
  MaxKey = 2
  MaxEntries = 1
  MaxFinite = 1
  MaxEvents = 2
INVARIANTS ReceiverKeepsAll
PROPERTIES StaysReported HealedDelivers
