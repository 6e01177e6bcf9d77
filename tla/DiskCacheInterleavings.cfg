SPECIFICATION EntrySpec
CONSTANTS
  Keys = {k1}
  Calls = {c1, c2, c3}
  Old = Old
  OldLen = 2
  None = None
  Torn = Torn
  Unread = Unread
  Unsettled = Unsettled
  Garbled = Garbled
  ChunkSizes = {1}
  MaxBody = 1
  MaxFaults = 0
SYMMETRY Symmetry
INVARIANT NoMixture
INVARIANT SizeExplained
PROPERTY PurgeComplete
CHECK_DEADLOCK FALSE
PROPERTY ImplementsEntry
