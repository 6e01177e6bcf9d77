SPECIFICATION Spec
CONSTANTS
  Keys = {k1}
  Calls = {c1, c2}
  Old = Old
  OldLen = 2
  None = None
  Torn = Torn
  Unread = Unread
  ChunkSizes = {1, 2}
  MaxBody = 2
  MaxFaults = 2
SYMMETRY Symmetry
INVARIANT IInv
INVARIANT SizeInv
INVARIANT TmpOwned
INVARIANT CommitVisible
PROPERTY HitMatches
CHECK_DEADLOCK FALSE
