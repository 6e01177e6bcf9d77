SPECIFICATION Spec
CONSTANTS
  Keys = {k1}
  Calls = {c1, c2}
  Old = Old
  OldLen = 2
  None = None
  Torn = Torn
  Unread = Unread
  ChunkSizes = {1}
  MaxBody = 2
  MaxFaults = 0
INVARIANT HitOrNone
CHECK_DEADLOCK FALSE
