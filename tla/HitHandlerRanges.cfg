SPECIFICATION FairSpec
CONSTANTS
  Readers = {r1}
  None = None
  Chunk = 2
  MaxLen = 4
  MaxSeeks = 2
  MaxCopies = 1
INVARIANT IInv
INVARIANT InRange
INVARIANT WholeRange
PROPERTY NoneIsFinal
PROPERTY ReadingEnds
CHECK_DEADLOCK FALSE
