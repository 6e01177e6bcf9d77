SPECIFICATION FairSpec
CONSTANTS
  Handlers = {h1, h2}
  Names = {t1, t2}
  MaxChunks = 2
  MaxFaults = 1
INVARIANT IInv
INVARIANT OneBody
INVARIANT InOrder
INVARIANT FindsItsFile
PROPERTY LateBytesLand
CHECK_DEADLOCK FALSE
