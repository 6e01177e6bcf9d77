SPECIFICATION FairSpec
CONSTANTS
  Half = 4
  max_bytes = 1
  MaxBytes = 2
  MaxStarts = 3
  None = None
  Torn = Torn
INVARIANT IInv
INVARIANT SizeExplained
PROPERTY RestoresGauge
PROPERTY WarnsRightly
PROPERTY StateSaved
CHECK_DEADLOCK FALSE
