SPECIFICATION Spec
CONSTANTS
  Calls = {c1, c2, c3, c4}
  Stored = {a, b}
  None = None
  Garbled = Garbled
  MaxFaults = 1
SYMMETRY Symmetry
INVARIANT IInv
INVARIANT StaysGone
INVARIANT MixedExplained
PROPERTY NoneIsNone
CHECK_DEADLOCK FALSE
