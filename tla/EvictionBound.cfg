SPECIFICATION Spec
CONSTANTS
  Keys = {k1, k2, k3}
  Calls = {c1, c2, c3, c4}
  max_bytes = 2
  MaxSize = 2
  None = None
  MaxFaults = 2
SYMMETRY Symmetry
INVARIANT IInv
INVARIANT Tracked
INVARIANT Bounded
CHECK_DEADLOCK FALSE
