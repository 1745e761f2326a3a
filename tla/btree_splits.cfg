SPECIFICATION Spec
CONSTANTS
  Keys <- MCKeys
  Bounds <- MCBounds
  LeafCapacity = 3
  IndexCapacity = 3
  MaxLeaves = 4
CHECK_DEADLOCK FALSE
INVARIANTS IInv  ScanCoversRange
