SPECIFICATION Spec
SYMMETRY MCSymmetry
CONSTANTS
  short = short
  other = other
  long = long
  Values = {short, other, long}
  LengthOf <- MCLengthOf
  DataSize = 3
  DirSize = 3
  SlotSize = 1
  EntrySize = 1
  MaxPages = 5
  MaxInserts = 4
  MaxEvictions = 0
CHECK_DEADLOCK FALSE
INVARIANTS DeletesKeepOthers
