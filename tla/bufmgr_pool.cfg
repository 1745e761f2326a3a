SPECIFICATION Spec
SYMMETRY MCSymmetry
CONSTANTS
  Clients = {c1, c2}
  Pages = {0, 1, 2}
  Data = {d1}
  NumBuffers = 2
  HTSIZE = 2
  MaxIndex = 3
  MaxReadFaults = 1
  MaxWriteFaults = 0
  ShortReads = TRUE
  DiskCanFill = TRUE
INVARIANTS
  IInv
  HashMatchesDescriptors
  PinsMatchHandles
  FullMeansAllPinned
  
 
