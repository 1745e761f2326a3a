SPECIFICATION Spec
SYMMETRY MCSymmetry
CONSTANTS
  Clients = {c1}
  Pages = {0, 1, 2}
  Data = {d1, d2}
  NumBuffers = 2
  HTSIZE = 2
  MaxIndex = 1
  MaxReadFaults = 1
  MaxWriteFaults = 1
  ShortReads = FALSE
  DiskCanFill = FALSE
INVARIANT CleanPagesAreOnDisk
PROPERTY ImplementsPageStore
