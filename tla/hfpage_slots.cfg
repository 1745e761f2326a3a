SPECIFICATION Spec
CONSTANTS
  a = a
  b = b
  c = c
  Records = {a, b, c}
  LengthOf <- MCLengthOf
  DataSize = 9
  SlotSize = 2
INVARIANTS PageInv SpaceIsExact WalkMissesNothing
PROPERTIES ImplementsRecordPage
