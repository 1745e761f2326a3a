SPECIFICATION Spec
SYMMETRY MCSymmetry
CONSTANTS
  Workstations = {w1, w2}
  Admins = {a1}
  Updaters = {u1}
  AdminOps = {"cancel"}
  Displays = TRUE
  MaxConnections = 2
  MaxRequests = 2
  MaxSqlFaults = 0
  MaxResets = 0
CHECK_DEADLOCK FALSE
INVARIANTS
  GoneNotDisplayed
