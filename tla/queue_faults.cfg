SPECIFICATION Spec
SYMMETRY MCSymmetry
CONSTANTS
  Workstations = {w1, w2}
  Admins = {a1}
  Updaters = {}
  AdminOps = {"cancel", "event"}
  Displays = FALSE
  MaxConnections = 3
  MaxRequests = 1
  MaxSqlFaults = 1
  MaxResets = 1
CHECK_DEADLOCK FALSE
INVARIANTS
  IInv
  FlagDateAndEventsAgree
  
  OneHandlerPerWorkstation
  OfflineNotQueued
