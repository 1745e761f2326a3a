SPECIFICATION FairSpec
CONSTANTS
  Ifaces = {eth0}
  OSPF_NEIGHBOR_TIMEOUT = 2
  Timers = {t1, t2}
INVARIANTS NeighborsTypeOK AliveMeansWatched LockDiscipline
PROPERTY SilentNeighborIsWithdrawn
