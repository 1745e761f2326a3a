SPECIFICATION FairSpec
CONSTANTS
  v1 = v1
  v2 = v2
  v3 = v3
  Routers = {v1, v2, v3}
  Origin = v1
  Interfaces <- MCTriangle
  Timers = {t1}
  SeqSpace = 3
  TTL = 64
  MaxChanges = 1
  MaxRestarts = 1
  MaxLost = 1
  MaxQueued = 0
INVARIANTS TypeOK CopiesDieOut
PROPERTIES NewsNeverOlder NewsArrives
