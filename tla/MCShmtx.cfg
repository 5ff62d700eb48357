SPECIFICATION FairSpec
CONSTANTS
  Workers = {w1, w2, w3}
  Master = m
  Free = free
  MaxCrashes = 2
  MaxSemErrors = 1
INVARIANTS TypeOK MutualExclusion WaitAccounting NoLostWakeup
PROPERTIES LockProgress OwnerFrees
