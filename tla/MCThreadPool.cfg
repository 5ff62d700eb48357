SPECIFICATION FairSpec
CONSTANTS
  Threads = {t1, t2}
  Tasks = {k1, k2, k3}
  ExitTask = exit
  Null = null
  First = first_link
  MaxQueue = 1
  MaxIndex = 2
  MaxSignalErrors = 1
INVARIANTS TypeOK WaitingCount DestroySafe
PROPERTIES Refines Completes DestroyEnds
