SPECIFICATION MCSpec
CONSTANTS
  Thread = {t1, t2}
  a = a
  b = b
  a2 = a2
  Mutex <- MCMutex
  Group <- MCGroup
  LockName <- MCNames
  TryLocks = {a, a2}
  Restarts = TRUE
  MaxLocks = 2
  NrLocks = 1
SYMMETRY Symmetry
CHECK_DEADLOCK FALSE
INVARIANTS
  TypeOK
  KnownDeadlocksDetected
  NoCycleRecorded
  UsedIdsRegistered
  NoStaleEdge
  HeldIsOwned
  RowsCoverIds
  AssertsHold
