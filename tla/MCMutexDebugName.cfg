SPECIFICATION MCSpec
CONSTANTS
  Thread = {t1, t2}
  a = a
  b = b
  a2 = a2
  Mutex <- MCMutex
  Group <- MCGroup
  LockName <- MCNames
  TryLocks = {}
  Restarts = FALSE
  MaxLocks = 3
  NrLocks = 1
SYMMETRY Symmetry
CHECK_DEADLOCK FALSE
INVARIANTS
  RecursionIsReal
