INIT Init
NEXT Next
CONSTANTS
  BlockSize = 2
  BufferSize = 4
  SplitSize = 8
  DeviceSize = 20
  Modulus = 64
  Thread = {t1, t2}
  FaultSignal = {"SIGSEGV", "SIGBUS"}
  MaxTroubles = 3
  Aio = {x1, x2, x3}
  MaxIoDepth = 2
  Attempts = 16
  FirstDelay = 125
  MaxEvents = 2
  Waiter = {w1, w2}
  MaxTasks = 4
  SearchLocks = 2
  m1 = m1
  m2 = m2
  Mutex <- MCMutex
  Group <- MCGroup
  Prioritized = {m1}
  TryReads = {m1}
  MaxReads = 1
  MaxRefs = 2
  LockName = {"", "a", "b"}
  MaxLocks = 2
  NrLocks = 1
CHECK_DEADLOCK FALSE
INVARIANT SharedHeldIsOwned
